------------------------------ MODULE Catalog ------------------------------
(***************************************************************************)
(* The handlers of namespaces, and those that create, drop and rename the  *)
(* tables and views in them (namespace.go, table.go, view.go).  Unlike     *)
(* CommitTable they hold no lock: each is a sequence of statements, every  *)
(* one a transaction of its own, and what one statement read may be stale  *)
(* when the next one uses it.  The constraints of the schema are all that  *)
(* protects the catalog: UNIQUE(name) of namespaces, UNIQUE(namespace_id,  *)
(* name) and the foreign keys, ON DELETE CASCADE, of tables and views.     *)
(*                                                                         *)
(* Abstractions.  The properties of a namespace are the set of their keys. *)
(* The metadata of a table or view is a number; what CommitTable does with *)
(* it is the subject of TableCommit.  RegisterTable inserts as CreateTable *)
(* does.  ReplaceView is one step: the row lock that it takes serializes   *)
(* it, as TableCommit shows for the same protocol.  The metadata_location  *)
(* of a row, to which it gives a new name, is left out: no handler here    *)
(* decides anything by it.                                                 *)
(***************************************************************************)
EXTENDS Naturals, Sequences

CONSTANTS
    Clients,      \* the requests in flight, one per client
    Spaces,       \* names of namespaces
    Names,        \* names of tables and views
    Keys,         \* keys of namespace properties
    InitialSpaces,\* the namespaces at first
    Requests,     \* what a client may ask for
    MaxRequests,  \* how many requests a client sends
    MaxIds,       \* how many rows of namespaces, and how many of tables and views, there are ever
    None          \* no value

Kinds == {"table", "view"}

Request == [op : {"createNamespace", "deleteNamespace", "updateProperties",
                  "create", "drop", "rename", "replace"},
            kind : Kinds, space : Spaces, name : Names, toSpace : Spaces, toName : Names,
            set : SUBSET Keys, remove : SUBSET Keys, content : Nat]

\* "presumed" is a 404 NoSuchNamespace too, one that no query has confirmed.
Answers == {"ok", "exists", "noNamespace", "presumed", "missing", "notEmpty", "conflict", "error"}

\* Only views are replaced; a table is changed by CommitTable.
ASSUME RequestsAssumption ==
    Requests \subseteq Request /\ \A r \in Requests : r.op = "replace" => r.kind = "view"

ASSUME CatalogAssumption ==
    /\ MaxRequests \in Nat /\ MaxIds \in Nat
    /\ InitialSpaces \in Seq(Spaces) /\ Len(InitialSpaces) <= MaxIds
    /\ \A i, j \in 1..Len(InitialSpaces) : InitialSpaces[i] = InitialSpaces[j] => i = j
    /\ None \notin Spaces \cup Request \cup Answers \cup Nat

Ids == 1..MaxIds

VARIABLES
    spaces,    \* the rows of namespaces: the name under each id, None if deleted or unborn
    spaceIds,  \* how many ids of namespaces have been used
    props,     \* the property keys of each
    rows,      \* the rows of tables and views
    rowIds,    \* how many of their ids have been used
    pc,        \* where the handler of each client's request stands
    req,       \* the request
    src, dst,  \* the namespace ids that the handler has looked up
    read,      \* the properties that it has read
    answer,    \* its answer, None before it has one
    sent,      \* how many requests the client has sent
    cascaded,  \* the ids of rows that went with their namespace
    possible   \* the answers that were right at some moment of the request

db == <<spaces, spaceIds, props, rows, rowIds, cascaded>>
local == <<req, src, dst, read, sent>>
vars == <<db, pc, local, answer, possible>>

----------------------------------------------------------------------------
(***************************************************************************)
(* The database                                                            *)
(***************************************************************************)
\* SELECT id FROM namespaces WHERE name = n
SpacesNamed(n) == {i \in Ids : spaces[i] = n}

\* The rows of a kind under a namespace id and a name.
At(k, i, n) == {r \in rows : r.kind = k /\ r.space = i /\ r.name = n}

\* The same by the name of the namespace: JOIN namespaces.
Named(k, s, n) == {r \in rows : r.kind = k /\ spaces[r.space] = s /\ r.name = n}

RowsOf(i) == {r \in rows : r.space = i}

\* UNIQUE(namespace_id, name), of tables and of views.
TakenNever(k, i, n) == FALSE

Taken(k, i, n) == At(k, i, n) # {}

\* The foreign key to namespaces.
ReferenceFailsUnchecked(i) == FALSE

ReferenceFails(i) == spaces[i] = None

\* ON DELETE CASCADE.
CascadeForgotten(i) == {}

Cascade(i) == RowsOf(i)

----------------------------------------------------------------------------
(***************************************************************************)
(* What a handler that ran in a single transaction could answer            *)
(***************************************************************************)
Exists(sp, n) == \E i \in Ids : sp[i] = n

Find(sp, rw, k, s, n) == {r \in rw : r.kind = k /\ sp[r.space] = s /\ r.name = n}

Here(sp, rw, r) == Find(sp, rw, r.kind, r.space, r.name)

\* Where a creation or a rename puts its row.
Target(sp, rw, r) ==
    IF r.op = "rename" THEN Find(sp, rw, r.kind, r.toSpace, r.toName) \ Here(sp, rw, r)
    ELSE Here(sp, rw, r)

NoNamespace(sp, r) ==
    \/ r.op # "createNamespace" /\ ~Exists(sp, r.space)
    \/ r.op = "rename" /\ ~Exists(sp, r.toSpace)

IsMissing(sp, rw, r) == r.op \in {"drop", "replace", "rename"} /\ Here(sp, rw, r) = {}

AlreadyExists(sp, rw, r) ==
    \/ r.op = "createNamespace" /\ Exists(sp, r.space)
    \/ r.op \in {"create", "rename"} /\ Target(sp, rw, r) # {}

IsNotEmpty(sp, rw, r) == r.op = "deleteNamespace" /\ \E x \in rw : sp[x.space] = r.space

IsPossible(sp, rw, r) ==
    ~(NoNamespace(sp, r) \/ IsMissing(sp, rw, r) \/ AlreadyExists(sp, rw, r) \/ IsNotEmpty(sp, rw, r))

\* The answers whose reason holds.
RightAnswers(sp, rw, r) ==
    {a \in {"ok", "exists", "noNamespace", "missing", "notEmpty"} :
       CASE a = "ok" -> IsPossible(sp, rw, r)
         [] a = "exists" -> AlreadyExists(sp, rw, r)
         [] a = "noNamespace" -> NoNamespace(sp, r)
         [] a = "missing" -> IsMissing(sp, rw, r)
         [] a = "notEmpty" -> IsNotEmpty(sp, rw, r)}

----------------------------------------------------------------------------
(***************************************************************************)
(* The handlers                                                            *)
(***************************************************************************)
Init ==
    /\ spaces = [i \in Ids |-> IF i <= Len(InitialSpaces) THEN InitialSpaces[i] ELSE None]
    /\ spaceIds = Len(InitialSpaces)
    /\ props = [i \in Ids |-> {}]
    /\ rows = {} /\ rowIds = 0
    /\ pc = [c \in Clients |-> "idle"]
    /\ req = [c \in Clients |-> None]
    /\ src = [c \in Clients |-> None] /\ dst = [c \in Clients |-> None]
    /\ read = [c \in Clients |-> {}]
    /\ answer = [c \in Clients |-> None]
    /\ sent = [c \in Clients |-> 0]
    /\ cascaded = {}
    /\ possible = [c \in Clients |-> {}]

\* The handler decides its answer, and goes on to p.
Answer(c, a, p) ==
    /\ answer' = [answer EXCEPT ![c] = a]
    /\ pc' = [pc EXCEPT ![c] = p]

Submit(c, r) ==
    /\ pc[c] = "idle" /\ sent[c] < MaxRequests
    /\ sent' = [sent EXCEPT ![c] = @ + 1]
    /\ req' = [req EXCEPT ![c] = r]
    /\ pc' = [pc EXCEPT ![c] = "start"]
    /\ src' = [src EXCEPT ![c] = None]
    /\ dst' = [dst EXCEPT ![c] = None]
    /\ read' = [read EXCEPT ![c] = {}]
    /\ answer' = [answer EXCEPT ![c] = None]
    /\ UNCHANGED <<db>>

\* CreateNamespace: a single INSERT.
CreateNamespace(c) ==
    /\ pc[c] = "start" /\ req[c].op = "createNamespace"
    /\ \/ /\ SpacesNamed(req[c].space) # {}
          /\ Answer(c, "exists", "done")
          /\ UNCHANGED db
       \/ /\ SpacesNamed(req[c].space) = {} /\ spaceIds < MaxIds
          /\ spaceIds' = spaceIds + 1
          /\ spaces' = [spaces EXCEPT ![spaceIds + 1] = req[c].space]
          /\ props' = [props EXCEPT ![spaceIds + 1] = req[c].set]
          /\ Answer(c, "ok", "publish")
          /\ UNCHANGED <<rows, rowIds, cascaded>>
    /\ UNCHANGED local

\* The namespace is looked up by name.  CreateTable, CreateView and RegisterTable
\* insert under the id they find, DeleteNamespace counts what is under it.
GetNamespace(c) ==
    /\ pc[c] = "start" /\ req[c].op \in {"create", "rename", "deleteNamespace"}
    /\ \/ /\ SpacesNamed(req[c].space) = {}
          /\ Answer(c, "noNamespace", "done")
          /\ UNCHANGED src
       \/ \E i \in SpacesNamed(req[c].space) :
            /\ src' = [src EXCEPT ![c] = i]
            /\ pc' = [pc EXCEPT ![c] = CASE req[c].op = "create" -> "insert"
                                         [] req[c].op = "rename" -> "getDestination"
                                         [] req[c].op = "deleteNamespace" -> "count"]
            /\ UNCHANGED answer
    /\ UNCHANGED <<db, req, dst, read, sent>>

\* DeleteNamespace: the count of tables and views, and then the DELETE.
CountContents(c) ==
    /\ pc[c] = "count"
    /\ \/ /\ RowsOf(src[c]) # {}
          /\ Answer(c, "notEmpty", "done")
       \/ /\ RowsOf(src[c]) = {}
          /\ pc' = [pc EXCEPT ![c] = "delete"]
          /\ UNCHANGED answer
    /\ UNCHANGED <<db, local>>

\* The DELETE does not ask whether there was a row left to delete.
DeleteNamespace(c) ==
    /\ pc[c] = "delete"
    /\ spaces' = [spaces EXCEPT ![src[c]] = None]
    /\ props' = [props EXCEPT ![src[c]] = {}]
    /\ rows' = rows \ Cascade(src[c])
    /\ cascaded' = cascaded \cup {r.id : r \in Cascade(src[c])}
    /\ Answer(c, "ok", "publish")
    /\ UNCHANGED <<spaceIds, rowIds, local>>

\* The event of CreateNamespace or DeleteNamespace goes to the broker (see
\* EventBroker); the answer follows.
Publish(c) ==
    /\ pc[c] = "publish"
    /\ pc' = [pc EXCEPT ![c] = "done"]
    /\ UNCHANGED <<db, local, answer>>

\* UpdateNamespaceProperties: the properties are read, changed and written back
\* under the namespace's name.
ReadProperties(c) ==
    /\ pc[c] = "start" /\ req[c].op = "updateProperties"
    /\ \/ /\ SpacesNamed(req[c].space) = {}
          /\ Answer(c, "noNamespace", "done")
          /\ UNCHANGED read
       \/ \E i \in SpacesNamed(req[c].space) :
            /\ read' = [read EXCEPT ![c] = props[i]]
            /\ pc' = [pc EXCEPT ![c] = "save"]
            /\ UNCHANGED answer
    /\ UNCHANGED <<db, req, src, dst, sent>>

SaveProperties(c) ==
    /\ pc[c] = "save"
    /\ props' = [i \in Ids |-> IF i \in SpacesNamed(req[c].space)
                               THEN (read[c] \cup req[c].set) \ req[c].remove ELSE props[i]]
    /\ Answer(c, "ok", "done")
    /\ UNCHANGED <<spaces, spaceIds, rows, rowIds, cascaded, local>>

\* CreateTable, RegisterTable, CreateView: the INSERT.
Insert(c) ==
    /\ pc[c] = "insert"
    /\ \/ /\ ReferenceFails(src[c])
          /\ Answer(c, "error", "done")
          /\ UNCHANGED db
       \/ /\ ~ReferenceFails(src[c]) /\ Taken(req[c].kind, src[c], req[c].name)
          /\ Answer(c, "exists", "done")
          /\ UNCHANGED db
       \/ /\ ~ReferenceFails(src[c]) /\ ~Taken(req[c].kind, src[c], req[c].name)
          /\ rowIds < MaxIds
          /\ rowIds' = rowIds + 1
          /\ rows' = rows \cup {[id |-> rowIds + 1, kind |-> req[c].kind, space |-> src[c],
                                 name |-> req[c].name, content |-> 0]}
          /\ Answer(c, "ok", "done")
          /\ UNCHANGED <<spaces, spaceIds, props, cascaded>>
    /\ UNCHANGED local

\* DropTable and DropView: a DELETE by name.
Drop(c) ==
    /\ pc[c] = "start" /\ req[c].op = "drop"
    /\ LET gone == Named(req[c].kind, req[c].space, req[c].name) IN
       \/ /\ gone # {}
          /\ rows' = rows \ gone
          /\ Answer(c, "ok", "done")
       \/ /\ gone = {}
          /\ pc' = [pc EXCEPT ![c] = "explain"]
          /\ UNCHANGED <<rows, answer>>
    /\ UNCHANGED <<spaces, spaceIds, props, rowIds, cascaded, local>>

\* Nothing was there: a second query tells which 404 it is.  Its error is ignored,
\* and leaves nsExists false; in ReplaceView it has aborted the transaction as well,
\* whose COMMIT then fails (StatementFails).
ExplainAsNoNamespace(c) ==
    /\ pc[c] = "explain"
    /\ Answer(c, "noNamespace", "done")
    /\ UNCHANGED <<db, local>>

Explain(c) ==
    /\ pc[c] = "explain"
    /\ \/ Answer(c, IF SpacesNamed(req[c].space) = {} THEN "noNamespace" ELSE "missing", "done")
       \/ req[c].op = "drop" /\ Answer(c, "presumed", "done")
    /\ UNCHANGED <<db, local>>

\* ReplaceView: the updates of the request are not looked at, the metadata is
\* written back as it was read, under a new metadata_location that nothing reads but
\* the answer to LoadView.
Replaced(r, content) == r

ReplaceView(c) ==
    /\ pc[c] = "start" /\ req[c].op = "replace"
    /\ LET found == Named("view", req[c].space, req[c].name) IN
       \/ /\ found # {}
          /\ rows' = (rows \ found) \cup {Replaced(r, req[c].content) : r \in found}
          /\ Answer(c, "ok", "done")
       \/ /\ found # {}
          /\ Answer(c, "conflict", "done")
          /\ UNCHANGED rows
       \/ /\ found = {}
          /\ pc' = [pc EXCEPT ![c] = "explain"]
          /\ UNCHANGED <<rows, answer>>
    /\ UNCHANGED <<spaces, spaceIds, props, rowIds, cascaded, local>>

\* RenameTable and RenameView: the second namespace, and the UPDATE.
GetDestinationForgotten(c) ==
    /\ pc[c] = "getDestination"
    /\ pc' = [pc EXCEPT ![c] = "rename"]
    /\ UNCHANGED <<db, local, answer>>

GetDestination(c) ==
    /\ pc[c] = "getDestination"
    /\ \/ /\ SpacesNamed(req[c].toSpace) = {}
          /\ Answer(c, "noNamespace", "done")
          /\ UNCHANGED dst
       \/ \E i \in SpacesNamed(req[c].toSpace) :
            /\ dst' = [dst EXCEPT ![c] = i]
            /\ pc' = [pc EXCEPT ![c] = "rename"]
            /\ UNCHANGED answer
    /\ UNCHANGED <<db, req, src, read, sent>>

Rename(c) ==
    /\ pc[c] = "rename"
    /\ LET found == At(req[c].kind, src[c], req[c].name)
           moves == <<src[c], req[c].name>> # <<dst[c], req[c].toName>> IN
       \/ /\ found = {}
          /\ Answer(c, "missing", "done")
          /\ UNCHANGED rows
       \/ /\ found # {} /\ ReferenceFails(dst[c])
          /\ Answer(c, "error", "done")
          /\ UNCHANGED rows
       \/ /\ found # {} /\ ~ReferenceFails(dst[c])
          /\ moves /\ Taken(req[c].kind, dst[c], req[c].toName)
          /\ Answer(c, "exists", "done")
          /\ UNCHANGED rows
       \/ /\ found # {} /\ ~ReferenceFails(dst[c])
          /\ ~(moves /\ Taken(req[c].kind, dst[c], req[c].toName))
          /\ rows' = (rows \ found)
                     \cup {[r EXCEPT !.space = dst[c], !.name = req[c].toName] : r \in found}
          /\ Answer(c, "ok", "done")
    /\ UNCHANGED <<spaces, spaceIds, props, rowIds, cascaded, local>>

\* A statement whose error is looked at fails, or the server stops before any
\* statement: nothing more happens.
StatementFails(c) ==
    /\ pc[c] \notin {"idle", "publish", "done"}
    /\ Answer(c, "error", "done")
    /\ UNCHANGED <<db, local>>

\* The server stops after the DELETE or INSERT, before the event.
CrashBeforePublish(c) ==
    /\ pc[c] = "publish"
    /\ Answer(c, "error", "done")
    /\ UNCHANGED <<db, local>>

Receive(c) ==
    /\ pc[c] = "done"
    /\ pc' = [pc EXCEPT ![c] = "idle"]
    /\ UNCHANGED <<db, local, answer>>

Handler(c) ==
    \/ CreateNamespace(c) \/ GetNamespace(c) \/ CountContents(c) \/ DeleteNamespace(c)
    \/ Publish(c) \/ ReadProperties(c) \/ SaveProperties(c) \/ Insert(c) \/ Drop(c)
    \/ Explain(c) \/ ReplaceView(c) \/ GetDestination(c) \/ Rename(c)
    \/ StatementFails(c) \/ CrashBeforePublish(c)

\* As long as the handler has not decided, every state that it passes counts.
Observe ==
    possible' = [c \in Clients |->
                   IF pc[c] = "idle" THEN {}
                   ELSE possible[c] \cup (IF answer[c] = None
                                          THEN RightAnswers(spaces, rows, req[c]) ELSE {})]

Next ==
    /\ \E c \in Clients : Handler(c) \/ Receive(c) \/ \E r \in Requests : Submit(c, r)
    /\ Observe

Spec == Init /\ [][Next]_vars

----------------------------------------------------------------------------
(***************************************************************************)
(* Properties                                                              *)
(***************************************************************************)
Row == [id : Ids, kind : Kinds, space : Ids, name : Names, content : Nat]

DatabaseType ==
    /\ spaces \in [Ids -> Spaces \cup {None}] /\ spaceIds \in 0..MaxIds
    /\ \A i \in Ids : i > spaceIds => spaces[i] = None
    /\ props \in [Ids -> SUBSET Keys]
    /\ rows \subseteq Row /\ rowIds \in 0..MaxIds
    /\ \A r \in rows : r.id <= rowIds
    /\ cascaded \subseteq Ids

Steps == {"start", "insert", "getDestination", "rename", "count",
          "delete", "publish", "save", "explain", "done"}

HandlerType ==
    /\ pc \in [Clients -> Steps \cup {"idle"}]
    /\ req \in [Clients -> Requests \cup {None}]
    /\ src \in [Clients -> Ids \cup {None}] /\ dst \in [Clients -> Ids \cup {None}]
    /\ read \in [Clients -> SUBSET Keys]
    /\ answer \in [Clients -> Answers \cup {None}]
    /\ sent \in [Clients -> 0..MaxRequests]
    /\ \A c \in Clients : pc[c] # "idle" => req[c] # None

\* Every variable has its type, ids are used in turn, and a handler that writes
\* under a namespace id has looked one up.
TypeOK ==
    /\ DatabaseType /\ HandlerType
    /\ \A c \in Clients :
         /\ pc[c] \in {"insert", "getDestination", "rename", "count", "delete"} => src[c] # None
         /\ pc[c] = "rename" => dst[c] # None
    /\ possible \in [Clients -> SUBSET Answers]

\* No two namespaces have the same name, and no two tables, or views, of a
\* namespace: neither two concurrent creations nor a rename that raced one.
NamesAreUnique ==
    /\ \A i, j \in Ids : spaces[i] = spaces[j] /\ spaces[i] # None => i = j
    /\ \A q, r \in rows : q.kind = r.kind /\ q.space = r.space /\ q.name = r.name => q = r

\* Every table and view is in a namespace that exists, although CreateTable and
\* RenameTable use the namespace ids that they looked up a statement earlier.
NoOrphans == \A r \in rows : spaces[r.space] # None

\* What can be relied on in an answer.  After a query that failed, DropTable and
\* DropView answer that there is no such namespace where there may well be one:
\* all that is known is that the table or view was not there.
Reliable(a) == IF a = "presumed" THEN "missing" ELSE a

\* A handler that is not atomic still tells the truth: what can be relied on in
\* its answer, apart from 500 and the 409 of a lock timeout, was right at some
\* moment between the arrival of the request and the answer.  The 204 of
\* DeleteNamespace is not: a namespace that another deletion takes away with its
\* tables is reported as deleted although it was never found empty.
AnswersAreTruthful ==
    \A c \in Clients :
      /\ pc[c] # "idle" /\ answer[c] \notin {None, "error", "conflict"}
      /\ req[c].op = "deleteNamespace" => answer[c] # "ok"
      => Reliable(answer[c]) \in possible[c]

\* A creation, a drop or a rename takes effect at a moment when it is right,
\* not under something that an earlier statement of the handler saw.
SuccessIsAtomic ==
    [][\A c \in Clients :
         /\ answer[c] = None /\ answer'[c] = "ok"
         /\ req[c].op \in {"createNamespace", "create", "drop", "rename"}
         => IsPossible(spaces, rows, req[c])]_vars

\* The id that a handler has looked up still names what the request names, or
\* nothing: ids are not used again, and namespaces are not renamed.
LookedUp ==
    \A c \in Clients :
      /\ pc[c] \in {"insert", "getDestination", "rename", "count", "delete"} =>
           src[c] <= spaceIds /\ spaces[src[c]] \in {req[c].space, None}
      /\ pc[c] = "rename" => dst[c] <= spaceIds /\ spaces[dst[c]] \in {req[c].toSpace, None}

\* Where a handler stands fits its request.
ControlState ==
    \A c \in Clients :
      /\ pc[c] = "insert" => req[c].op = "create"
      /\ pc[c] \in {"getDestination", "rename"} => req[c].op = "rename"
      /\ pc[c] \in {"count", "delete"} => req[c].op = "deleteNamespace"
      /\ pc[c] = "publish" => req[c].op \in {"createNamespace", "deleteNamespace"}
      /\ pc[c] = "save" => req[c].op = "updateProperties"
      /\ pc[c] = "explain" => req[c].op \in {"drop", "replace"}

IndInv == TypeOK /\ NamesAreUnique /\ NoOrphans /\ LookedUp /\ ControlState

----------------------------------------------------------------------------
(***************************************************************************)
(* What comments and docs say that the code does not do                    *)
(***************************************************************************)
\* namespace.go: "DeleteNamespace deletes an empty namespace."
OnlyEmptyNamespacesGo == cascaded = {}
=============================================================================
