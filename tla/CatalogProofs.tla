--------------------------- MODULE CatalogProofs ---------------------------
(***************************************************************************)
(* Proofs about Catalog, for any number of clients, namespaces, names,     *)
(* requests and rows: the constraints of the schema keep names unique and  *)
(* tables in namespaces, and handlers that are not atomic answer, and take *)
(* effect, as if they were.                                                *)
(***************************************************************************)
EXTENDS Catalog, TLAPS

----------------------------------------------------------------------------
(***************************************************************************)
(* Types                                                                   *)
(***************************************************************************)
\* A request has the fields that its handler reads.
LEMMA RequestType ==
    ASSUME NEW r \in Requests
    PROVE  /\ r.kind \in Kinds /\ r.space \in Spaces /\ r.name \in Names
           /\ r.toSpace \in Spaces /\ r.toName \in Names
           /\ r.set \subseteq Keys /\ r.remove \subseteq Keys /\ r # None
           /\ r.op \in {"createNamespace", "deleteNamespace", "updateProperties",
                        "create", "drop", "rename", "replace"}
           /\ r.op = "replace" => r.kind = "view"
  BY RequestsAssumption, CatalogAssumption DEF Request

\* None is no name, no answer and no id.
LEMMA NotNone ==
    /\ None \notin Spaces /\ None \notin Answers /\ None \notin Nat /\ None \notin Ids
    /\ MaxIds \in Nat /\ MaxRequests \in Nat
  BY CatalogAssumption DEF Ids

\* What Observe collects are answers; it forgets nothing of a request under way,
\* and as long as that is undecided it adds what is right now.
LEMMA Observed ==
    ASSUME TypeOK, Observe
    PROVE  /\ possible' \in [Clients -> SUBSET Answers]
           /\ \A c \in Clients : pc[c] # "idle" =>
                /\ possible[c] \subseteq possible'[c]
                /\ answer[c] = None => RightAnswers(spaces, rows, req[c]) \subseteq possible'[c]
  <1>1. \A c \in Clients : RightAnswers(spaces, rows, req[c]) \subseteq Answers
    BY DEF RightAnswers, Answers
  <1> QED  BY <1>1 DEF Observe, TypeOK

\* ReplaceView writes back what it has read.
LEMMA ReplaceKeepsRows == \A c \in Clients : ReplaceView(c) => rows' = rows
  <1> SUFFICES ASSUME NEW c \in Clients, ReplaceView(c) PROVE rows' = rows
    OBVIOUS
  <1> DEFINE found == Named("view", req[c].space, req[c].name)
  <1>1. {Replaced(r, req[c].content) : r \in found} = found
    BY DEF Replaced
  <1>2. found \subseteq rows
    BY DEF Named
  <1> QED  BY <1>1, <1>2 DEF ReplaceView

\* A row that was renamed.
Moved(r, i, n) == [r EXCEPT !.space = i, !.name = n]

\* It keeps its id and its kind.
LEMMA MovedRow ==
    ASSUME NEW r \in Row, NEW i \in Ids, NEW n \in Names
    PROVE  /\ Moved(r, i, n) \in Row
           /\ Moved(r, i, n).id = r.id /\ Moved(r, i, n).kind = r.kind
           /\ Moved(r, i, n).space = i /\ Moved(r, i, n).name = n
  BY DEF Moved, Row

\* The rows after a rename: those it did not find, and the one it moved, to a name
\* that is free or its own.
LEMMA RenameMoves ==
    ASSUME NEW c \in Clients, Rename(c), rows' # rows
    PROVE  LET found == At(req[c].kind, src[c], req[c].name) IN
           /\ found # {} /\ ~ReferenceFails(dst[c])
           /\ \/ src[c] = dst[c] /\ req[c].name = req[c].toName
              \/ At(req[c].kind, dst[c], req[c].toName) = {}
           /\ \A q : q \in rows' <=>
                \/ q \in rows /\ q \notin found
                \/ \E r \in found : q = Moved(r, dst[c], req[c].toName)
  BY DEF Rename, Moved, Taken

\* The part of the type invariant that does not speak of what was observed.
HasLookedUp ==
    \A c \in Clients :
      /\ pc[c] \in {"insert", "getDestination", "rename", "count", "delete"} => src[c] # None
      /\ pc[c] = "rename" => dst[c] # None

StateType == DatabaseType /\ HandlerType /\ HasLookedUp

\* A step of one client, whatever it is.
Act(c) == Handler(c) \/ Receive(c) \/ \E r \in Requests : Submit(c, r)

\* Every statement of every handler keeps the types.
LEMMA StateTypeStep ==
    ASSUME TypeOK, ControlState, NEW c \in Clients, Act(c)
    PROVE  StateType'
  <1>a. StateType /\ (pc[c] # "idle" => req[c] \in Requests)
    BY DEF TypeOK, StateType, HasLookedUp, HandlerType
  <1>b. pc[c] # "idle" => /\ req[c].kind \in Kinds /\ req[c].space \in Spaces
                          /\ req[c].name \in Names /\ req[c].toName \in Names
                          /\ req[c].set \subseteq Keys
    BY <1>a, RequestType
  <1>c. \A r \in Requests : r # None
    BY RequestType
  <1> HIDE DEF Act
  <1> USE <1>a, <1>b, <1>c, NotNone
      DEF StateType, DatabaseType, HandlerType, HasLookedUp, Steps, Answers, Answer, db, local, Ids
  <1>1. ASSUME NEW r \in Requests, Submit(c, r) PROVE StateType'
    BY <1>1 DEF Submit
  <1>2. ASSUME CreateNamespace(c) PROVE StateType'
    <2>1. CASE UNCHANGED db /\ Answer(c, "exists", "done")
      BY <1>2, <2>1 DEF CreateNamespace
    <2>2. CASE ~UNCHANGED db
      <3>1. /\ spaceIds < MaxIds /\ spaceIds' = spaceIds + 1
            /\ spaces' = [spaces EXCEPT ![spaceIds + 1] = req[c].space]
            /\ props' = [props EXCEPT ![spaceIds + 1] = req[c].set]
            /\ UNCHANGED <<rows, rowIds, cascaded>>
            /\ Answer(c, "ok", "publish") /\ UNCHANGED local
        BY <1>2, <2>2 DEF CreateNamespace
      <3>2. req[c].space \in Spaces /\ req[c].set \subseteq Keys
        BY <1>2 DEF CreateNamespace
      <3>3. DatabaseType'
        BY <3>1, <3>2
      <3>4. HandlerType' /\ HasLookedUp'
        BY <1>2, <3>1 DEF CreateNamespace
      <3> QED  BY <3>3, <3>4
    <2> QED  BY <1>2, <2>1, <2>2, SMTT(30) DEF CreateNamespace
  <1>3. ASSUME GetNamespace(c) PROVE StateType'
    <2>1. CASE Answer(c, "noNamespace", "done") /\ UNCHANGED src
      BY <1>3, <2>1 DEF GetNamespace
    <2>2. ASSUME NEW i \in SpacesNamed(req[c].space), src' = [src EXCEPT ![c] = i],
                 NEW p \in {"insert", "getDestination", "count"},
                 pc' = [pc EXCEPT ![c] = p], UNCHANGED answer
          PROVE  StateType'
      <3>1. i \in Ids
        BY DEF SpacesNamed
      <3> QED  BY <1>3, <2>2, <3>1 DEF GetNamespace
    <2>3. CASE req[c].op = "create"
      BY <1>3, <2>1, <2>2, <2>3 DEF GetNamespace
    <2>4. CASE req[c].op = "rename"
      BY <1>3, <2>1, <2>2, <2>4 DEF GetNamespace
    <2>5. CASE req[c].op = "deleteNamespace"
      BY <1>3, <2>1, <2>2, <2>5 DEF GetNamespace
    <2> QED  BY <1>3, <2>3, <2>4, <2>5 DEF GetNamespace
  <1>4. ASSUME CountContents(c) PROVE StateType'
    BY <1>4, ZenonT(60) DEF CountContents
  <1>5. ASSUME DeleteNamespace(c) PROVE StateType'
    <2>1. src[c] \in Ids
      BY <1>5 DEF DeleteNamespace
    <2>2. {r.id : r \in Cascade(src[c])} \subseteq Ids
      BY DEF Cascade, RowsOf, Row
    <2>3. DatabaseType'
      BY <1>5, <2>1, <2>2 DEF DeleteNamespace
    <2>4. HandlerType' /\ HasLookedUp'
      BY <1>5 DEF DeleteNamespace
    <2> QED  BY <2>3, <2>4
  <1>6. ASSUME Publish(c) PROVE StateType'
    BY <1>6 DEF Publish
  <1>7. ASSUME ReadProperties(c) PROVE StateType'
    <2>1. CASE Answer(c, "noNamespace", "done") /\ UNCHANGED read
      BY <1>7, <2>1 DEF ReadProperties
    <2>2. ASSUME NEW i \in Ids, read' = [read EXCEPT ![c] = props[i]],
                 pc' = [pc EXCEPT ![c] = "save"], UNCHANGED answer
          PROVE  StateType'
      BY <1>7, <2>2 DEF ReadProperties
    <2> QED  BY <1>7, <2>1, <2>2 DEF ReadProperties, SpacesNamed
  <1>8. ASSUME SaveProperties(c) PROVE StateType'
    BY <1>8 DEF SaveProperties
  <1>9. ASSUME Insert(c) PROVE StateType'
    <2>1. CASE UNCHANGED db
      BY <1>9, <2>1 DEF Insert
    <2>2. CASE ~UNCHANGED db
      <3>1. /\ rowIds < MaxIds /\ rowIds' = rowIds + 1
            /\ rows' = rows \cup {[id |-> rowIds + 1, kind |-> req[c].kind, space |-> src[c],
                                   name |-> req[c].name, content |-> 0]}
            /\ UNCHANGED <<spaces, spaceIds, props, cascaded>>
            /\ Answer(c, "ok", "done") /\ UNCHANGED local
        BY <1>9, <2>2 DEF Insert
      <3>2. src[c] \in Ids /\ req[c].kind \in Kinds /\ req[c].name \in Names
        BY <1>9 DEF Insert
      <3>3. rows' \subseteq Row /\ \A r \in rows' : r.id <= rowIds'
        BY <3>1, <3>2 DEF Row
      <3>4. HandlerType' /\ HasLookedUp'
        BY <1>9, <3>1 DEF Insert
      <3> QED  BY <3>1, <3>3, <3>4
    <2> QED  BY <2>1, <2>2
  <1>10. ASSUME Drop(c) PROVE StateType'
    BY <1>10, ZenonT(60) DEF Drop, Named
  <1>11. ASSUME Explain(c) PROVE StateType'
    BY <1>11, ZenonT(60) DEF Explain
  <1>12. ASSUME ReplaceView(c) PROVE StateType'
    <2>1. rows' = rows
      BY <1>12, ReplaceKeepsRows
    <2>2. HandlerType' /\ HasLookedUp'
      BY <1>12, ZenonT(60) DEF ReplaceView
    <2> QED  BY <1>12, <2>1, <2>2 DEF ReplaceView
  <1>13. ASSUME GetDestination(c) PROVE StateType'
    <2>1. CASE Answer(c, "noNamespace", "done") /\ UNCHANGED dst
      BY <1>13, <2>1 DEF GetDestination
    <2>2. ASSUME NEW i \in Ids, dst' = [dst EXCEPT ![c] = i],
                 pc' = [pc EXCEPT ![c] = "rename"], UNCHANGED answer
          PROVE  StateType'
      BY <1>13, <2>2 DEF GetDestination
    <2> QED  BY <1>13, <2>1, <2>2 DEF GetDestination, SpacesNamed
  <1>14. ASSUME Rename(c) PROVE StateType'
    <2>1. src[c] \in Ids /\ dst[c] \in Ids /\ req[c].toName \in Names
      BY <1>14 DEF Rename
    <2>2. \A q \in rows' : q \in rows \/ \E r \in rows : q = Moved(r, dst[c], req[c].toName)
      <3>1. At(req[c].kind, src[c], req[c].name) \subseteq rows
        BY DEF At
      <3> QED  BY <1>14, <3>1, RenameMoves, Zenon
    <2>3. ASSUME NEW q \in rows' PROVE q \in Row /\ q.id <= rowIds
      <3>1. CASE q \in rows
        BY <3>1
      <3>2. ASSUME NEW r \in rows, q = Moved(r, dst[c], req[c].toName)
            PROVE  q \in Row /\ q.id <= rowIds
        <4>1. r \in Row /\ r.id <= rowIds
          OBVIOUS
        <4> HIDE DEF Ids
        <4> QED  BY <2>1, <3>2, <4>1, MovedRow
      <3> QED  BY <2>2, <3>1, <3>2
    <2>4. HandlerType' /\ HasLookedUp'
      BY <1>14 DEF Rename
    <2> QED  BY <1>14, <2>3, <2>4 DEF Rename
  <1>15. ASSUME StatementFails(c) PROVE StateType'
    BY <1>15 DEF StatementFails
  <1>16. ASSUME CrashBeforePublish(c) PROVE StateType'
    BY <1>16 DEF CrashBeforePublish
  <1>17. ASSUME Receive(c) PROVE StateType'
    BY <1>17 DEF Receive
  <1> QED
    BY <1>1, <1>2, <1>3, <1>4, <1>5, <1>6, <1>7, <1>8, <1>9, <1>10, <1>11, <1>12, <1>13,
       <1>14, <1>15, <1>16, <1>17 DEF Act, Handler

\* A client's step leaves the other clients where they are.
LEMMA ActsAlone ==
    ASSUME TypeOK, NEW c \in Clients, Act(c), NEW d \in Clients, d # c
    PROVE  /\ pc'[d] = pc[d] /\ req'[d] = req[d] /\ answer'[d] = answer[d]
           /\ src'[d] = src[d] /\ dst'[d] = dst[d]
  <1>0. HandlerType
    BY DEF TypeOK
  <1> USE <1>0 DEF HandlerType, Answer, local
  <1>1. ASSUME NEW r \in Requests, Submit(c, r)
        PROVE  /\ pc'[d] = pc[d] /\ req'[d] = req[d] /\ answer'[d] = answer[d]
               /\ src'[d] = src[d] /\ dst'[d] = dst[d]
    BY <1>1 DEF Submit
  <1>2. CASE GetNamespace(c) \/ CountContents(c) \/ ReadProperties(c) \/ SaveProperties(c)
             \/ GetDestination(c) \/ Explain(c)
    BY <1>2 DEF GetNamespace, CountContents, ReadProperties, SaveProperties, GetDestination, Explain
  <1>3. CASE CreateNamespace(c) \/ DeleteNamespace(c) \/ Insert(c) \/ Drop(c) \/ ReplaceView(c)
             \/ Rename(c)
    BY <1>3 DEF CreateNamespace, DeleteNamespace, Insert, Drop, ReplaceView, Rename
  <1>4. CASE Publish(c) \/ StatementFails(c) \/ CrashBeforePublish(c) \/ Receive(c)
    BY <1>4 DEF Publish, StatementFails, CrashBeforePublish, Receive
  <1> QED  BY <1>1, <1>2, <1>3, <1>4 DEF Act, Handler

\* A handler goes only where its request sends it.
LEMMA ControlStep ==
    ASSUME TypeOK, ControlState, NEW c \in Clients, Act(c)
    PROVE  ControlState'
  <1>0. HandlerType
    BY DEF TypeOK
  <1> USE <1>0 DEF HandlerType, ControlState, Answer, local
  <1>1. ASSUME NEW r \in Requests, Submit(c, r) PROVE ControlState'
    BY <1>1 DEF Submit
  <1>2. CASE GetNamespace(c)
    BY <1>2 DEF GetNamespace
  <1>3. CASE CountContents(c) \/ ReadProperties(c) \/ SaveProperties(c) \/ GetDestination(c)
    BY <1>3 DEF CountContents, ReadProperties, SaveProperties, GetDestination
  <1>4. CASE CreateNamespace(c) \/ DeleteNamespace(c) \/ Insert(c)
    BY <1>4 DEF CreateNamespace, DeleteNamespace, Insert
  <1>5. CASE Drop(c) \/ Explain(c) \/ ReplaceView(c) \/ Rename(c)
    BY <1>5, ZenonT(60) DEF Drop, Explain, ReplaceView, Rename
  <1>6. CASE Publish(c) \/ StatementFails(c) \/ CrashBeforePublish(c) \/ Receive(c)
    BY <1>6 DEF Publish, StatementFails, CrashBeforePublish, Receive
  <1> QED  BY <1>1, <1>2, <1>3, <1>4, <1>5, <1>6 DEF Act, Handler

----------------------------------------------------------------------------
(***************************************************************************)
(* Namespaces                                                              *)
(***************************************************************************)
\* A namespace id that has been used keeps its name or loses it for good, and no
\* name comes to be used twice.  No step both makes a namespace and deletes one.
LEMMA SpacesStep ==
    ASSUME IndInv, NEW c \in Clients, Act(c)
    PROVE  /\ spaceIds <= spaceIds'
           /\ \A i \in Ids : i <= spaceIds => spaces'[i] \in {spaces[i], None}
           /\ \A i, j \in Ids : spaces'[i] = spaces'[j] /\ spaces'[i] # None => i = j
           /\ \/ \A i \in Ids : spaces'[i] \in {spaces[i], None}
              \/ \A i \in Ids : spaces[i] # None => spaces'[i] = spaces[i]
  <1>0. DatabaseType /\ \A i, j \in Ids : spaces[i] = spaces[j] /\ spaces[i] # None => i = j
    BY DEF IndInv, TypeOK, NamesAreUnique
  <1> DEFINE Goal == /\ spaceIds <= spaceIds'
                     /\ \A i \in Ids : i <= spaceIds => spaces'[i] \in {spaces[i], None}
                     /\ \A i, j \in Ids : spaces'[i] = spaces'[j] /\ spaces'[i] # None => i = j
                     /\ \/ \A i \in Ids : spaces'[i] \in {spaces[i], None}
                        \/ \A i \in Ids : spaces[i] # None => spaces'[i] = spaces[i]
  <1>1. CASE UNCHANGED <<spaces, spaceIds>>
    BY <1>0, <1>1, NotNone DEF DatabaseType
  <1>2. ASSUME CreateNamespace(c) PROVE Goal
    <2>1. CASE UNCHANGED <<spaces, spaceIds>>
      BY <1>1, <2>1
    <2>2. CASE ~UNCHANGED <<spaces, spaceIds>>
      <3>1. /\ SpacesNamed(req[c].space) = {} /\ spaceIds < MaxIds /\ spaceIds' = spaceIds + 1
            /\ spaces' = [spaces EXCEPT ![spaceIds + 1] = req[c].space]
        BY <1>2, <2>2 DEF CreateNamespace, db
      <3>2. \A i \in Ids : spaces[i] # req[c].space
        BY <3>1 DEF SpacesNamed
      <3> QED  BY <1>0, <3>1, <3>2, NotNone DEF DatabaseType, Ids
    <2> QED  BY <2>1, <2>2
  <1>3. ASSUME DeleteNamespace(c) PROVE Goal
    BY <1>0, <1>3, NotNone DEF DeleteNamespace, DatabaseType
  <1>4. CASE \/ GetNamespace(c) \/ CountContents(c) \/ ReadProperties(c) \/ SaveProperties(c)
             \/ GetDestination(c) \/ Explain(c) \/ \E r \in Requests : Submit(c, r)
    BY <1>1, <1>4 DEF GetNamespace, CountContents, ReadProperties, SaveProperties,
      GetDestination, Explain, Submit, db
  <1>5. CASE Insert(c) \/ Drop(c) \/ ReplaceView(c) \/ Rename(c)
    BY <1>1, <1>5 DEF Insert, Drop, ReplaceView, Rename, db
  <1>6. CASE Publish(c) \/ StatementFails(c) \/ CrashBeforePublish(c) \/ Receive(c)
    BY <1>1, <1>6 DEF Publish, StatementFails, CrashBeforePublish, Receive, db
  <1> QED  BY <1>2, <1>3, <1>4, <1>5, <1>6 DEF Act, Handler

\* What was looked up stays right, or becomes the id of nothing.
LEMMA LookedUpStep ==
    ASSUME IndInv, NEW c \in Clients, Act(c)
    PROVE  LookedUp'
  <1>0. StateType /\ StateType' /\ LookedUp
    BY StateTypeStep DEF IndInv, TypeOK, StateType, HasLookedUp
  <1>1. ASSUME NEW d \in Clients, d # c
        PROVE  /\ pc'[d] \in {"insert", "getDestination", "rename", "count", "delete"} =>
                    src'[d] <= spaceIds' /\ spaces'[src'[d]] \in {req'[d].space, None}
               /\ pc'[d] = "rename" =>
                    dst'[d] <= spaceIds' /\ spaces'[dst'[d]] \in {req'[d].toSpace, None}
    <2>1. /\ pc'[d] = pc[d] /\ req'[d] = req[d] /\ src'[d] = src[d] /\ dst'[d] = dst[d]
      BY <1>1, ActsAlone DEF IndInv
    <2> QED
      BY <1>0, <2>1, SpacesStep, NotNone DEF LookedUp, StateType, HasLookedUp, HandlerType, DatabaseType, Ids
  <1>2. /\ pc'[c] \in {"insert", "getDestination", "rename", "count", "delete"} =>
             src'[c] <= spaceIds' /\ spaces'[src'[c]] \in {req'[c].space, None}
        /\ pc'[c] = "rename" =>
             dst'[c] <= spaceIds' /\ spaces'[dst'[c]] \in {req'[c].toSpace, None}
    <2> USE <1>0, NotNone
        DEF LookedUp, StateType, HasLookedUp, HandlerType, DatabaseType, Ids, Answer, db, local
    <2>1. CASE GetNamespace(c)
      <3>1. pc'[c] = "done" \/ \E i \in SpacesNamed(req[c].space) : src'[c] = i
        BY <2>1 DEF GetNamespace
      <3>2. pc'[c] # "rename" /\ spaces' = spaces /\ spaceIds' = spaceIds /\ req' = req
        BY <2>1 DEF GetNamespace
      <3>3. req[c] # None /\ req[c] \in Requests
        BY <2>1 DEF GetNamespace
      <3> QED  BY <3>1, <3>2, <3>3, RequestType DEF SpacesNamed
    <2>2. CASE CountContents(c) \/ ReadProperties(c) \/ SaveProperties(c) \/ Explain(c)
      BY <2>2 DEF CountContents, ReadProperties, SaveProperties, Explain
    <2>3. CASE GetDestination(c)
      <3>1. pc'[c] = "done" \/ \E i \in SpacesNamed(req[c].toSpace) : dst'[c] = i
        BY <2>3 DEF GetDestination
      <3>2. spaces' = spaces /\ spaceIds' = spaceIds /\ req' = req /\ src' = src
            /\ pc[c] = "getDestination"
        BY <2>3 DEF GetDestination
      <3>3. req[c] # None /\ req[c] \in Requests
        BY <3>2
      <3> QED  BY <3>1, <3>2, <3>3, RequestType DEF SpacesNamed
    <2>4. CASE CreateNamespace(c) \/ DeleteNamespace(c) \/ Insert(c) \/ Drop(c)
      BY <2>4 DEF CreateNamespace, DeleteNamespace, Insert, Drop
    <2>5. CASE ReplaceView(c) \/ Rename(c) \/ \E r \in Requests : Submit(c, r)
      BY <2>5, ZenonT(60) DEF ReplaceView, Rename, Submit
    <2>6. CASE Publish(c) \/ StatementFails(c) \/ CrashBeforePublish(c) \/ Receive(c)
      BY <2>6 DEF Publish, StatementFails, CrashBeforePublish, Receive
    <2> QED  BY <2>1, <2>2, <2>3, <2>4, <2>5, <2>6 DEF Act, Handler
  <1> QED  BY <1>1, <1>2 DEF LookedUp

----------------------------------------------------------------------------
(***************************************************************************)
(* Tables and views                                                        *)
(***************************************************************************)
UniqueRows == \A q, r \in rows : q.kind = r.kind /\ q.space = r.space /\ q.name = r.name => q = r

\* The unique constraint and the foreign key are checked when a row is written,
\* and the cascade takes the rows of a namespace that goes: nothing else is
\* needed, however old the ids are that the handlers use.
LEMMA RowsStep ==
    ASSUME IndInv, NEW c \in Clients, Act(c)
    PROVE  UniqueRows' /\ NoOrphans'
  <1>0. /\ StateType /\ NoOrphans /\ UniqueRows
        /\ pc[c] # "idle" => req[c] \in Requests
    BY DEF IndInv, TypeOK, StateType, HasLookedUp, NamesAreUnique, UniqueRows, HandlerType
  <1>a. /\ spaces \in [Ids -> Spaces \cup {None}]
        /\ \A r \in rows : r.space \in Ids /\ r \in Row
        /\ \A i \in Ids : i > spaceIds => spaces[i] = None
    BY <1>0 DEF StateType, DatabaseType, Row
  <1>1. CASE UNCHANGED <<spaces, rows>>
    BY <1>0, <1>1 DEF UniqueRows, NoOrphans
  <1>2. ASSUME CreateNamespace(c) PROVE UniqueRows' /\ NoOrphans'
    <2>1. rows' = rows /\ (spaces' = spaces \/ spaces' = [spaces EXCEPT ![spaceIds + 1] = req[c].space])
      BY <1>2 DEF CreateNamespace, db
    <2>2. req[c].space # None
      BY <1>0, <1>2, RequestType, NotNone DEF CreateNamespace
    <2> QED  BY <1>0, <1>a, <2>1, <2>2 DEF UniqueRows, NoOrphans
  <1>3. ASSUME DeleteNamespace(c) PROVE UniqueRows' /\ NoOrphans'
    BY <1>0, <1>a, <1>3 DEF DeleteNamespace, Cascade, RowsOf, UniqueRows, NoOrphans
  <1>4. ASSUME Insert(c) PROVE UniqueRows' /\ NoOrphans'
    <2>1. CASE UNCHANGED db
      BY <1>1, <2>1 DEF db
    <2>2. CASE ~UNCHANGED db
      <3> DEFINE new == [id |-> rowIds + 1, kind |-> req[c].kind, space |-> src[c],
                         name |-> req[c].name, content |-> 0]
      <3>1. /\ ~ReferenceFails(src[c]) /\ ~Taken(req[c].kind, src[c], req[c].name)
            /\ rows' = rows \cup {new} /\ spaces' = spaces
        BY <1>4, <2>2 DEF Insert
      <3>2. /\ new.kind = req[c].kind /\ new.space = src[c] /\ new.name = req[c].name
        OBVIOUS
      <3> HIDE DEF new
      <3> QED  BY <1>0, <3>1, <3>2 DEF ReferenceFails, Taken, At, UniqueRows, NoOrphans
    <2> QED  BY <2>1, <2>2
  <1>5. ASSUME Drop(c) PROVE UniqueRows' /\ NoOrphans'
    <2>1. rows' \subseteq rows /\ spaces' = spaces
      BY <1>5 DEF Drop
    <2> QED  BY <1>0, <2>1 DEF UniqueRows, NoOrphans
  <1>6. ASSUME ReplaceView(c) PROVE UniqueRows' /\ NoOrphans'
    BY <1>1, <1>6, ReplaceKeepsRows DEF ReplaceView
  <1>7. ASSUME Rename(c) PROVE UniqueRows' /\ NoOrphans'
    <2>1. spaces' = spaces
      BY <1>7 DEF Rename
    <2>2. CASE rows' # rows
      <3> DEFINE found == At(req[c].kind, src[c], req[c].name)
      <3>1. /\ found # {} /\ ~ReferenceFails(dst[c])
            /\ \/ src[c] = dst[c] /\ req[c].name = req[c].toName
               \/ At(req[c].kind, dst[c], req[c].toName) = {}
            /\ \A q : q \in rows' <=>
                 \/ q \in rows /\ q \notin found
                 \/ \E r \in found : q = Moved(r, dst[c], req[c].toName)
        BY <1>7, <2>2, RenameMoves
      <3>2. PICK r \in found : TRUE
        BY <3>1
      <3>3. \A q \in found : q = r
        BY <1>0, <3>2 DEF At, UniqueRows
      <3>4. dst[c] \in Ids /\ req[c].toName \in Names
        BY <1>0, <1>7, RequestType DEF Rename, StateType, HandlerType, HasLookedUp
      <3> DEFINE moved == Moved(r, dst[c], req[c].toName)
      <3>5. moved.kind = req[c].kind /\ moved.space = dst[c] /\ moved.name = req[c].toName
        BY <1>a, <3>2, <3>4, MovedRow DEF At
      <3>6. \A q \in rows' : q = moved \/ (q \in rows /\ q \notin found)
        BY <3>1, <3>2, <3>3
      <3> HIDE DEF found, moved
      <3>7. \A q \in rows' : q \in rows /\ q \notin found /\ q.kind = req[c].kind
                             /\ q.space = dst[c] => q.name # req[c].toName
        BY <3>1 DEF At, found
      <3> QED  BY <1>0, <2>1, <3>1, <3>5, <3>6, <3>7 DEF UniqueRows, NoOrphans, ReferenceFails
    <2> QED  BY <1>1, <2>1, <2>2
  <1>8. CASE \/ GetNamespace(c) \/ CountContents(c) \/ ReadProperties(c) \/ SaveProperties(c)
             \/ GetDestination(c) \/ Explain(c) \/ \E r \in Requests : Submit(c, r)
    BY <1>1, <1>8 DEF GetNamespace, CountContents, ReadProperties, SaveProperties,
      GetDestination, Explain, Submit, db
  <1>9. CASE Publish(c) \/ StatementFails(c) \/ CrashBeforePublish(c) \/ Receive(c)
    BY <1>1, <1>9 DEF Publish, StatementFails, CrashBeforePublish, Receive, db
  <1> QED  BY <1>2, <1>3, <1>4, <1>5, <1>6, <1>7, <1>8, <1>9 DEF Act, Handler

----------------------------------------------------------------------------
(***************************************************************************)
(* The invariants                                                          *)
(***************************************************************************)
\* Namespaces that InitialSpaces names, and no table or view.
LEMMA IndInit == Init => IndInv
  <1> SUFFICES ASSUME Init PROVE IndInv
    OBVIOUS
  <1> USE CatalogAssumption
  <1>1. DatabaseType
    BY DEF Init, DatabaseType, Ids
  <1>2. TypeOK
    BY <1>1 DEF Init, TypeOK, HandlerType
  <1>3. NamesAreUnique
    BY DEF Init, NamesAreUnique, Ids
  <1> QED  BY <1>2, <1>3 DEF Init, IndInv, NoOrphans, LookedUp, ControlState

\* One step of one client.
LEMMA IndStep == IndInv /\ [Next]_vars => IndInv'
  <1> SUFFICES ASSUME IndInv, [Next]_vars PROVE IndInv'
    OBVIOUS
  <1>1. ASSUME NEW c \in Clients, Act(c), Observe PROVE IndInv'
    <2>1. TypeOK'
      BY <1>1, StateTypeStep, Observed DEF IndInv, TypeOK, StateType, HasLookedUp
    <2>2. NamesAreUnique' /\ NoOrphans'
      BY <1>1, SpacesStep, RowsStep DEF NamesAreUnique, UniqueRows
    <2> QED  BY <1>1, <2>1, <2>2, LookedUpStep, ControlStep DEF IndInv
  <1>2. CASE UNCHANGED vars
    BY <1>2 DEF vars, db, local, IndInv, TypeOK, DatabaseType, HandlerType, NamesAreUnique,
      NoOrphans, LookedUp, ControlState
  <1> QED  BY <1>1, <1>2 DEF Next, Act

\* The inductive invariant: the properties below, that a namespace id which a
\* handler has looked up is never another's, and that handlers stay in line.
THEOREM Invariance == Spec => []IndInv
  BY IndInit, IndStep, PTL DEF Spec

\* Every variable has its type (namespace.go, table.go, view.go).
THEOREM TypeCorrect == Spec => []TypeOK
  <1>1. IndInv => TypeOK
    BY DEF IndInv
  <1> QED  BY <1>1, Invariance, PTL

\* Neither concurrent creations nor renames make two namespaces, or two tables or
\* views of one, of the same name.
THEOREM UniqueNames == Spec => []NamesAreUnique
  <1>1. IndInv => NamesAreUnique
    BY DEF IndInv
  <1> QED  BY <1>1, Invariance, PTL

\* No table or view is left in a namespace that was deleted meanwhile.
THEOREM NoOrphanRows == Spec => []NoOrphans
  <1>1. IndInv => NoOrphans
    BY DEF IndInv
  <1> QED  BY <1>1, Invariance, PTL

----------------------------------------------------------------------------
(***************************************************************************)
(* Handlers that are not atomic take effect and answer as if they were     *)
(***************************************************************************)
\* What makes each answer a right one.
LEMMA RightAnswer ==
    ASSUME NEW sp, NEW rw, NEW r
    PROVE  /\ IsPossible(sp, rw, r) => "ok" \in RightAnswers(sp, rw, r)
           /\ AlreadyExists(sp, rw, r) => "exists" \in RightAnswers(sp, rw, r)
           /\ NoNamespace(sp, r) => "noNamespace" \in RightAnswers(sp, rw, r)
           /\ IsMissing(sp, rw, r) => "missing" \in RightAnswers(sp, rw, r)
           /\ IsNotEmpty(sp, rw, r) => "notEmpty" \in RightAnswers(sp, rw, r)
  BY DEF RightAnswers

\* The rows under a namespace's name are those under its id.
LEMMA FindById ==
    ASSUME IndInv, NEW i \in Ids, spaces[i] # None, NEW k, NEW n
    PROVE  Find(spaces, rows, k, spaces[i], n) = At(k, i, n)
  <1>1. \A r \in rows : r.space \in Ids
    BY DEF IndInv, TypeOK, DatabaseType, Row
  <1>2. \A r \in rows : spaces[r.space] = spaces[i] <=> r.space = i
    BY <1>1 DEF IndInv, NamesAreUnique
  <1> QED  BY <1>2 DEF Find, At

\* What a handler that has looked up its namespaces may rely on.
LEMMA AtUse ==
    ASSUME IndInv, NEW c \in Clients
    PROVE  /\ pc[c] # "idle" => req[c] \in Requests
           /\ pc[c] \in {"insert", "getDestination", "rename", "count", "delete"} =>
                src[c] \in Ids /\ spaces[src[c]] \in {req[c].space, None}
           /\ pc[c] = "rename" => dst[c] \in Ids /\ spaces[dst[c]] \in {req[c].toSpace, None}
  BY DEF IndInv, TypeOK, HandlerType, LookedUp

\* An INSERT that succeeds or finds the name taken is right about it.
LEMMA InsertIsRight ==
    ASSUME IndInv, NEW c \in Clients, pc[c] = "insert", ~ReferenceFails(src[c])
    PROVE  /\ ~Taken(req[c].kind, src[c], req[c].name) => IsPossible(spaces, rows, req[c])
           /\ Taken(req[c].kind, src[c], req[c].name) => AlreadyExists(spaces, rows, req[c])
  <1>1. /\ src[c] \in Ids /\ spaces[src[c]] = req[c].space /\ spaces[src[c]] # None
        /\ req[c].op = "create"
    BY AtUse DEF ReferenceFails, IndInv, ControlState
  <1>2. Here(spaces, rows, req[c]) = At(req[c].kind, src[c], req[c].name)
    BY <1>1, FindById DEF Here
  <1>3. Exists(spaces, req[c].space)
    BY <1>1 DEF Exists
  <1> QED
    BY <1>1, <1>2, <1>3
    DEF Taken, IsPossible, NoNamespace, IsMissing, AlreadyExists, IsNotEmpty, Target

\* So is the UPDATE of a rename that finds its row.
LEMMA RenameIsRight ==
    ASSUME IndInv, NEW c \in Clients, pc[c] = "rename", ~ReferenceFails(dst[c]),
           At(req[c].kind, src[c], req[c].name) # {}
    PROVE  LET moves == <<src[c], req[c].name>> # <<dst[c], req[c].toName>>
               taken == Taken(req[c].kind, dst[c], req[c].toName) IN
           /\ ~(moves /\ taken) => IsPossible(spaces, rows, req[c])
           /\ moves /\ taken => AlreadyExists(spaces, rows, req[c])
  <1>1. /\ src[c] \in Ids /\ dst[c] \in Ids
        /\ spaces[dst[c]] = req[c].toSpace /\ spaces[dst[c]] # None
        /\ req[c].op = "rename"
    BY AtUse DEF ReferenceFails, IndInv, ControlState
  <1>2. spaces[src[c]] # None /\ spaces[src[c]] = req[c].space
    BY AtUse DEF At, IndInv, NoOrphans
  <1>3. Here(spaces, rows, req[c]) = At(req[c].kind, src[c], req[c].name)
    BY <1>1, <1>2, FindById DEF Here
  <1>4. Find(spaces, rows, req[c].kind, req[c].toSpace, req[c].toName)
          = At(req[c].kind, dst[c], req[c].toName)
    BY <1>1, FindById
  <1>5. Exists(spaces, req[c].space) /\ Exists(spaces, req[c].toSpace)
    BY <1>1, <1>2 DEF Exists
  <1>6. ~NoNamespace(spaces, req[c]) /\ ~IsMissing(spaces, rows, req[c])
        /\ ~IsNotEmpty(spaces, rows, req[c])
    BY <1>1, <1>3, <1>5 DEF NoNamespace, IsMissing, IsNotEmpty
  <1>7. Target(spaces, rows, req[c])
          = At(req[c].kind, dst[c], req[c].toName) \ At(req[c].kind, src[c], req[c].name)
    BY <1>1, <1>3, <1>4 DEF Target
  <1>8. CASE src[c] = dst[c] /\ req[c].name = req[c].toName
    <2>1. Target(spaces, rows, req[c]) = {}
      BY <1>7, <1>8
    <2> QED  BY <1>1, <1>6, <1>8, <2>1 DEF IsPossible, AlreadyExists
  <1>9. CASE src[c] # dst[c] \/ req[c].name # req[c].toName
    <2>1. Target(spaces, rows, req[c]) = At(req[c].kind, dst[c], req[c].toName)
      BY <1>7, <1>9 DEF At
    <2> QED  BY <1>1, <1>6, <1>9, <2>1 DEF IsPossible, AlreadyExists, Taken
  <1> QED  BY <1>8, <1>9

\* A DELETE by name that deletes something is right.
LEMMA DropIsRight ==
    ASSUME IndInv, NEW c \in Clients, req[c].op = "drop",
           Named(req[c].kind, req[c].space, req[c].name) # {}
    PROVE  IsPossible(spaces, rows, req[c])
  <1>1. PICK r \in rows : r.kind = req[c].kind /\ spaces[r.space] = req[c].space
                          /\ r.name = req[c].name
    BY DEF Named
  <1>2. r.space \in Ids
    BY DEF IndInv, TypeOK, DatabaseType, Row
  <1>3. Exists(spaces, req[c].space) /\ r \in Here(spaces, rows, req[c])
    BY <1>1, <1>2 DEF Exists, Here, Find
  <1> QED  BY <1>3 DEF IsPossible, NoNamespace, IsMissing, AlreadyExists, IsNotEmpty

\* A namespace is created when there is none of its name.
LEMMA CreateNamespaceIsRight ==
    ASSUME NEW c \in Clients, req[c].op = "createNamespace"
    PROVE  /\ SpacesNamed(req[c].space) = {} => IsPossible(spaces, rows, req[c])
           /\ SpacesNamed(req[c].space) # {} => AlreadyExists(spaces, rows, req[c])
  BY DEF SpacesNamed, IsPossible, NoNamespace, IsMissing, AlreadyExists, IsNotEmpty, Exists

\* A success that changes tables or namespaces is one of four statements, and
\* each is right at its moment.
LEMMA SuccessIsRight ==
    ASSUME IndInv, NEW c \in Clients, Act(c), answer[c] = None, answer'[c] = "ok",
           req[c].op \in {"createNamespace", "create", "drop", "rename"}
    PROVE  IsPossible(spaces, rows, req[c])
  <1>0. HandlerType /\ ControlState /\ None # "ok"
    BY NotNone DEF IndInv, TypeOK, Answers
  <1> USE <1>0 DEF HandlerType, ControlState, Answer
  <1>1. CASE CreateNamespace(c)
    BY <1>1, CreateNamespaceIsRight DEF CreateNamespace
  <1>2. CASE Insert(c)
    BY <1>2, InsertIsRight DEF Insert
  <1>3. CASE Drop(c)
    BY <1>3, DropIsRight DEF Drop
  <1>4. CASE Rename(c)
    <2>1. At(req[c].kind, src[c], req[c].name) # {} /\ ~ReferenceFails(dst[c])
      BY <1>4 DEF Rename
    <2>2. ~(/\ <<src[c], req[c].name>> # <<dst[c], req[c].toName>>
            /\ Taken(req[c].kind, dst[c], req[c].toName))
      BY <1>4, <2>1 DEF Rename
    <2>3. pc[c] = "rename"
      BY <1>4 DEF Rename
    <2> QED  BY <2>1, <2>2, <2>3, RenameIsRight
  <1>5. CASE \/ GetNamespace(c) \/ CountContents(c) \/ ReadProperties(c) \/ SaveProperties(c)
             \/ GetDestination(c) \/ Explain(c) \/ \E r \in Requests : Submit(c, r)
    BY <1>5 DEF GetNamespace, CountContents, ReadProperties, SaveProperties, GetDestination,
      Explain, Submit
  <1>6. CASE DeleteNamespace(c) \/ ReplaceView(c)
    BY <1>6 DEF DeleteNamespace, ReplaceView
  <1>7. CASE Publish(c) \/ StatementFails(c) \/ CrashBeforePublish(c) \/ Receive(c)
    BY <1>7 DEF Publish, StatementFails, CrashBeforePublish, Receive
  <1> QED  BY <1>1, <1>2, <1>3, <1>4, <1>5, <1>6, <1>7 DEF Act, Handler

\* A creation, a drop or a rename that succeeds was possible in the very state in
\* which its last statement ran, however stale the ids that it used.
THEOREM SuccessesAreAtomic == Spec => SuccessIsAtomic
  <1>1. IndInv /\ [Next]_vars =>
          [\A c \in Clients :
             /\ answer[c] = None /\ answer'[c] = "ok"
             /\ req[c].op \in {"createNamespace", "create", "drop", "rename"}
             => IsPossible(spaces, rows, req[c])]_vars
    <2> SUFFICES ASSUME IndInv, Next, NEW d \in Clients, answer[d] = None, answer'[d] = "ok",
                        req[d].op \in {"createNamespace", "create", "drop", "rename"}
                 PROVE  IsPossible(spaces, rows, req[d])
      OBVIOUS
    <2>1. PICK c \in Clients : Act(c)
      BY DEF Next, Act
    <2>2. CASE c # d
      BY <2>1, <2>2, ActsAlone, NotNone DEF IndInv, Answers
    <2>3. CASE c = d
      BY <2>1, <2>3, SuccessIsRight
    <2> QED  BY <2>2, <2>3
  <1> QED  BY <1>1, Invariance, PTL DEF Spec, SuccessIsAtomic

\* A handler under way has not decided yet.
Undecided ==
    \A c \in Clients : pc[c] \in Steps \ {"publish", "done"} => answer[c] = None

\* What a handler may still answer although it need not be right any more was
\* right at an earlier moment of the request.  A rename whose first namespace was
\* deleted after it was looked up finds no row under its id: until a namespace
\* of that name is created again there is none, and before that happens the
\* request has seen a moment at which there was none.
Remembered ==
    \A c \in Clients :
      /\ pc[c] = "save" => "ok" \in possible[c]
      /\ pc[c] = "explain" => "missing" \in possible[c]
      /\ pc[c] \in {"getDestination", "rename"} /\ spaces[src[c]] = None =>
           "missing" \in possible[c] \/ ~Exists(spaces, req[c].space)

TruthInv == IndInv /\ Undecided /\ Remembered /\ AnswersAreTruthful

\* A handler decides once.
LEMMA UndecidedStep ==
    ASSUME IndInv, Undecided, NEW c \in Clients, Act(c)
    PROVE  Undecided'
  <1>0. HandlerType
    BY DEF IndInv, TypeOK
  <1>1. \A d \in Clients : d # c => pc'[d] = pc[d] /\ answer'[d] = answer[d]
    BY ActsAlone DEF IndInv
  <1> USE <1>0 DEF HandlerType, Undecided, Answer, Steps
  <1>2. pc'[c] \in Steps \ {"publish", "done"} => answer'[c] = None
    <2>1. CASE \/ GetNamespace(c) \/ CountContents(c) \/ ReadProperties(c) \/ SaveProperties(c)
               \/ GetDestination(c) \/ Explain(c) \/ \E r \in Requests : Submit(c, r)
      BY <2>1 DEF GetNamespace, CountContents, ReadProperties, SaveProperties, GetDestination,
        Explain, Submit
    <2>2. CASE CreateNamespace(c) \/ DeleteNamespace(c) \/ Insert(c) \/ Drop(c) \/ ReplaceView(c)
               \/ Rename(c)
      BY <2>2 DEF CreateNamespace, DeleteNamespace, Insert, Drop, ReplaceView, Rename
    <2>3. CASE Publish(c) \/ StatementFails(c) \/ CrashBeforePublish(c) \/ Receive(c)
      BY <2>3 DEF Publish, StatementFails, CrashBeforePublish, Receive
    <2> QED  BY <2>1, <2>2, <2>3 DEF Act, Handler
  <1> QED  BY <1>1, <1>2

\* What an answer that is being decided rests on.
LEMMA DecisionIsRight ==
    ASSUME TruthInv, NEW c \in Clients, Act(c), answer'[c] # answer[c],
           answer'[c] \notin {None, "error", "conflict"},
           req[c].op = "deleteNamespace" => answer'[c] # "ok"
    PROVE  /\ Reliable(answer'[c]) \in RightAnswers(spaces, rows, req[c]) \cup possible[c]
           /\ answer[c] = None
  <1>0. IndInv /\ HandlerType /\ ControlState /\ Undecided /\ Remembered
    BY DEF TruthInv, IndInv, TypeOK
  <1>a. pc[c] # "idle" => req[c] \in Requests
    BY <1>0, AtUse
  <1>b. answer[c] = None
    <2> USE <1>0 DEF HandlerType, Undecided, Answer, Steps
    <2>1. CASE pc[c] \in {"publish", "done", "idle"}
      BY <2>1 DEF Act, Handler, GetNamespace, CountContents, ReadProperties, SaveProperties,
        GetDestination, Explain, Submit, CreateNamespace, DeleteNamespace, Insert, Drop,
        ReplaceView, Rename, Publish, StatementFails, CrashBeforePublish, Receive
    <2> QED  BY <2>1
  <1> DEFINE right == RightAnswers(spaces, rows, req[c])
  <1>c. /\ IsPossible(spaces, rows, req[c]) => "ok" \in right
        /\ AlreadyExists(spaces, rows, req[c]) => "exists" \in right
        /\ NoNamespace(spaces, req[c]) => "noNamespace" \in right
        /\ IsMissing(spaces, rows, req[c]) => "missing" \in right
        /\ IsNotEmpty(spaces, rows, req[c]) => "notEmpty" \in right
    BY RightAnswer
  <1>d. pc[c] # "idle" /\ req[c].op # "createNamespace" /\ SpacesNamed(req[c].space) = {} =>
          NoNamespace(spaces, req[c])
    BY DEF NoNamespace, Exists, SpacesNamed
  <1> HIDE DEF right
  <1>e. \A a : a # "presumed" => Reliable(a) = a
    BY DEF Reliable
  <1> SUFFICES \/ answer'[c] # "presumed" /\ answer'[c] \in right \cup possible[c]
               \/ answer'[c] = "presumed" /\ "missing" \in possible[c]
    BY <1>b, <1>e DEF right, Reliable
  <1> USE <1>0 DEF HandlerType, ControlState, Answer
  <1>1. CASE CreateNamespace(c)
    BY <1>1, <1>c, CreateNamespaceIsRight DEF CreateNamespace
  <1>2. CASE GetNamespace(c)
    BY <1>2, <1>c, <1>d DEF GetNamespace
  <1>3. CASE CountContents(c)
    <2>1. answer'[c] = "notEmpty" /\ pc[c] = "count" /\ req[c].op = "deleteNamespace"
      BY <1>3 DEF CountContents
    <2>2. PICK r \in rows : r.space = src[c]
      BY <1>3, <2>1 DEF CountContents, RowsOf
    <2>3. spaces[r.space] = req[c].space
      BY <2>1, <2>2, AtUse DEF IndInv, NoOrphans
    <2> QED  BY <1>c, <2>1, <2>3 DEF IsNotEmpty
  <1>4. CASE DeleteNamespace(c)
    BY <1>4 DEF DeleteNamespace
  <1>5. CASE ReadProperties(c)
    BY <1>5, <1>c, <1>d DEF ReadProperties
  <1>6. CASE SaveProperties(c)
    BY <1>6 DEF SaveProperties, Remembered
  <1>7. CASE Insert(c)
    BY <1>7, <1>c, InsertIsRight DEF Insert
  <1>8. CASE Drop(c)
    BY <1>8, <1>c, DropIsRight DEF Drop
  <1>9. CASE Explain(c)
    BY <1>9, <1>c, <1>d DEF Explain, Remembered
  <1>10. CASE ReplaceView(c)
    <2>1. pc[c] = "start" /\ req[c].op = "replace" /\ req[c].kind = "view"
      BY <1>10, <1>a, RequestType DEF ReplaceView
    <2>2. Here(spaces, rows, req[c]) = Named("view", req[c].space, req[c].name)
      BY <2>1 DEF Here, Find, Named
    <2>3. Here(spaces, rows, req[c]) # {} => Exists(spaces, req[c].space)
      BY DEF Here, Find, Exists, IndInv, TypeOK, DatabaseType, Row
    <2>4. Here(spaces, rows, req[c]) # {} => IsPossible(spaces, rows, req[c])
      BY <2>1, <2>3 DEF IsPossible, NoNamespace, IsMissing, AlreadyExists, IsNotEmpty
    <2>5. Here(spaces, rows, req[c]) = {} => IsMissing(spaces, rows, req[c])
      BY <2>1 DEF IsMissing
    <2> QED  BY <1>10, <1>c, <1>d, <2>1, <2>2, <2>4, <2>5 DEF ReplaceView
  <1>11. CASE GetDestination(c)
    <2>1. pc[c] = "getDestination" /\ req[c].op = "rename" /\ answer'[c] = "noNamespace"
          /\ SpacesNamed(req[c].toSpace) = {}
      BY <1>11 DEF GetDestination
    <2> QED  BY <1>c, <2>1 DEF NoNamespace, Exists, SpacesNamed
  <1>12. CASE Rename(c)
    <2>1. pc[c] = "rename" /\ req[c].op = "rename"
      BY <1>12 DEF Rename
    <2>2. CASE At(req[c].kind, src[c], req[c].name) = {}
      <3>1. answer'[c] = "missing"
        BY <1>12, <2>2 DEF Rename
      <3>2. CASE spaces[src[c]] = None
        <4>1. ~Exists(spaces, req[c].space) => IsMissing(spaces, rows, req[c])
          BY <2>1 DEF Exists, IsMissing, Here, Find, IndInv, TypeOK, DatabaseType, Row
        <4> QED  BY <1>c, <2>1, <3>1, <3>2, <4>1 DEF Remembered
      <3>3. CASE spaces[src[c]] # None
        <4>1. spaces[src[c]] = req[c].space /\ src[c] \in Ids
          BY <2>1, <3>3, AtUse
        <4>2. Here(spaces, rows, req[c]) = {}
          BY <2>2, <3>3, <4>1, FindById DEF Here
        <4> QED  BY <1>c, <2>1, <3>1, <4>2 DEF IsMissing
      <3> QED  BY <3>2, <3>3
    <2>3. CASE At(req[c].kind, src[c], req[c].name) # {}
      <3>1. ~ReferenceFails(dst[c])
        BY <1>12, <2>3 DEF Rename
      <3> DEFINE clash == /\ <<src[c], req[c].name>> # <<dst[c], req[c].toName>>
                          /\ Taken(req[c].kind, dst[c], req[c].toName)
      <3>2. answer'[c] = IF clash THEN "exists" ELSE "ok"
        BY <1>12, <2>3, <3>1 DEF Rename
      <3>3. (clash => AlreadyExists(spaces, rows, req[c])) /\ (~clash => IsPossible(spaces, rows, req[c]))
        BY <2>1, <2>3, <3>1, RenameIsRight
      <3> QED  BY <1>c, <3>2, <3>3
    <2> QED  BY <2>2, <2>3
  <1>13. CASE Publish(c) \/ StatementFails(c) \/ CrashBeforePublish(c) \/ Receive(c)
    BY <1>13 DEF Publish, StatementFails, CrashBeforePublish, Receive
  <1>14. CASE \E r \in Requests : Submit(c, r)
    BY <1>14 DEF Submit
  <1> QED
    BY <1>1, <1>2, <1>3, <1>4, <1>5, <1>6, <1>7, <1>8, <1>9, <1>10, <1>11, <1>12, <1>13, <1>14
    DEF Act, Handler

\* What was seen is kept, and seen before it can stop being so.
LEMMA RememberedStep ==
    ASSUME TruthInv, NEW c \in Clients, Act(c), Observe
    PROVE  Remembered'
  <1>0. IndInv /\ HandlerType /\ HandlerType' /\ ControlState /\ Undecided /\ Remembered /\ TypeOK
    BY StateTypeStep DEF TruthInv, IndInv, TypeOK, StateType
  <1>a. \A d \in Clients : pc[d] # "idle" =>
          /\ possible[d] \subseteq possible'[d]
          /\ answer[d] = None => RightAnswers(spaces, rows, req[d]) \subseteq possible'[d]
    BY <1>0, Observed
  <1>b. \A d \in Clients : IsMissing(spaces, rows, req[d]) =>
                            "missing" \in RightAnswers(spaces, rows, req[d])
    BY RightAnswer
  <1>1. ASSUME NEW d \in Clients, d # c
        PROVE  /\ pc'[d] = "save" => "ok" \in possible'[d]
               /\ pc'[d] = "explain" => "missing" \in possible'[d]
               /\ pc'[d] \in {"getDestination", "rename"} /\ spaces'[src'[d]] = None =>
                    "missing" \in possible'[d] \/ ~Exists(spaces', req'[d].space)
    <2>1. pc'[d] = pc[d] /\ req'[d] = req[d] /\ src'[d] = src[d]
      BY <1>0, <1>1, ActsAlone
    <2>2. /\ pc'[d] = "save" => "ok" \in possible'[d]
          /\ pc'[d] = "explain" => "missing" \in possible'[d]
      BY <1>0, <1>a, <2>1 DEF Remembered
    <2>3. ASSUME pc[d] \in {"getDestination", "rename"}, spaces'[src[d]] = None,
                 Exists(spaces', req[d].space)
          PROVE  "missing" \in possible'[d]
      <3>1. answer[d] = None /\ req[d].op = "rename" /\ req[d] \in Requests /\ src[d] \in Ids
        BY <1>0, <2>3, AtUse DEF Undecided, Steps, ControlState
      <3>2. CASE spaces[src[d]] = None
        <4>1. ~Exists(spaces, req[d].space) => IsMissing(spaces, rows, req[d])
          BY <1>0, <3>1 DEF Exists, IsMissing, Here, Find, TypeOK, DatabaseType, Row
        <4> QED  BY <1>0, <1>a, <1>b, <2>3, <3>1, <3>2, <4>1 DEF Remembered
      <3>3. CASE spaces[src[d]] # None
        <4>1. spaces[src[d]] = req[d].space
          BY <1>0, <2>3, <3>3, AtUse
        <4>2. \A i \in Ids : spaces'[i] \in {spaces[i], None}
          BY <1>0, <2>3, <3>1, <3>3, SpacesStep
        <4>3. PICK i \in Ids : spaces'[i] = req[d].space
          BY <2>3 DEF Exists
        <4>4. spaces[i] = req[d].space
          BY <3>3, <4>1, <4>2, <4>3
        <4>5. i = src[d]
          BY <1>0, <3>1, <3>3, <4>1, <4>4 DEF IndInv, NamesAreUnique
        <4> QED  BY <2>3, <3>3, <4>1, <4>3, <4>5
      <3> QED  BY <3>2, <3>3
    <2> QED  BY <2>1, <2>2, <2>3
  <1>2. pc'[c] = "save" => "ok" \in possible'[c]
    <2>1. ASSUME pc'[c] = "save" PROVE ReadProperties(c)
      BY <1>0, <2>1 DEF Act, Handler, HandlerType, Answer, GetNamespace, CountContents,
        SaveProperties, GetDestination, Explain, Submit, CreateNamespace, DeleteNamespace, Insert,
        Drop, ReplaceView, Rename, Publish, StatementFails, CrashBeforePublish, Receive
    <2>2. ASSUME ReadProperties(c), pc'[c] = "save" PROVE IsPossible(spaces, rows, req[c])
      <3>1. Exists(spaces, req[c].space) /\ req[c].op = "updateProperties"
        BY <1>0, <2>2 DEF ReadProperties, Exists, SpacesNamed, HandlerType, Answer
      <3> QED  BY <3>1 DEF IsPossible, NoNamespace, IsMissing, AlreadyExists, IsNotEmpty
    <2>3. ASSUME ReadProperties(c) PROVE pc[c] # "idle" /\ answer[c] = None
      BY <1>0, <2>3 DEF ReadProperties, Undecided, Steps
    <2> QED  BY <1>a, <2>1, <2>2, <2>3, RightAnswer
  <1>3. pc'[c] = "explain" => "missing" \in possible'[c]
    <2>1. ASSUME pc'[c] = "explain" PROVE Drop(c) \/ ReplaceView(c)
      BY <1>0, <2>1 DEF Act, Handler, HandlerType, Answer, GetNamespace, CountContents,
        SaveProperties, GetDestination, Explain, Submit, CreateNamespace, DeleteNamespace, Insert,
        ReadProperties, Rename, Publish, StatementFails, CrashBeforePublish, Receive
    <2>2. ASSUME Drop(c), pc'[c] = "explain" PROVE IsMissing(spaces, rows, req[c])
      BY <1>0, <2>2 DEF Drop, Named, IsMissing, Here, Find, HandlerType, Answer
    <2>3. ASSUME ReplaceView(c), pc'[c] = "explain" PROVE IsMissing(spaces, rows, req[c])
      <3>1. pc[c] = "start" /\ req[c].op = "replace"
        BY <2>3 DEF ReplaceView
      <3>2. req[c].kind = "view"
        BY <1>0, <3>1, RequestType DEF HandlerType
      <3>3. Named("view", req[c].space, req[c].name) = {}
        BY <1>0, <2>3 DEF ReplaceView, HandlerType, Answer
      <3> QED  BY <3>1, <3>2, <3>3 DEF Named, IsMissing, Here, Find
    <2>4. ASSUME Drop(c) \/ ReplaceView(c) PROVE pc[c] # "idle" /\ answer[c] = None
      BY <1>0, <2>4 DEF Drop, ReplaceView, Undecided, Steps
    <2> QED  BY <1>a, <1>b, <2>1, <2>2, <2>3, <2>4
  <1>4. pc'[c] \in {"getDestination", "rename"} /\ spaces'[src'[c]] = None =>
          "missing" \in possible'[c] \/ ~Exists(spaces', req'[c].space)
    <2>1. ASSUME pc'[c] \in {"getDestination", "rename"} PROVE GetNamespace(c) \/ GetDestination(c)
      BY <1>0, <2>1 DEF Act, Handler, HandlerType, Answer, CountContents, ReadProperties,
        SaveProperties, Explain, Submit, CreateNamespace, DeleteNamespace, Insert,
        Drop, ReplaceView, Rename, Publish, StatementFails, CrashBeforePublish, Receive
    <2>2. ASSUME GetNamespace(c), pc'[c] \in {"getDestination", "rename"}
          PROVE  spaces'[src'[c]] # None
      <3>1. spaces' = spaces /\ src'[c] \in SpacesNamed(req[c].space) /\ pc[c] # "idle"
        BY <1>0, <2>2 DEF GetNamespace, HandlerType, Answer, db
      <3>2. req[c].space # None
        BY <1>0, <3>1, AtUse, RequestType, NotNone
      <3> QED  BY <3>1, <3>2 DEF SpacesNamed
    <2>3. ASSUME GetDestination(c)
          PROVE  /\ spaces' = spaces /\ src' = src /\ req' = req
                 /\ pc[c] = "getDestination"
      BY <2>3 DEF GetDestination, db
    <2> QED  BY <1>0, <1>a, <2>1, <2>2, <2>3 DEF Remembered
  <1> QED  BY <1>1, <1>2, <1>3, <1>4 DEF Remembered

\* An answer stays as right as it was, and a new one is right.
LEMMA TruthStep == TruthInv /\ [Next]_vars => TruthInv'
  <1> SUFFICES ASSUME TruthInv, [Next]_vars PROVE TruthInv'
    OBVIOUS
  <1>0. IndInv /\ IndInv' /\ HandlerType /\ TypeOK
    BY IndStep DEF TruthInv, IndInv, TypeOK
  <1>1. ASSUME NEW c \in Clients, Act(c), Observe PROVE TruthInv'
    <2>1. Undecided' /\ Remembered'
      BY <1>1, UndecidedStep, RememberedStep DEF TruthInv
    <2>2. \A d \in Clients : pc[d] # "idle" =>
            /\ possible[d] \subseteq possible'[d]
            /\ answer[d] = None => RightAnswers(spaces, rows, req[d]) \subseteq possible'[d]
      BY <1>0, <1>1, Observed
    <2>3. ASSUME NEW d \in Clients, pc'[d] # "idle", answer'[d] \notin {None, "error", "conflict"},
                 req'[d].op = "deleteNamespace" => answer'[d] # "ok"
          PROVE  Reliable(answer'[d]) \in possible'[d]
      <3>1. CASE d # c
        BY <1>0, <1>1, <2>2, <2>3, <3>1, ActsAlone DEF TruthInv, AnswersAreTruthful
      <3>2. CASE d = c
        <4>1. CASE \E r \in Requests : Submit(c, r)
          BY <1>0, <2>3, <3>2, <4>1 DEF Submit, HandlerType
        <4>2. CASE Handler(c) \/ Receive(c)
          <5>1. req' = req
            BY <4>2 DEF Handler, GetNamespace, CountContents, ReadProperties, SaveProperties,
              GetDestination, Explain, CreateNamespace, DeleteNamespace, Insert, Drop, ReplaceView,
              Rename, Publish, StatementFails, CrashBeforePublish, Receive, local
          <5>2. pc[c] # "idle"
            BY <4>2 DEF Handler, GetNamespace, CountContents, ReadProperties, SaveProperties,
              GetDestination, Explain, CreateNamespace, DeleteNamespace, Insert, Drop, ReplaceView,
              Rename, Publish, StatementFails, CrashBeforePublish, Receive
          <5>3. CASE answer'[c] = answer[c]
            BY <2>2, <2>3, <3>2, <5>1, <5>2, <5>3 DEF TruthInv, AnswersAreTruthful
          <5>4. CASE answer'[c] # answer[c]
            BY <1>1, <2>2, <2>3, <3>2, <5>1, <5>2, <5>4, DecisionIsRight
          <5> QED  BY <5>3, <5>4
        <4> QED  BY <1>1, <4>1, <4>2 DEF Act
      <3> QED  BY <3>1, <3>2
    <2> QED  BY <1>0, <2>1, <2>3 DEF TruthInv, AnswersAreTruthful
  <1>2. CASE UNCHANGED vars
    BY <1>0, <1>2 DEF TruthInv, Undecided, Remembered, AnswersAreTruthful, vars, db, local
  <1> QED  BY <1>1, <1>2 DEF Next, Act

\* What can be relied on in every answer but 500, the 409 of a lock timeout and the
\* 204 of DeleteNamespace was right at some moment between the arrival of the
\* request and the answer; the 404 after a failed query is relied on for the table
\* or view only.
THEOREM TruthfulAnswers == Spec => []AnswersAreTruthful
  <1>1. Init => TruthInv
    BY IndInit DEF Init, TruthInv, Undecided, Remembered, AnswersAreTruthful, Steps
  <1>2. TruthInv => AnswersAreTruthful
    BY DEF TruthInv
  <1> QED  BY <1>1, <1>2, TruthStep, PTL DEF Spec
=============================================================================
