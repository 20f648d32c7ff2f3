--------------------------- MODULE AtomicCatalog ---------------------------
(***************************************************************************)
(* What the commit path of the catalog promises to its clients, without    *)
(* transactions, locks, retries or statements: a request takes effect in   *)
(* one atomic step, at most once per submission, some time between its     *)
(* arrival and its answer, and the answer tells the truth about it.        *)
(*                                                                         *)
(* A commit takes effect only in a state where all its requirements hold,  *)
(* a transaction only in a state where those of all its tables hold.       *)
(***************************************************************************)
EXTENDS Integers, Sequences

CONSTANTS Clients, Names, Rows, InitialName, Requests, Stamps, None, Unchecked

VARIABLES
    rowName,    \* the name of each table that exists
    born,       \* the tables that have existed
    meta,       \* the metadata of each table
    req,        \* the request of each client
    phase,      \* "idle", "open" or "answered"
    effective,  \* whether the current submission has taken effect
    answer      \* the answer to the current submission

vars == <<rowName, born, meta, req, phase, effective, answer>>

Empty == [snapshots |-> {}, main |-> None, location |-> None, commits |-> 0]

Init ==
    /\ rowName = InitialName
    /\ born = {r \in Rows : InitialName[r] # None}
    /\ meta = [r \in Rows |-> Empty]
    /\ req \in [Clients -> Requests]
    /\ phase = [c \in Clients |-> "idle"]
    /\ effective = [c \in Clients |-> FALSE]
    /\ answer = [c \in Clients |-> "none"]

\* Table r exists under the name the change ch asks for, and its uuid and its
\* main ref are those that ch asserts.
Satisfies(r, ch) ==
    /\ rowName[r] = ch.name
    /\ ch.uuid # Unchecked => ch.uuid = r
    /\ ch.main # Unchecked => ch.main = meta[r].main

\* A client sends its request, for the first time or after an answer that did
\* not settle it.
Open(c) ==
    /\ \/ phase[c] = "idle"
       \/ phase[c] = "answered" /\ answer[c] \in {"409", "500", "lost"}
    /\ phase' = [phase EXCEPT ![c] = "open"]
    /\ effective' = [effective EXCEPT ![c] = FALSE]
    /\ answer' = [answer EXCEPT ![c] = "none"]
    /\ UNCHANGED <<rowName, born, meta, req>>

Pending(c, kind) ==
    /\ phase[c] = "open" /\ ~effective[c] /\ req[c].kind = kind
    /\ effective' = [effective EXCEPT ![c] = TRUE]
    /\ UNCHANGED <<req, phase, answer>>

\* One more commit of table r, which leaves it the snapshots ss and the main
\* ref m; its location is whatever the clock says.
NextMetadata(r, ss, m, t) ==
    [snapshots |-> ss, main |-> m, location |-> t, commits |-> meta[r].commits + 1]

CommitTakesEffect(c) ==
    /\ Pending(c, "commit")
    /\ \E r \in Rows, t \in Stamps :
          /\ Satisfies(r, req[c].changes[1])
          /\ \/ /\ req[c].update = "append" /\ c \notin meta[r].snapshots
                /\ meta' = [meta EXCEPT ![r] = NextMetadata(r, @.snapshots \cup {c}, c, t)]
             \/ /\ req[c].update = "expire"
                /\ meta' = [meta EXCEPT ![r] = NextMetadata(r, {}, None, t)]
             \/ /\ req[c].update = "touch"
                /\ meta' = [meta EXCEPT ![r] = NextMetadata(r, @.snapshots, @.main, t)]
    /\ UNCHANGED <<rowName, born>>

\* A transaction checks all of its tables in one state.  It changes none of
\* them: commitTableInTx does not apply the updates.
TxnTakesEffect(c) ==
    /\ Pending(c, "txn")
    /\ \A i \in 1..Len(req[c].changes) : \E r \in Rows : Satisfies(r, req[c].changes[i])
    /\ UNCHANGED <<rowName, born, meta>>

DropTakesEffect(c) ==
    /\ Pending(c, "drop")
    /\ \E r \in Rows : /\ rowName[r] = req[c].changes[1].name
                       /\ rowName' = [rowName EXCEPT ![r] = None]
    /\ UNCHANGED <<born, meta>>

RenameTakesEffect(c) ==
    /\ Pending(c, "rename")
    /\ \E r \in Rows : /\ rowName[r] = req[c].changes[1].name
                       /\ \A s \in Rows \ {r} : rowName[s] # req[c].to
                       /\ rowName' = [rowName EXCEPT ![r] = req[c].to]
    /\ UNCHANGED <<born, meta>>

CreateTakesEffect(c) ==
    /\ Pending(c, "create")
    /\ \A s \in Rows : rowName[s] # req[c].changes[1].name
    /\ \E r \in Rows \ born :
          /\ rowName' = [rowName EXCEPT ![r] = req[c].changes[1].name]
          /\ born' = born \cup {r}
    /\ UNCHANGED meta

\* 200 only if the request took effect, 4xx only if it did not; 500 and the
\* loss of the answer leave it open.
Answer(c) ==
    /\ phase[c] = "open"
    /\ \E a \in (IF effective[c] THEN {"200"} ELSE {"400", "404", "409"}) \cup {"500", "lost"} :
          answer' = [answer EXCEPT ![c] = a]
    /\ phase' = [phase EXCEPT ![c] = "answered"]
    /\ UNCHANGED <<rowName, born, meta, req, effective>>

Next ==
    \E c \in Clients :
        \/ Open(c)
        \/ CommitTakesEffect(c) \/ TxnTakesEffect(c) \/ DropTakesEffect(c)
        \/ RenameTakesEffect(c) \/ CreateTakesEffect(c)
        \/ Answer(c)

Spec == Init /\ [][Next]_vars
=============================================================================
