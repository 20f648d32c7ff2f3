-------------------- MODULE TableCommitRefinementProofs --------------------
(***************************************************************************)
(* TableCommit implements AtomicCatalog, for every set of clients, rows    *)
(* and requests.  A COMMIT and the statement of a handler that has only    *)
(* one map to the step in which the request takes effect, a submission to  *)
(* Open, a reply and a crash to Answer; every other step maps to a stutter.*)
(***************************************************************************)
EXTENDS TableCommitRefinement, TableCommitProofs

----------------------------------------------------------------------------
(***************************************************************************)
(* The locks of a transaction protect all of its tables                    *)
(***************************************************************************)

\* CommitTransaction has validated the first n changes of its request.
HasChecked(c, n) ==
    /\ Kind(c) = "txn"
    /\ \/ pc[c] \in {"query", "wait"} /\ n = idx[c] - 1
       \/ pc[c] = "commit" /\ commitErr[c] = "none" /\ ~aborted[c] /\ n = Len(req[c].changes)

\* The client has the lock on a row that meets the change ch.
HasRowFor(c, ch) ==
    \E r \in Rows : /\ lock[r] = c /\ rowName[r] = ch.name
                    /\ RequirementsHold(ch, r, meta[r])

\* A transaction has the locks on all the tables that it has validated, and
\* they still are what it validated.
CheckedStateIsCurrent ==
    \A c \in Clients : \A n \in Nat : HasChecked(c, n) =>
        \A i \in 1..n : HasRowFor(c, req[c].changes[i])

RefinementInv == HistoryInv /\ CheckedStateIsCurrent

\* A row that client d has locked is left alone by what the others write.
LEMMA LockedRowStays ==
    ASSUME IndInv, NEW c \in Clients, NEW d \in Clients, d # c, Writes(c),
           NEW r \in Rows, lock[r] = d, rowName[r] # None
    PROVE  rowName'[r] = rowName[r] /\ meta'[r] = meta[r]
  <1>0. TypeOK /\ r \in born /\ d # None
    BY NullsAssumption DEF IndInv, UnbornRows
  <1>1. CASE Commit(c)
    <2>0. rowName' = rowName
      BY <1>1 DEF Commit
    <2>1. CASE Kind(c) = "commit" /\ commitErr[c] = "none"
      <3>1. /\ lock[target[c]] = c
            /\ \E t \in Stamps : meta' = [meta EXCEPT ![target[c]] = Updated(c, meta[target[c]], t)]
        BY <1>1, <2>1, CommitWrites
      <3> QED  BY <1>0, <2>0, <3>1 DEF TypeOK
    <2>2. CASE ~(Kind(c) = "commit" /\ commitErr[c] = "none")
      BY <1>1, <2>0, <2>2 DEF Commit, Install
    <2> QED  BY <2>1, <2>2
  <1>2. CASE DropTable(c)
    BY <1>0, <1>2 DEF DropTable, LockGranted, TypeOK
  <1>3. CASE RenameTable(c)
    BY <1>0, <1>3 DEF RenameTable, LockGranted, TypeOK
  <1>4. CASE CreateTable(c)
    BY <1>0, <1>4 DEF CreateTable, TypeOK
  <1> QED  BY <1>1, <1>2, <1>3, <1>4 DEF Writes

\* A transaction goes on with what it has checked, and keeps its locks.
KeepsChecked(c, n) == HasChecked(c, n) /\ \A r \in Rows : lock[r] = c => lock'[r] = c

\* Otherwise it is at its first table, or has just checked one more.
LEMMA ChecksAreKept ==
    ASSUME IndInv, [Next]_vars, NEW d \in Clients, NEW n \in Nat, HasChecked(d, n)'
    PROVE  KeepsChecked(d, n) \/ n = 0 \/ AcquireInTx(d)
  <1> USE NullsAssumption DEF KeepsChecked, HasChecked, IndInv, TypeOK, ControlState, Kind, Locking, Goto, Release,
          LockGranted, rowVars, workVars, errVars, clientVars
  <1>1. ASSUME NEW c \in Clients, Submit(c) PROVE KeepsChecked(d, n) \/ n = 0 \/ AcquireInTx(d)
    BY <1>1 DEF Submit
  <1>2. ASSUME NEW c \in Clients, Resubmit(c) PROVE KeepsChecked(d, n) \/ n = 0 \/ AcquireInTx(d)
    BY <1>2 DEF Resubmit
  <1>3. ASSUME NEW c \in Clients, Begin(c) PROVE KeepsChecked(d, n) \/ n = 0 \/ AcquireInTx(d)
    BY <1>3 DEF Begin
  <1>4. ASSUME NEW c \in Clients, Query(c) PROVE KeepsChecked(d, n) \/ n = 0 \/ AcquireInTx(d)
    BY <1>4 DEF Query, RowsNamed
  <1>5. ASSUME NEW c \in Clients, AcquireGone(c) PROVE KeepsChecked(d, n) \/ n = 0 \/ AcquireInTx(d)
    BY <1>5 DEF AcquireGone
  <1>6. ASSUME NEW c \in Clients, AcquireRejected(c) PROVE KeepsChecked(d, n) \/ n = 0 \/ AcquireInTx(d)
    BY <1>6 DEF AcquireRejected
  <1>7. ASSUME NEW c \in Clients, AcquireTable(c) PROVE KeepsChecked(d, n) \/ n = 0 \/ AcquireInTx(d)
    BY <1>7 DEF AcquireTable
  <1>8. ASSUME NEW c \in Clients, AcquireInTx(c) PROVE KeepsChecked(d, n) \/ n = 0 \/ AcquireInTx(d)
    <2>1. CASE c = d
      BY <1>8, <2>1
    <2>2. CASE c # d
      BY <1>8, <2>2 DEF AcquireInTx
    <2> QED  BY <2>1, <2>2
  <1>9. ASSUME NEW c \in Clients, LockTimesOut(c) PROVE KeepsChecked(d, n) \/ n = 0 \/ AcquireInTx(d)
    BY <1>9 DEF LockTimesOut
  <1>10. ASSUME NEW c \in Clients, LockTimesOutInTx(c) PROVE KeepsChecked(d, n) \/ n = 0 \/ AcquireInTx(d)
    BY <1>10 DEF LockTimesOutInTx
  <1>11. ASSUME NEW c \in Clients, RetryElapsed(c) PROVE KeepsChecked(d, n) \/ n = 0 \/ AcquireInTx(d)
    BY <1>11 DEF RetryElapsed
  <1>12. ASSUME NEW c \in Clients, RetryCancelled(c) PROVE KeepsChecked(d, n) \/ n = 0 \/ AcquireInTx(d)
    BY <1>12 DEF RetryCancelled
  <1>13. ASSUME NEW c \in Clients, UpdateRow(c) PROVE KeepsChecked(d, n) \/ n = 0 \/ AcquireInTx(d)
    BY <1>13 DEF UpdateRow
  <1>14. ASSUME NEW c \in Clients, InsertLog(c) PROVE KeepsChecked(d, n) \/ n = 0 \/ AcquireInTx(d)
    BY <1>14 DEF InsertLog
  <1>15. ASSUME NEW c \in Clients, InsertLogFails(c) PROVE KeepsChecked(d, n) \/ n = 0 \/ AcquireInTx(d)
    BY <1>15 DEF InsertLogFails
  <1>16. ASSUME NEW c \in Clients, Commit(c) PROVE KeepsChecked(d, n) \/ n = 0 \/ AcquireInTx(d)
    BY <1>16 DEF Commit, Install
  <1>17. ASSUME NEW c \in Clients, CommitAborted(c) PROVE KeepsChecked(d, n) \/ n = 0 \/ AcquireInTx(d)
    BY <1>17 DEF CommitAborted
  <1>18. ASSUME NEW c \in Clients, CommitFails(c) PROVE KeepsChecked(d, n) \/ n = 0 \/ AcquireInTx(d)
    BY <1>18 DEF CommitFails
  <1>19. ASSUME NEW c \in Clients, StatementFails(c) PROVE KeepsChecked(d, n) \/ n = 0 \/ AcquireInTx(d)
    BY <1>19 DEF StatementFails
  <1>20. ASSUME NEW c \in Clients, StartStatement(c) PROVE KeepsChecked(d, n) \/ n = 0 \/ AcquireInTx(d)
    BY <1>20 DEF StartStatement, RowsNamed
  <1>21. ASSUME NEW c \in Clients, StatementGone(c) PROVE KeepsChecked(d, n) \/ n = 0 \/ AcquireInTx(d)
    BY <1>21 DEF StatementGone
  <1>22. ASSUME NEW c \in Clients, DropTable(c) PROVE KeepsChecked(d, n) \/ n = 0 \/ AcquireInTx(d)
    BY <1>22 DEF DropTable
  <1>23. ASSUME NEW c \in Clients, RenameTable(c) PROVE KeepsChecked(d, n) \/ n = 0 \/ AcquireInTx(d)
    BY <1>23 DEF RenameTable
  <1>24. ASSUME NEW c \in Clients, CreateTable(c) PROVE KeepsChecked(d, n) \/ n = 0 \/ AcquireInTx(d)
    BY <1>24 DEF CreateTable
  <1>25. ASSUME NEW c \in Clients, Reply(c) PROVE KeepsChecked(d, n) \/ n = 0 \/ AcquireInTx(d)
    BY <1>25 DEF Reply
  <1>26. ASSUME NEW c \in Clients, Crash(c) PROVE KeepsChecked(d, n) \/ n = 0 \/ AcquireInTx(d)
    BY <1>26 DEF Crash
  <1>27. CASE UNCHANGED vars
    BY <1>27 DEF vars
  <1> QED
    BY <1>1, <1>2, <1>3, <1>4, <1>5, <1>6, <1>7, <1>8, <1>9, <1>10, <1>11, <1>12,
       <1>13, <1>14, <1>15, <1>16, <1>17, <1>18, <1>19, <1>20, <1>21, <1>22, <1>23, <1>24,
       <1>25, <1>26, <1>27
    DEF Next, Step, Fault

\* What a transaction has checked stays as it is until its COMMIT.
LEMMA CheckedStep == IndInv /\ CheckedStateIsCurrent /\ [Next]_vars => CheckedStateIsCurrent'
  <1> SUFFICES ASSUME IndInv, CheckedStateIsCurrent, [Next]_vars, NEW d \in Clients, NEW n \in Nat,
                      HasChecked(d, n)', NEW i \in 1..n
               PROVE  HasRowFor(d, req[d].changes[i])'
    BY RequestsStay DEF CheckedStateIsCurrent
  <1>0. TypeOK /\ req' = req /\ Kind(d) = "txn" /\ pc'[d] # "reply"
    BY RequestsStay DEF IndInv, HasChecked, Kind
  <1>1. CASE KeepsChecked(d, n)
    <2>1. PICK r \in Rows : /\ lock[r] = d /\ rowName[r] = req[d].changes[i].name
                            /\ RequirementsHold(req[d].changes[i], r, meta[r])
      BY <1>1 DEF KeepsChecked, CheckedStateIsCurrent, HasRowFor
    <2>2. lock'[r] = d
      BY <1>1, <2>1 DEF KeepsChecked
    <2>3. rowName[r] # None
      <3>1. req[d].changes \in Seq(Change) /\ Len(req[d].changes) \in Nat
        BY <1>0, RequestType DEF Request
      <3>2. idx[d] \in Nat /\ idx[d] <= Len(req[d].changes)
        BY <1>0 DEF TypeOK
      <3>3. n = idx[d] - 1 \/ n = Len(req[d].changes)
        BY <1>1 DEF KeepsChecked, HasChecked
      <3>4. i \in 1..Len(req[d].changes)
        BY <3>1, <3>2, <3>3
      <3>5. req[d].changes[i] \in Change
        BY <3>1, <3>4
      <3> QED  BY <2>1, <3>5, NullsAssumption DEF Change
    <2>4. rowName'[r] = rowName[r] /\ meta'[r] = meta[r]
      <3>1. ~Writes(d)
        BY <1>0 DEF Writes, Commit, DropTable, RenameTable, CreateTable, Goto, TypeOK
      <3> QED  BY <2>1, <2>3, <3>1, LockedRowStays, OnlyWritesWrite
    <2> QED  BY <1>0, <2>1, <2>2, <2>4 DEF HasRowFor, RequirementsHold
  <1>2. CASE n = 0
    BY <1>2
  <1>3. CASE AcquireInTx(d)
    <2>0. /\ pc[d] = "wait" /\ target[d] \in Rows /\ UNCHANGED <<rowName, meta>>
          /\ lock' = [lock EXCEPT ![target[d]] = d] /\ rowName[target[d]] = Cur(d).name
          /\ RequirementsHold(Cur(d), target[d], meta[target[d]])
          /\ Cur(d) = req[d].changes[idx[d]]
      BY <1>3 DEF AcquireInTx, StillNamed, Cur, IndInv, ControlState, rowVars
    <2>1. lock'[target[d]] = d /\ \A r \in Rows : lock[r] = d => lock'[r] = d
      BY <1>0, <2>0 DEF TypeOK
    <2>2. idx[d] \in Nat /\ idx[d] >= 1
      BY <1>0 DEF TypeOK
    <2>3. n = idx[d]
      <3>1. \/ pc'[d] = "query" /\ idx'[d] = idx[d] + 1
            \/ pc'[d] = "commit" /\ idx[d] = Len(req[d].changes)
        BY <1>0, <1>3 DEF AcquireInTx, Goto, TypeOK
      <3>2. \/ pc'[d] \in {"query", "wait"} /\ n = idx'[d] - 1
            \/ pc'[d] = "commit" /\ n = Len(req[d].changes)
        BY <1>0 DEF HasChecked
      <3> QED  BY <2>2, <3>1, <3>2
    <2>4. CASE i = idx[d]
      BY <1>0, <2>0, <2>1, <2>4 DEF HasRowFor, RequirementsHold
    <2>5. CASE i # idx[d]
      <3>1. HasChecked(d, idx[d] - 1) /\ idx[d] - 1 \in Nat /\ i \in 1..(idx[d] - 1)
        BY <1>0, <2>0, <2>2, <2>3, <2>5 DEF HasChecked
      <3>2. HasRowFor(d, req[d].changes[i])
        BY <3>1 DEF CheckedStateIsCurrent
      <3> QED  BY <1>0, <2>0, <2>1, <3>2 DEF HasRowFor, RequirementsHold
    <2> QED  BY <2>4, <2>5
  <1> QED  BY <1>1, <1>2, <1>3, ChecksAreKept

\* What a request has checked of its tables is current for as long as it holds
\* their locks: the steps of the refinement rest on it.
LEMMA RefinementInvHolds == Spec => []RefinementInv
  <1>1. Init => CheckedStateIsCurrent
    BY DEF Init, CheckedStateIsCurrent, HasChecked
  <1>2. HistoryInv => IndInv
    BY DEF HistoryInv
  <1> QED  BY <1>1, <1>2, HistoryHolds, CheckedStep, PTL DEF Spec, RefinementInv

----------------------------------------------------------------------------
(***************************************************************************)
(* Every step is a step of AtomicCatalog, or a stutter                     *)
(***************************************************************************)

\* The initial states are initial states of AtomicCatalog.
LEMMA InitRefines == Init => Abstract!Init
  BY DEF Init, Abstract!Init, Phase, NewMetadata, Abstract!Empty

\* A handler that moves from one statement to the next keeps its request open.
LEMMA StaysOpen ==
    ASSUME TypeOK, NEW c \in Clients, NEW l, pc' = [pc EXCEPT ![c] = l],
           pc[c] \notin {"idle", "answered"}, l \notin {"idle", "answered"}
    PROVE  Phase' = Phase /\ Phase[c] = "open"
  BY DEF TypeOK, Phase

\* One that leaves the rows and the history alone meanwhile is not seen.
LEMMA Unseen ==
    ASSUME TypeOK, NEW c \in Clients, NEW l, pc' = [pc EXCEPT ![c] = l],
           pc[c] \notin {"idle", "answered"}, l \notin {"idle", "answered"},
           UNCHANGED <<rowName, born, meta, req, committed, answer>>
    PROVE  UNCHANGED Abstract!vars
  BY StaysOpen DEF Abstract!vars

\* A request of one change is at its first.
LEMMA OneChange ==
    ASSUME TypeOK, NEW c \in Clients, Kind(c) # "txn"
    PROVE  Cur(c) = req[c].changes[1]
  <1>1. Len(req[c].changes) = 1
    BY RequestType, RequestsAssumption DEF Kind
  <1>2. idx[c] \in 1..Len(req[c].changes)
    BY RequestType
  <1>3. idx[c] = 1
    BY <1>1, <1>2
  <1> QED  BY <1>3 DEF Cur

\* What validateRequirement accepts is what AtomicCatalog asks for.
LEMMA RequirementsAreMet ==
    ASSUME NEW ch, NEW r \in Rows, rowName[r] = ch.name, RequirementsHold(ch, r, meta[r])
    PROVE  Abstract!Satisfies(r, ch)
  BY DEF RequirementsHold, Abstract!Satisfies

\* A submission takes effect once, while its request is open.
LEMMA IsPending ==
    ASSUME TypeOK, ControlState, NEW c \in Clients, pc[c] \in {"begin", "stmt", "commit"},
           pc' = [pc EXCEPT ![c] = "reply"], committed' = [committed EXCEPT ![c] = TRUE],
           UNCHANGED <<req, answer>>
    PROVE  Abstract!Pending(c, Kind(c))
  <1>1. pc[c] \notin {"idle", "answered"} /\ "reply" \notin {"idle", "answered"}
    OBVIOUS
  <1>2. Phase' = Phase /\ Phase[c] = "open"
    BY <1>1, StaysOpen
  <1>3. ~committed[c]
    BY DEF ControlState
  <1> QED  BY <1>2, <1>3 DEF Abstract!Pending, Kind

\* COMMIT is where CommitTable and CommitTransaction take effect.
LEMMA CommitRefines ==
    ASSUME RefinementInv, NEW c \in Clients, Commit(c)
    PROVE  Abstract!CommitTakesEffect(c) \/ Abstract!TxnTakesEffect(c) \/ UNCHANGED Abstract!vars
  <1>0. IndInv /\ TypeOK /\ ControlState /\ CheckedStateIsCurrent
    BY DEF RefinementInv, HistoryInv, IndInv
  <1>1. /\ pc[c] = "commit" /\ ~aborted[c] /\ pc' = [pc EXCEPT ![c] = "reply"]
        /\ committed' = [committed EXCEPT ![c] = (commitErr[c] = "none")]
        /\ UNCHANGED <<rowName, born, req, answer>> /\ Kind(c) \in {"commit", "txn"}
        /\ committed[c] = FALSE
    BY <1>0 DEF Commit, Install, Goto, clientVars, ControlState, Locking, TypeOK
  <1>2. CASE commitErr[c] # "none"
    <2>1. committed' = committed /\ meta' = meta
      BY <1>0, <1>1, <1>2 DEF Commit, Install, TypeOK
    <2>2. pc[c] \notin {"idle", "answered"} /\ "reply" \notin {"idle", "answered"}
      BY <1>1
    <2>3. UNCHANGED <<rowName, born, meta, req, committed, answer>>
      BY <1>1, <2>1
    <2> QED  BY <1>0, <1>1, <2>2, <2>3, Unseen
  <1>3. CASE commitErr[c] = "none" /\ Kind(c) = "txn"
    <2>1. Abstract!Pending(c, "txn")
      <3>1. committed' = [committed EXCEPT ![c] = TRUE]
        BY <1>1, <1>3
      <3> QED  BY <1>0, <1>1, <1>3, <3>1, IsPending
    <2>2. meta' = meta
      BY <1>3 DEF Commit, Install
    <2>3. HasChecked(c, Len(req[c].changes)) /\ Len(req[c].changes) \in Nat
      BY <1>0, <1>1, <1>3, RequestType DEF HasChecked
    <2>4. \A i \in 1..Len(req[c].changes) : HasRowFor(c, req[c].changes[i])
      BY <1>0, <2>3 DEF CheckedStateIsCurrent
    <2>5. \A i \in 1..Len(req[c].changes) :
            \E r \in Rows : Abstract!Satisfies(r, req[c].changes[i])
      BY <2>4, RequirementsAreMet DEF HasRowFor
    <2> QED  BY <1>1, <2>1, <2>2, <2>5 DEF Abstract!TxnTakesEffect
  <1>4. CASE commitErr[c] = "none" /\ Kind(c) = "commit"
    <2>1. Abstract!Pending(c, "commit")
      <3>1. committed' = [committed EXCEPT ![c] = TRUE]
        BY <1>1, <1>4
      <3> QED  BY <1>0, <1>1, <1>4, <3>1, IsPending
    <2>2. /\ target[c] \in Rows /\ rowName[target[c]] = Cur(c).name
          /\ RequirementsHold(Cur(c), target[c], meta[target[c]])
          /\ ~UpdateFails(c, meta[target[c]])
      BY <1>0, <1>4, CommitWrites
    <2>t. PICK t \in Stamps : meta' = [meta EXCEPT ![target[c]] = Updated(c, meta[target[c]], t)]
      BY <1>0, <1>4, CommitWrites
    <2>3. Abstract!Satisfies(target[c], req[c].changes[1])
      BY <1>0, <1>4, <2>2, OneChange, RequirementsAreMet
    <2>4. req[c].update \in {"append", "expire", "touch", "invalid"}
      BY <1>0, RequestType DEF Request
    <2> DEFINE m == meta[target[c]]
    <2>5. CASE req[c].update = "append"
      <3>1. c \notin m.snapshots
        BY <2>2, <2>5 DEF UpdateFails
      <3>2. Updated(c, m, t) = Abstract!NextMetadata(target[c], m.snapshots \cup {c}, c, t)
        BY <2>5 DEF Updated, Abstract!NextMetadata
      <3> QED  BY <1>1, <2>1, <2>2, <2>t, <2>3, <2>5, <3>1, <3>2 DEF Abstract!CommitTakesEffect
    <2>6. CASE req[c].update = "touch"
      <3>1. Updated(c, m, t) = Abstract!NextMetadata(target[c], m.snapshots, m.main, t)
        BY <2>6 DEF Updated, Abstract!NextMetadata
      <3> QED  BY <1>1, <2>1, <2>2, <2>t, <2>3, <2>6, <3>1 DEF Abstract!CommitTakesEffect
    <2>8. CASE req[c].update = "expire"
      <3>1. Updated(c, m, t) = Abstract!NextMetadata(target[c], {}, None, t)
        BY <2>8 DEF Updated, Abstract!NextMetadata
      <3> QED  BY <1>1, <2>1, <2>2, <2>t, <2>3, <2>8, <3>1 DEF Abstract!CommitTakesEffect
    <2>7. CASE req[c].update = "invalid"
      BY <2>2, <2>7 DEF UpdateFails
    <2> QED  BY <2>4, <2>5, <2>6, <2>7, <2>8
  <1> QED  BY <1>1, <1>2, <1>3, <1>4

\* DELETE is where DropTable takes effect.
LEMMA DropRefines ==
    ASSUME RefinementInv, NEW c \in Clients, DropTable(c) PROVE Abstract!DropTakesEffect(c)
  <1>0. TypeOK /\ ControlState
    BY DEF RefinementInv, HistoryInv, IndInv
  <1>1. /\ target[c] \in Rows /\ rowName[target[c]] = req[c].changes[1].name
        /\ rowName' = [rowName EXCEPT ![target[c]] = None] /\ UNCHANGED <<born, meta>>
    BY <1>0, OneChange DEF DropTable, ControlState, StillNamed
  <1>2. Abstract!Pending(c, "drop")
    BY <1>0, IsPending DEF DropTable, Goto, clientVars
  <1> QED  BY <1>1, <1>2 DEF Abstract!DropTakesEffect

\* UPDATE is where RenameTable takes effect, unless the new name is taken.
LEMMA RenameRefines ==
    ASSUME RefinementInv, NEW c \in Clients, RenameTable(c)
    PROVE  Abstract!RenameTakesEffect(c) \/ UNCHANGED Abstract!vars
  <1>0. TypeOK /\ ControlState
    BY DEF RefinementInv, HistoryInv, IndInv
  <1>1. /\ target[c] \in Rows /\ rowName[target[c]] = req[c].changes[1].name
        /\ UNCHANGED <<born, meta, req, answer>> /\ Kind(c) = "rename" /\ pc[c] = "stmt"
        /\ pc' = [pc EXCEPT ![c] = "reply"]
    BY <1>0, OneChange DEF RenameTable, ControlState, StillNamed, Goto, clientVars
  <1>2. CASE /\ NameFree(req[c].to, {target[c]})
             /\ rowName' = [rowName EXCEPT ![target[c]] = req[c].to]
             /\ committed' = [committed EXCEPT ![c] = TRUE]
    <2>1. Abstract!Pending(c, "rename")
      BY <1>0, <1>1, <1>2, IsPending
    <2>2. \A s \in Rows \ {target[c]} : rowName[s] # req[c].to
      BY <1>2 DEF NameFree, RowsNamed
    <2> QED  BY <1>1, <1>2, <2>1, <2>2 DEF Abstract!RenameTakesEffect
  <1>3. CASE UNCHANGED <<rowName, committed>>
    BY <1>0, <1>1, <1>3, Unseen, ZenonT(60)
  <1> QED  BY <1>2, <1>3 DEF RenameTable

\* INSERT is where CreateTable takes effect, unless the name is taken.
LEMMA CreateRefines ==
    ASSUME RefinementInv, NEW c \in Clients, CreateTable(c)
    PROVE  Abstract!CreateTakesEffect(c) \/ UNCHANGED Abstract!vars
  <1>0. TypeOK /\ ControlState /\ UnbornRows
    BY DEF RefinementInv, HistoryInv, IndInv
  <1>1. /\ UNCHANGED <<req, answer>> /\ Kind(c) = "create" /\ pc[c] = "begin"
        /\ pc' = [pc EXCEPT ![c] = "reply"] /\ Cur(c) = req[c].changes[1]
    BY <1>0, OneChange DEF CreateTable, Goto, clientVars
  <1>2. ASSUME NameFree(Cur(c).name, {}), committed' = [committed EXCEPT ![c] = TRUE],
               NEW r \in Rows \ born, rowName' = [rowName EXCEPT ![r] = Cur(c).name],
               born' = born \cup {r}, meta' = [meta EXCEPT ![r] = NewMetadata]
        PROVE  Abstract!CreateTakesEffect(c)
    <2>1. Abstract!Pending(c, "create")
      BY <1>0, <1>1, <1>2, IsPending
    <2>2. \A s \in Rows : rowName[s] # req[c].changes[1].name
      BY <1>1, <1>2 DEF NameFree, RowsNamed
    <2>3. meta' = meta
      BY <1>0, <1>2 DEF UnbornRows, TypeOK
    <2> QED  BY <1>1, <1>2, <2>1, <2>2, <2>3 DEF Abstract!CreateTakesEffect
  <1>3. CASE UNCHANGED <<rowName, born, meta, target, committed>>
    <2>1. pc[c] \notin {"idle", "answered"} /\ "reply" \notin {"idle", "answered"}
      BY <1>1
    <2>2. UNCHANGED <<rowName, born, meta, req, committed, answer>>
      BY <1>1, <1>3
    <2> QED  BY <1>0, <1>1, <2>1, <2>2, Unseen
  <1> QED  BY <1>2, <1>3 DEF CreateTable

\* The answer tells the truth about the outcome.
LEMMA ReplyRefines ==
    ASSUME RefinementInv, NEW c \in Clients, Reply(c) PROVE Abstract!Answer(c)
  <1>0. TypeOK /\ OutcomeIsKnown
    BY DEF RefinementInv, HistoryInv, IndInv
  <1>1. /\ pc[c] = "reply" /\ pc' = [pc EXCEPT ![c] = "answered"]
        /\ answer' = [answer EXCEPT ![c] = StatusOf(c)]
        /\ UNCHANGED <<rowName, born, meta, req, committed>>
    BY DEF Reply, Goto, rowVars
  <1>2. Phase[c] = "open" /\ Phase' = [Phase EXCEPT ![c] = "answered"]
    BY <1>0, <1>1 DEF TypeOK, Phase
  <1>3. commitErr[c] \in CommitErrors /\ dbErr[c] \in DbErrors /\ committed[c] \in BOOLEAN
    BY <1>0 DEF TypeOK
  <1>4. /\ dbErr[c] = "none" => (committed[c] <=> commitErr[c] = "none")
        /\ dbErr[c] = "lock_timeout" => ~committed[c]
    BY <1>0, <1>1 DEF OutcomeIsKnown
  <1>5. CASE committed[c]
    <2>1. StatusOf(c) \in {"200", "500", "lost"}
      BY <1>3, <1>4, <1>5 DEF StatusOf, CommitErrors, DbErrors
    <2> QED  BY <1>1, <1>2, <1>5, <2>1 DEF Abstract!Answer
  <1>6. CASE ~committed[c]
    <2>1. StatusOf(c) \in {"400", "404", "409", "500", "lost"}
      BY <1>3, <1>4, <1>6 DEF StatusOf, CommitErrors, DbErrors
    <2> QED  BY <1>1, <1>2, <1>6, <2>1 DEF Abstract!Answer
  <1> QED  BY <1>5, <1>6

\* A crash loses the answer, and says nothing about the outcome.
LEMMA CrashRefines ==
    ASSUME RefinementInv, NEW c \in Clients, Crash(c) PROVE Abstract!Answer(c)
  <1>0. TypeOK
    BY DEF RefinementInv, HistoryInv, IndInv
  <1>1. /\ pc[c] \notin {"idle", "answered"} /\ pc' = [pc EXCEPT ![c] = "answered"]
        /\ answer' = [answer EXCEPT ![c] = "lost"]
        /\ UNCHANGED <<rowName, born, meta, req, committed>>
    BY DEF Crash, Goto, rowVars
  <1>2. Phase[c] = "open" /\ Phase' = [Phase EXCEPT ![c] = "answered"]
    BY <1>0, <1>1 DEF TypeOK, Phase
  <1> QED  BY <1>1, <1>2 DEF Abstract!Answer

\* A submission opens the request, the first time or again.
LEMMA SubmitRefines ==
    ASSUME RefinementInv, NEW c \in Clients, Submit(c) \/ Resubmit(c) PROVE Abstract!Open(c)
  <1>0. TypeOK /\ ControlState
    BY DEF RefinementInv, HistoryInv, IndInv
  <1>1. /\ pc' = [pc EXCEPT ![c] = "begin"] /\ UNCHANGED <<rowName, born, meta, req>>
        /\ \/ pc[c] = "idle"
           \/ pc[c] = "answered" /\ answer[c] \in {"409", "500", "lost"}
    BY DEF Submit, Resubmit, Goto, rowVars
  <1>2. /\ committed' = [committed EXCEPT ![c] = FALSE]
        /\ answer' = [answer EXCEPT ![c] = "none"]
    <2>1. CASE Submit(c)
      <3>1. committed[c] = FALSE /\ answer[c] = "none" /\ UNCHANGED <<committed, answer>>
        BY <1>0, <2>1 DEF Submit, ControlState, TypeOK
      <3> QED  BY <1>0, <3>1 DEF TypeOK
    <2>2. CASE Resubmit(c)
      BY <2>2 DEF Resubmit
    <2> QED  BY <2>1, <2>2
  <1>3. /\ Phase' = [Phase EXCEPT ![c] = "open"]
        /\ pc[c] = "idle" => Phase[c] = "idle"
        /\ pc[c] = "answered" => Phase[c] = "answered"
    BY <1>0, <1>1 DEF TypeOK, Phase
  <1> QED  BY <1>1, <1>2, <1>3 DEF Abstract!Open

\* Every step of a handler, of a client and of the database.
LEMMA StepRefines ==
    ASSUME RefinementInv, [Next]_vars PROVE [Abstract!Next]_(Abstract!vars)
  <1>0. TypeOK
    BY DEF RefinementInv, HistoryInv, IndInv
  <1>1. ASSUME NEW c \in Clients, Submit(c) \/ Resubmit(c) PROVE Abstract!Next
    BY <1>1, SubmitRefines DEF Abstract!Next
  <1>2. ASSUME NEW c \in Clients, Commit(c) PROVE Abstract!Next \/ UNCHANGED Abstract!vars
    BY <1>2, CommitRefines DEF Abstract!Next
  <1>3. ASSUME NEW c \in Clients, DropTable(c) PROVE Abstract!Next
    BY <1>3, DropRefines DEF Abstract!Next
  <1>4. ASSUME NEW c \in Clients, RenameTable(c) PROVE Abstract!Next \/ UNCHANGED Abstract!vars
    BY <1>4, RenameRefines DEF Abstract!Next
  <1>5. ASSUME NEW c \in Clients, CreateTable(c) PROVE Abstract!Next \/ UNCHANGED Abstract!vars
    BY <1>5, CreateRefines DEF Abstract!Next
  <1>6. ASSUME NEW c \in Clients, Reply(c) \/ Crash(c) PROVE Abstract!Next
    BY <1>6, ReplyRefines, CrashRefines DEF Abstract!Next
  <1>7. ASSUME NEW c \in Clients, Begin(c) PROVE UNCHANGED Abstract!vars
    BY <1>0, <1>7, Unseen DEF Begin, Goto, rowVars, clientVars
  <1>8. ASSUME NEW c \in Clients, Query(c) PROVE UNCHANGED Abstract!vars
    BY <1>0, <1>8, Unseen DEF Query, Goto, rowVars, clientVars
  <1>9. ASSUME NEW c \in Clients, AcquireGone(c) PROVE UNCHANGED Abstract!vars
    BY <1>0, <1>9, Unseen DEF AcquireGone, Goto, rowVars, clientVars
  <1>10. ASSUME NEW c \in Clients, AcquireRejected(c) PROVE UNCHANGED Abstract!vars
    BY <1>0, <1>10, Unseen DEF AcquireRejected, Goto, rowVars, clientVars
  <1>11. ASSUME NEW c \in Clients, AcquireTable(c) PROVE UNCHANGED Abstract!vars
    BY <1>0, <1>11, Unseen DEF AcquireTable, Goto, rowVars, clientVars
  <1>12. ASSUME NEW c \in Clients, AcquireInTx(c) PROVE UNCHANGED Abstract!vars
    BY <1>0, <1>12, Unseen, ZenonT(60) DEF AcquireInTx, Goto, rowVars, clientVars
  <1>13. ASSUME NEW c \in Clients, LockTimesOut(c) PROVE UNCHANGED Abstract!vars
    BY <1>0, <1>13, Unseen DEF LockTimesOut, Goto, rowVars, clientVars
  <1>14. ASSUME NEW c \in Clients, LockTimesOutInTx(c) PROVE UNCHANGED Abstract!vars
    BY <1>0, <1>14, Unseen DEF LockTimesOutInTx, Goto, rowVars, clientVars
  <1>15. ASSUME NEW c \in Clients, RetryElapsed(c) PROVE UNCHANGED Abstract!vars
    BY <1>0, <1>15, Unseen DEF RetryElapsed, Goto, rowVars, clientVars
  <1>16. ASSUME NEW c \in Clients, RetryCancelled(c) PROVE UNCHANGED Abstract!vars
    BY <1>0, <1>16, Unseen DEF RetryCancelled, Goto, rowVars, clientVars
  <1>17. ASSUME NEW c \in Clients, UpdateRow(c) PROVE UNCHANGED Abstract!vars
    BY <1>0, <1>17, Unseen DEF UpdateRow, Goto, rowVars, clientVars
  <1>18. ASSUME NEW c \in Clients, InsertLog(c) PROVE UNCHANGED Abstract!vars
    BY <1>0, <1>18, Unseen DEF InsertLog, Goto, rowVars, clientVars
  <1>19. ASSUME NEW c \in Clients, InsertLogFails(c) PROVE UNCHANGED Abstract!vars
    BY <1>0, <1>19, Unseen DEF InsertLogFails, Goto, rowVars, clientVars
  <1>20. ASSUME NEW c \in Clients, CommitAborted(c) PROVE UNCHANGED Abstract!vars
    BY <1>0, <1>20, Unseen DEF CommitAborted, Goto, rowVars, clientVars
  <1>21. ASSUME NEW c \in Clients, CommitFails(c) PROVE UNCHANGED Abstract!vars
    BY <1>0, <1>21, Unseen DEF CommitFails, Goto, rowVars, clientVars
  <1>22. ASSUME NEW c \in Clients, StatementFails(c) PROVE UNCHANGED Abstract!vars
    BY <1>0, <1>22, Unseen DEF StatementFails, Goto, rowVars, clientVars
  <1>23. ASSUME NEW c \in Clients, StartStatement(c) PROVE UNCHANGED Abstract!vars
    BY <1>0, <1>23, Unseen DEF StartStatement, Goto, rowVars, clientVars
  <1>24. ASSUME NEW c \in Clients, StatementGone(c) PROVE UNCHANGED Abstract!vars
    BY <1>0, <1>24, Unseen DEF StatementGone, Goto, rowVars, clientVars
  <1>25. CASE UNCHANGED vars
    BY <1>25 DEF vars, Abstract!vars, Phase
  <1> QED
    BY <1>1, <1>2, <1>3, <1>4, <1>5, <1>6, <1>7, <1>8, <1>9, <1>10, <1>11, <1>12, <1>13,
       <1>14, <1>15, <1>16, <1>17, <1>18, <1>19, <1>20, <1>21, <1>22, <1>23, <1>24, <1>25
    DEF Next, Step, Fault

\* CommitTable, CommitTransaction, DropTable, RenameTable and CreateTable behave
\* as if each of them were one atomic step between its request and its answer,
\* and the answer tells the truth about it: the commit path is linearizable.
THEOREM CommitPathIsAtomic == Spec => ImplementsAtomicCatalog
  BY InitRefines, RefinementInvHolds, StepRefines, PTL
  DEF Spec, ImplementsAtomicCatalog, Abstract!Spec

=============================================================================
