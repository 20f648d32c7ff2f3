------------------------ MODULE TableCommitProofs --------------------------
(***************************************************************************)
(* Proofs about TableCommit, for every set of clients, names, rows and     *)
(* requests and every retry limit.                                         *)
(***************************************************************************)
EXTENDS TableCommit, TLAPS

\* What a request of the model looks like to the proofs.
LEMMA RequestType ==
    ASSUME TypeOK, NEW c \in Clients
    PROVE  /\ req[c] \in Requests /\ req[c] \in Request
           /\ Len(req[c].changes) \in Nat /\ Len(req[c].changes) >= 1
           /\ idx[c] \in 1..Len(req[c].changes)
           /\ Cur(c) \in Change
  <1>1. req[c] \in Requests /\ req[c] \in Request
    BY RequestsAssumption DEF TypeOK
  <1>2. req[c].changes \in Seq(Change)
    BY <1>1 DEF Request
  <1>3. Len(req[c].changes) \in Nat /\ Len(req[c].changes) >= 1
    BY <1>1, <1>2, RequestsAssumption
  <1>4. idx[c] \in 1..Len(req[c].changes)
    BY <1>3 DEF TypeOK
  <1>5. Cur(c) \in Change
    BY <1>2, <1>4 DEF Cur
  <1> QED  BY <1>1, <1>3, <1>4, <1>5

\* Applying the updates of a request yields metadata.
LEMMA UpdatedType ==
    ASSUME NEW c \in Clients, NEW m \in Metadata, NEW t \in Stamps
    PROVE  Updated(c, m, t) \in Metadata
  BY DEF Updated, Metadata, Snapshots

\* Tables that CreateTable made and idle clients are well typed.
THEOREM TypeInit == Init => TypeOK
  <1> SUFFICES ASSUME Init PROVE TypeOK
    OBVIOUS
  <1>1. \A c \in Clients : Len(req[c].changes) >= 1
    BY RequestsAssumption DEF Init
  <1>2. NewMetadata \in Metadata
    BY DEF NewMetadata, Metadata, Snapshots
  <1> QED
    BY <1>1, <1>2, ConstantsAssumption, InitialNameAssumption
    DEF Init, TypeOK, Labels, CommitErrors, DbErrors, Answers, LogEntries

\* Every step of every handler keeps the types; what a handler reads is a row
\* because ControlState says that it has one.
LEMMA TypeStep == TypeOK /\ ControlState /\ [Next]_vars => TypeOK'
  <1> SUFFICES ASSUME TypeOK /\ ControlState, [Next]_vars PROVE TypeOK'
    OBVIOUS
  <1> USE ConstantsAssumption, NullsAssumption DEF TypeOK, Goto, Release, rowVars, workVars, errVars, clientVars,
      Labels, CommitErrors, DbErrors, Answers
  <1>1. ASSUME NEW c \in Clients, Submit(c) PROVE TypeOK'
    BY <1>1 DEF Submit
  <1>2. ASSUME NEW c \in Clients, Resubmit(c) PROVE TypeOK'
    <2>1. submits' \in [Clients -> 0..MaxSubmits]
      BY <1>2 DEF Resubmit
    <2>2. \A d \in Clients : idx'[d] <= Len(req'[d].changes)
      BY <1>2, RequestType DEF Resubmit
    <2>3. /\ attempt' \in [Clients -> 0..MaxRetries] /\ idx' \in [Clients -> Nat \ {0}]
          /\ target' \in [Clients -> Rows \cup {None}]
      BY <1>2 DEF Resubmit
    <2>4. /\ commitErr' \in [Clients -> CommitErrors] /\ dbErr' \in [Clients -> DbErrors]
          /\ aborted' \in [Clients -> BOOLEAN] /\ answer' \in [Clients -> Answers]
          /\ committed' \in [Clients -> BOOLEAN] /\ pc' \in [Clients -> Labels]
      BY <1>2 DEF Resubmit
    <2>5. UNCHANGED <<rowName, born, meta, commitLog, lock, req, seen>>
      BY <1>2 DEF Resubmit
    <2> QED  BY <2>1, <2>2, <2>3, <2>4, <2>5
  <1>3. ASSUME NEW c \in Clients, Begin(c) PROVE TypeOK'
    BY <1>3, RequestType DEF Begin
  <1>4. ASSUME NEW c \in Clients, Query(c) PROVE TypeOK'
    <2>1. ASSUME NEW r \in Rows, target' = [target EXCEPT ![c] = r], Goto(c, "wait"),
                 UNCHANGED commitErr
          PROVE  TypeOK'
      BY <1>4, <2>1 DEF Query
    <2>2. CASE commitErr' = [commitErr EXCEPT ![c] = "not_found"] /\ Goto(c, "commit")
               /\ UNCHANGED target
      BY <1>4, <2>2 DEF Query
    <2> QED  BY <1>4, <2>1, <2>2 DEF Query, RowsNamed
  <1>5. ASSUME NEW c \in Clients, AcquireGone(c) PROVE TypeOK'
    BY <1>5 DEF AcquireGone
  <1>6. ASSUME NEW c \in Clients, AcquireRejected(c) PROVE TypeOK'
    BY <1>6 DEF AcquireRejected
  <1>7. ASSUME NEW c \in Clients, AcquireTable(c) PROVE TypeOK'
    BY <1>7 DEF AcquireTable, ControlState
  <1>8. ASSUME NEW c \in Clients, AcquireInTx(c) PROVE TypeOK'
    <2>1. Len(req[c].changes) \in Nat
      BY RequestType
    <2>2. lock' \in [Rows -> Clients \cup {None}] /\ pc' \in [Clients -> Labels]
      BY <1>8 DEF AcquireInTx
    <2>3. /\ idx' \in [Clients -> Nat \ {0}]
          /\ \A d \in Clients : idx'[d] <= Len(req[d].changes)
      <3>1. CASE idx[c] < Len(req[c].changes) /\ idx' = [idx EXCEPT ![c] = @ + 1]
        BY <2>1, <3>1
      <3>2. CASE UNCHANGED idx
        BY <3>2
      <3> QED  BY <1>8, <3>1, <3>2 DEF AcquireInTx
    <2> QED  BY <1>8, <2>2, <2>3 DEF AcquireInTx
  <1>9. ASSUME NEW c \in Clients, LockTimesOut(c) PROVE TypeOK'
    <2>1. attempt' \in [Clients -> 0..MaxRetries]
      BY <1>9 DEF LockTimesOut, MayRetry
    <2>2. dbErr' \in [Clients -> DbErrors] /\ pc' \in [Clients -> Labels]
      BY <1>9 DEF LockTimesOut
    <2> QED  BY <1>9, <2>1, <2>2 DEF LockTimesOut
  <1>10. ASSUME NEW c \in Clients, LockTimesOutInTx(c) PROVE TypeOK'
    BY <1>10 DEF LockTimesOutInTx
  <1>11. ASSUME NEW c \in Clients, RetryElapsed(c) PROVE TypeOK'
    BY <1>11 DEF RetryElapsed
  <1>12. ASSUME NEW c \in Clients, RetryCancelled(c) PROVE TypeOK'
    BY <1>12 DEF RetryCancelled
  <1>13. ASSUME NEW c \in Clients, UpdateRow(c) PROVE TypeOK'
    BY <1>13 DEF UpdateRow
  <1>14. ASSUME NEW c \in Clients, InsertLog(c) PROVE TypeOK'
    BY <1>14 DEF InsertLog
  <1>15. ASSUME NEW c \in Clients, InsertLogFails(c) PROVE TypeOK'
    BY <1>15 DEF InsertLogFails
  <1>16. ASSUME NEW c \in Clients, Commit(c) PROVE TypeOK'
    <2>0. PICK t \in Stamps : Install(c, t)
      BY <1>16 DEF Commit
    <2>1. CASE Kind(c) = "commit" /\ commitErr[c] = "none"
      <3>1. target[c] \in Rows /\ seen[c] \in Metadata
        BY <1>16, <2>1 DEF Commit, ControlState, Validated
      <3>2. LogEntry(c, t) \in LogEntries
        BY <3>1 DEF LogEntry, LogEntries, Metadata
      <3>3. Updated(c, seen[c], t) \in Metadata
        BY <3>1, UpdatedType
      <3>4. /\ meta' = [meta EXCEPT ![target[c]] = Updated(c, seen[c], t)]
            /\ commitLog' = commitLog \cup {LogEntry(c, t)}
        BY <2>0, <2>1 DEF Install
      <3>5. meta' \in [Rows -> Metadata] /\ commitLog' \subseteq LogEntries
        BY <3>2, <3>3, <3>4
      <3> QED  BY <1>16, <3>5 DEF Commit, Install
    <2>2. CASE ~(Kind(c) = "commit" /\ commitErr[c] = "none")
      BY <1>16, <2>2 DEF Commit, Install
    <2> QED  BY <2>1, <2>2
  <1>17. ASSUME NEW c \in Clients, CommitAborted(c) PROVE TypeOK'
    BY <1>17 DEF CommitAborted
  <1>18. ASSUME NEW c \in Clients, CommitFails(c) PROVE TypeOK'
    BY <1>18 DEF CommitFails
  <1>19. ASSUME NEW c \in Clients, StatementFails(c) PROVE TypeOK'
    BY <1>19 DEF StatementFails
  <1>20. ASSUME NEW c \in Clients, StartStatement(c) PROVE TypeOK'
    <2>1. ASSUME NEW r \in Rows, target' = [target EXCEPT ![c] = r], Goto(c, "stmt"),
                 UNCHANGED commitErr
          PROVE  TypeOK'
      BY <1>20, <2>1 DEF StartStatement
    <2>2. CASE commitErr' = [commitErr EXCEPT ![c] = "not_found"] /\ Goto(c, "reply")
               /\ UNCHANGED target
      BY <1>20, <2>2 DEF StartStatement
    <2> QED  BY <1>20, <2>1, <2>2 DEF StartStatement, RowsNamed
  <1>21. ASSUME NEW c \in Clients, StatementGone(c) PROVE TypeOK'
    BY <1>21 DEF StatementGone
  <1>22. ASSUME NEW c \in Clients, DropTable(c) PROVE TypeOK'
    BY <1>22 DEF DropTable
  <1>23. ASSUME NEW c \in Clients, RenameTable(c) PROVE TypeOK'
    <2>1. req[c].to \in Names
      BY RequestType DEF Request
    <2>2. rowName' \in [Rows -> Names \cup {None}]
      BY <1>23, <2>1 DEF RenameTable
    <2>3. commitErr' \in [Clients -> CommitErrors] /\ committed' \in [Clients -> BOOLEAN]
      BY <1>23 DEF RenameTable
    <2> QED  BY <1>23, <2>2, <2>3 DEF RenameTable
  <1>24. ASSUME NEW c \in Clients, CreateTable(c) PROVE TypeOK'
    <2>1. Cur(c).name \in Names
      BY RequestType DEF Change
    <2>2. NewMetadata \in Metadata
      BY DEF NewMetadata, Metadata, Snapshots
    <2>3. /\ rowName' \in [Rows -> Names \cup {None}] /\ born' \subseteq Rows
          /\ meta' \in [Rows -> Metadata] /\ target' \in [Clients -> Rows \cup {None}]
      <3>1. CASE UNCHANGED <<rowName, born, meta, target>>
        BY <3>1
      <3>2. ASSUME NEW r \in Rows \ born,
                   rowName' = [rowName EXCEPT ![r] = Cur(c).name], born' = born \cup {r},
                   meta' = [meta EXCEPT ![r] = NewMetadata], target' = [target EXCEPT ![c] = r]
            PROVE  /\ rowName' \in [Rows -> Names \cup {None}] /\ born' \subseteq Rows
                   /\ meta' \in [Rows -> Metadata]
                   /\ target' \in [Clients -> Rows \cup {None}]
        BY <2>1, <2>2, <3>2
      <3> QED  BY <1>24, <3>1, <3>2 DEF CreateTable
    <2>4. commitErr' \in [Clients -> CommitErrors] /\ committed' \in [Clients -> BOOLEAN]
      BY <1>24 DEF CreateTable
    <2> QED  BY <1>24, <2>3, <2>4 DEF CreateTable
  <1>25. ASSUME NEW c \in Clients, Reply(c) PROVE TypeOK'
    BY <1>25 DEF Reply, StatusOf
  <1>26. ASSUME NEW c \in Clients, Crash(c) PROVE TypeOK'
    BY <1>26 DEF Crash
  <1>27. CASE UNCHANGED vars
    BY <1>27 DEF vars
  <1> QED
    BY <1>1, <1>2, <1>3, <1>4, <1>5, <1>6, <1>7, <1>8, <1>9, <1>10, <1>11, <1>12,
       <1>13, <1>14, <1>15, <1>16, <1>17, <1>18, <1>19, <1>20, <1>21, <1>22, <1>23, <1>24,
       <1>25, <1>26, <1>27
    DEF Next, Step, Fault

\* Every step keeps the control state of every handler.
LEMMA ControlStep == TypeOK /\ ControlState /\ [Next]_vars => ControlState'
  <1> SUFFICES ASSUME TypeOK /\ ControlState, [Next]_vars PROVE ControlState'
    OBVIOUS
  <1> USE NullsAssumption DEF TypeOK, ControlState, Validated, Kind, Locking, Goto, Release, rowVars, workVars, errVars, clientVars
  <1>1. ASSUME NEW c \in Clients, Submit(c) PROVE ControlState'
    BY <1>1 DEF Submit
  <1>2. ASSUME NEW c \in Clients, Resubmit(c) PROVE ControlState'
    BY <1>2 DEF Resubmit
  <1>3. ASSUME NEW c \in Clients, Begin(c) PROVE ControlState'
    BY <1>3 DEF Begin
  <1>4. ASSUME NEW c \in Clients, Query(c) PROVE ControlState'
    BY <1>4 DEF Query, RowsNamed
  <1>5. ASSUME NEW c \in Clients, AcquireGone(c) PROVE ControlState'
    BY <1>5 DEF AcquireGone
  <1>6. ASSUME NEW c \in Clients, AcquireRejected(c) PROVE ControlState'
    BY <1>6 DEF AcquireRejected
  <1>7. ASSUME NEW c \in Clients, AcquireTable(c) PROVE ControlState'
    BY <1>7 DEF AcquireTable
  <1>8. ASSUME NEW c \in Clients, AcquireInTx(c) PROVE ControlState'
    BY <1>8, ZenonT(60) DEF AcquireInTx
  <1>9. ASSUME NEW c \in Clients, LockTimesOut(c) PROVE ControlState'
    <2>1. CASE Goto(c, "retry") /\ UNCHANGED dbErr
      BY <1>9, <2>1 DEF LockTimesOut
    <2>2. CASE Goto(c, "reply") /\ dbErr' = [dbErr EXCEPT ![c] = "lock_timeout"]
      BY <1>9, <2>2 DEF LockTimesOut
    <2> QED  BY <1>9, <2>1, <2>2 DEF LockTimesOut
  <1>10. ASSUME NEW c \in Clients, LockTimesOutInTx(c) PROVE ControlState'
    BY <1>10 DEF LockTimesOutInTx
  <1>11. ASSUME NEW c \in Clients, RetryElapsed(c) PROVE ControlState'
    BY <1>11 DEF RetryElapsed
  <1>12. ASSUME NEW c \in Clients, RetryCancelled(c) PROVE ControlState'
    BY <1>12 DEF RetryCancelled
  <1>13. ASSUME NEW c \in Clients, UpdateRow(c) PROVE ControlState'
    BY <1>13 DEF UpdateRow
  <1>14. ASSUME NEW c \in Clients, InsertLog(c) PROVE ControlState'
    BY <1>14 DEF InsertLog
  <1>15. ASSUME NEW c \in Clients, InsertLogFails(c) PROVE ControlState'
    BY <1>15 DEF InsertLogFails
  <1>16. ASSUME NEW c \in Clients, Commit(c) PROVE ControlState'
    BY <1>16 DEF Commit, Install
  <1>17. ASSUME NEW c \in Clients, CommitAborted(c) PROVE ControlState'
    BY <1>17 DEF CommitAborted
  <1>18. ASSUME NEW c \in Clients, CommitFails(c) PROVE ControlState'
    BY <1>18 DEF CommitFails
  <1>19. ASSUME NEW c \in Clients, StatementFails(c) PROVE ControlState'
    BY <1>19 DEF StatementFails
  <1>20. ASSUME NEW c \in Clients, StartStatement(c) PROVE ControlState'
    <2>1. ASSUME NEW r \in Rows, target' = [target EXCEPT ![c] = r], Goto(c, "stmt"),
                 UNCHANGED commitErr
          PROVE  ControlState'
      BY <1>20, <2>1 DEF StartStatement
    <2>2. CASE commitErr' = [commitErr EXCEPT ![c] = "not_found"] /\ Goto(c, "reply")
               /\ UNCHANGED target
      BY <1>20, <2>2 DEF StartStatement
    <2> QED  BY <1>20, <2>1, <2>2 DEF StartStatement, RowsNamed
  <1>21. ASSUME NEW c \in Clients, StatementGone(c) PROVE ControlState'
    BY <1>21 DEF StatementGone
  <1>22. ASSUME NEW c \in Clients, DropTable(c) PROVE ControlState'
    BY <1>22 DEF DropTable
  <1>23. ASSUME NEW c \in Clients, RenameTable(c) PROVE ControlState'
    BY <1>23 DEF RenameTable
  <1>24. ASSUME NEW c \in Clients, CreateTable(c) PROVE ControlState'
    BY <1>24 DEF CreateTable
  <1>25. ASSUME NEW c \in Clients, Reply(c) PROVE ControlState'
    BY <1>25 DEF Reply
  <1>26. ASSUME NEW c \in Clients, Crash(c) PROVE ControlState'
    BY <1>26 DEF Crash
  <1>27. CASE UNCHANGED vars
    BY <1>27 DEF vars
  <1> QED
    BY <1>1, <1>2, <1>3, <1>4, <1>5, <1>6, <1>7, <1>8, <1>9, <1>10, <1>11, <1>12,
       <1>13, <1>14, <1>15, <1>16, <1>17, <1>18, <1>19, <1>20, <1>21, <1>22, <1>23, <1>24,
       <1>25, <1>26, <1>27
    DEF Next, Step, Fault

\* A row that a handler found under a name has been inserted.
LEMMA NamedIsBorn ==
    ASSUME TypeOK, UnbornRows, NEW c \in Clients, NEW r \in Rows, rowName[r] = Cur(c).name
    PROVE  r \in born /\ rowName[r] # None
  <1>1. Cur(c).name \in Names
    BY RequestType DEF Change
  <1> QED  BY <1>1, NullsAssumption DEF UnbornRows

\* Only CreateTable gives a name to a row that was never inserted.
LEMMA UnbornStep == TypeOK /\ ControlState /\ UnbornRows /\ ValidatedStateIsCurrent /\ [Next]_vars => UnbornRows'
  <1> SUFFICES ASSUME TypeOK /\ ControlState /\ UnbornRows /\ ValidatedStateIsCurrent, [Next]_vars PROVE UnbornRows'
    OBVIOUS
  <1> USE NullsAssumption DEF TypeOK, UnbornRows, Goto, Release, rowVars, workVars, errVars, clientVars
  <1>1. ASSUME NEW c \in Clients, Submit(c) PROVE UnbornRows'
    BY <1>1 DEF Submit
  <1>2. ASSUME NEW c \in Clients, Resubmit(c) PROVE UnbornRows'
    BY <1>2 DEF Resubmit
  <1>3. ASSUME NEW c \in Clients, Begin(c) PROVE UnbornRows'
    BY <1>3 DEF Begin
  <1>4. ASSUME NEW c \in Clients, Query(c) PROVE UnbornRows'
    BY <1>4 DEF Query, RowsNamed
  <1>5. ASSUME NEW c \in Clients, AcquireGone(c) PROVE UnbornRows'
    BY <1>5 DEF AcquireGone
  <1>6. ASSUME NEW c \in Clients, AcquireRejected(c) PROVE UnbornRows'
    BY <1>6 DEF AcquireRejected
  <1>7. ASSUME NEW c \in Clients, AcquireTable(c) PROVE UnbornRows'
    BY <1>7 DEF AcquireTable
  <1>8. ASSUME NEW c \in Clients, AcquireInTx(c) PROVE UnbornRows'
    BY <1>8 DEF AcquireInTx
  <1>9. ASSUME NEW c \in Clients, LockTimesOut(c) PROVE UnbornRows'
    BY <1>9 DEF LockTimesOut, MayRetry
  <1>10. ASSUME NEW c \in Clients, LockTimesOutInTx(c) PROVE UnbornRows'
    BY <1>10 DEF LockTimesOutInTx
  <1>11. ASSUME NEW c \in Clients, RetryElapsed(c) PROVE UnbornRows'
    BY <1>11 DEF RetryElapsed
  <1>12. ASSUME NEW c \in Clients, RetryCancelled(c) PROVE UnbornRows'
    BY <1>12 DEF RetryCancelled
  <1>13. ASSUME NEW c \in Clients, UpdateRow(c) PROVE UnbornRows'
    BY <1>13 DEF UpdateRow
  <1>14. ASSUME NEW c \in Clients, InsertLog(c) PROVE UnbornRows'
    BY <1>14 DEF InsertLog
  <1>15. ASSUME NEW c \in Clients, InsertLogFails(c) PROVE UnbornRows'
    BY <1>15 DEF InsertLogFails
  <1>16. ASSUME NEW c \in Clients, Commit(c) PROVE UnbornRows'
    <2>1. CASE Kind(c) = "commit" /\ commitErr[c] = "none"
      <3>1. target[c] \in Rows /\ rowName[target[c]] = Cur(c).name
        BY <1>16, <2>1 DEF Commit, ControlState, ValidatedStateIsCurrent, Validated
      <3>2. target[c] \in born
        BY <3>1, NamedIsBorn
      <3> QED  BY <1>16, <2>1, <3>1, <3>2 DEF Commit, Install
    <2>2. CASE ~(Kind(c) = "commit" /\ commitErr[c] = "none")
      BY <1>16, <2>2 DEF Commit, Install
    <2> QED  BY <2>1, <2>2
  <1>17. ASSUME NEW c \in Clients, CommitAborted(c) PROVE UnbornRows'
    BY <1>17 DEF CommitAborted
  <1>18. ASSUME NEW c \in Clients, CommitFails(c) PROVE UnbornRows'
    BY <1>18 DEF CommitFails
  <1>19. ASSUME NEW c \in Clients, StatementFails(c) PROVE UnbornRows'
    BY <1>19 DEF StatementFails
  <1>20. ASSUME NEW c \in Clients, StartStatement(c) PROVE UnbornRows'
    BY <1>20 DEF StartStatement, RowsNamed
  <1>21. ASSUME NEW c \in Clients, StatementGone(c) PROVE UnbornRows'
    BY <1>21 DEF StatementGone
  <1>22. ASSUME NEW c \in Clients, DropTable(c) PROVE UnbornRows'
    BY <1>22 DEF DropTable
  <1>23. ASSUME NEW c \in Clients, RenameTable(c) PROVE UnbornRows'
    <2>1. target[c] \in born
      BY <1>23, NamedIsBorn DEF RenameTable, StillNamed, ControlState
    <2> QED  BY <1>23, <2>1 DEF RenameTable
  <1>24. ASSUME NEW c \in Clients, CreateTable(c) PROVE UnbornRows'
    BY <1>24 DEF CreateTable
  <1>25. ASSUME NEW c \in Clients, Reply(c) PROVE UnbornRows'
    BY <1>25 DEF Reply, StatusOf
  <1>26. ASSUME NEW c \in Clients, Crash(c) PROVE UnbornRows'
    BY <1>26 DEF Crash
  <1>27. CASE UNCHANGED vars
    BY <1>27 DEF vars
  <1> QED
    BY <1>1, <1>2, <1>3, <1>4, <1>5, <1>6, <1>7, <1>8, <1>9, <1>10, <1>11, <1>12,
       <1>13, <1>14, <1>15, <1>16, <1>17, <1>18, <1>19, <1>20, <1>21, <1>22, <1>23, <1>24,
       <1>25, <1>26, <1>27
    DEF Next, Step, Fault

\* CreateTable and RenameTable take a name only if it is free.
LEMMA NamesStep == TypeOK /\ ControlState /\ NamesAreUnique /\ [Next]_vars => NamesAreUnique'
  <1> SUFFICES ASSUME TypeOK /\ ControlState /\ NamesAreUnique, [Next]_vars PROVE NamesAreUnique'
    OBVIOUS
  <1> USE NullsAssumption DEF TypeOK, NamesAreUnique, Goto, Release, rowVars, workVars, errVars, clientVars
  <1>1. ASSUME NEW c \in Clients, Submit(c) PROVE NamesAreUnique'
    BY <1>1 DEF Submit
  <1>2. ASSUME NEW c \in Clients, Resubmit(c) PROVE NamesAreUnique'
    BY <1>2 DEF Resubmit
  <1>3. ASSUME NEW c \in Clients, Begin(c) PROVE NamesAreUnique'
    BY <1>3 DEF Begin
  <1>4. ASSUME NEW c \in Clients, Query(c) PROVE NamesAreUnique'
    BY <1>4 DEF Query, RowsNamed
  <1>5. ASSUME NEW c \in Clients, AcquireGone(c) PROVE NamesAreUnique'
    BY <1>5 DEF AcquireGone
  <1>6. ASSUME NEW c \in Clients, AcquireRejected(c) PROVE NamesAreUnique'
    BY <1>6 DEF AcquireRejected
  <1>7. ASSUME NEW c \in Clients, AcquireTable(c) PROVE NamesAreUnique'
    BY <1>7 DEF AcquireTable
  <1>8. ASSUME NEW c \in Clients, AcquireInTx(c) PROVE NamesAreUnique'
    BY <1>8 DEF AcquireInTx
  <1>9. ASSUME NEW c \in Clients, LockTimesOut(c) PROVE NamesAreUnique'
    BY <1>9 DEF LockTimesOut, MayRetry
  <1>10. ASSUME NEW c \in Clients, LockTimesOutInTx(c) PROVE NamesAreUnique'
    BY <1>10 DEF LockTimesOutInTx
  <1>11. ASSUME NEW c \in Clients, RetryElapsed(c) PROVE NamesAreUnique'
    BY <1>11 DEF RetryElapsed
  <1>12. ASSUME NEW c \in Clients, RetryCancelled(c) PROVE NamesAreUnique'
    BY <1>12 DEF RetryCancelled
  <1>13. ASSUME NEW c \in Clients, UpdateRow(c) PROVE NamesAreUnique'
    BY <1>13 DEF UpdateRow
  <1>14. ASSUME NEW c \in Clients, InsertLog(c) PROVE NamesAreUnique'
    BY <1>14 DEF InsertLog
  <1>15. ASSUME NEW c \in Clients, InsertLogFails(c) PROVE NamesAreUnique'
    BY <1>15 DEF InsertLogFails
  <1>16. ASSUME NEW c \in Clients, Commit(c) PROVE NamesAreUnique'
    BY <1>16 DEF Commit, Install
  <1>17. ASSUME NEW c \in Clients, CommitAborted(c) PROVE NamesAreUnique'
    BY <1>17 DEF CommitAborted
  <1>18. ASSUME NEW c \in Clients, CommitFails(c) PROVE NamesAreUnique'
    BY <1>18 DEF CommitFails
  <1>19. ASSUME NEW c \in Clients, StatementFails(c) PROVE NamesAreUnique'
    BY <1>19 DEF StatementFails
  <1>20. ASSUME NEW c \in Clients, StartStatement(c) PROVE NamesAreUnique'
    BY <1>20 DEF StartStatement, RowsNamed
  <1>21. ASSUME NEW c \in Clients, StatementGone(c) PROVE NamesAreUnique'
    BY <1>21 DEF StatementGone
  <1>22. ASSUME NEW c \in Clients, DropTable(c) PROVE NamesAreUnique'
    BY <1>22 DEF DropTable
  <1>23. ASSUME NEW c \in Clients, RenameTable(c) PROVE NamesAreUnique'
    BY <1>23, SMTT(30) DEF RenameTable, NameFree, RowsNamed
  <1>24. ASSUME NEW c \in Clients, CreateTable(c) PROVE NamesAreUnique'
    <2>1. CASE UNCHANGED rowName
      BY <2>1
    <2>2. ASSUME NEW r \in Rows \ born, rowName' = [rowName EXCEPT ![r] = Cur(c).name],
                 NameFree(Cur(c).name, {})
          PROVE  NamesAreUnique'
      <3>1. \A s \in Rows : rowName[s] # Cur(c).name
        BY <2>2 DEF NameFree, RowsNamed
      <3> QED  BY <2>2, <3>1
    <2> QED  BY <1>24, <2>1, <2>2 DEF CreateTable
  <1>25. ASSUME NEW c \in Clients, Reply(c) PROVE NamesAreUnique'
    BY <1>25 DEF Reply, StatusOf
  <1>26. ASSUME NEW c \in Clients, Crash(c) PROVE NamesAreUnique'
    BY <1>26 DEF Crash
  <1>27. CASE UNCHANGED vars
    BY <1>27 DEF vars
  <1> QED
    BY <1>1, <1>2, <1>3, <1>4, <1>5, <1>6, <1>7, <1>8, <1>9, <1>10, <1>11, <1>12,
       <1>13, <1>14, <1>15, <1>16, <1>17, <1>18, <1>19, <1>20, <1>21, <1>22, <1>23, <1>24,
       <1>25, <1>26, <1>27
    DEF Next, Step, Fault

\* A lock is taken inside a transaction, and given back when it ends.
LEMMA LocksStep == TypeOK /\ ControlState /\ NoLeakedLocks /\ [Next]_vars => NoLeakedLocks'
  <1> SUFFICES ASSUME TypeOK /\ ControlState /\ NoLeakedLocks, [Next]_vars PROVE NoLeakedLocks'
    OBVIOUS
  <1> USE NullsAssumption DEF TypeOK, ControlState, NoLeakedLocks, Goto, Release, rowVars, workVars, errVars, clientVars
  <1>1. ASSUME NEW c \in Clients, Submit(c) PROVE NoLeakedLocks'
    BY <1>1 DEF Submit
  <1>2. ASSUME NEW c \in Clients, Resubmit(c) PROVE NoLeakedLocks'
    BY <1>2 DEF Resubmit
  <1>3. ASSUME NEW c \in Clients, Begin(c) PROVE NoLeakedLocks'
    BY <1>3 DEF Begin
  <1>4. ASSUME NEW c \in Clients, Query(c) PROVE NoLeakedLocks'
    <2>1. ASSUME NEW r \in Rows, target' = [target EXCEPT ![c] = r], Goto(c, "wait"),
                 UNCHANGED commitErr
          PROVE  NoLeakedLocks'
      BY <1>4, <2>1 DEF Query
    <2>2. CASE commitErr' = [commitErr EXCEPT ![c] = "not_found"] /\ Goto(c, "commit")
               /\ UNCHANGED target
      BY <1>4, <2>2 DEF Query
    <2> QED  BY <1>4, <2>1, <2>2 DEF Query, RowsNamed
  <1>5. ASSUME NEW c \in Clients, AcquireGone(c) PROVE NoLeakedLocks'
    BY <1>5, ZenonT(60) DEF AcquireGone
  <1>6. ASSUME NEW c \in Clients, AcquireRejected(c) PROVE NoLeakedLocks'
    BY <1>6, ZenonT(60) DEF AcquireRejected
  <1>7. ASSUME NEW c \in Clients, AcquireTable(c) PROVE NoLeakedLocks'
    BY <1>7, ZenonT(60) DEF AcquireTable
  <1>8. ASSUME NEW c \in Clients, AcquireInTx(c) PROVE NoLeakedLocks'
    <2>1. lock' = [lock EXCEPT ![target[c]] = c] /\ UNCHANGED aborted /\ ~aborted[c]
      BY <1>8 DEF AcquireInTx
    <2>2. CASE pc' = [pc EXCEPT ![c] = "query"]
      BY <2>1, <2>2
    <2>3. CASE pc' = [pc EXCEPT ![c] = "commit"]
      BY <2>1, <2>3
    <2> QED  BY <1>8, <2>2, <2>3 DEF AcquireInTx
  <1>9. ASSUME NEW c \in Clients, LockTimesOut(c) PROVE NoLeakedLocks'
    BY <1>9 DEF LockTimesOut
  <1>10. ASSUME NEW c \in Clients, LockTimesOutInTx(c) PROVE NoLeakedLocks'
    BY <1>10 DEF LockTimesOutInTx
  <1>11. ASSUME NEW c \in Clients, RetryElapsed(c) PROVE NoLeakedLocks'
    BY <1>11 DEF RetryElapsed
  <1>12. ASSUME NEW c \in Clients, RetryCancelled(c) PROVE NoLeakedLocks'
    BY <1>12 DEF RetryCancelled
  <1>13. ASSUME NEW c \in Clients, UpdateRow(c) PROVE NoLeakedLocks'
    BY <1>13 DEF UpdateRow
  <1>14. ASSUME NEW c \in Clients, InsertLog(c) PROVE NoLeakedLocks'
    BY <1>14 DEF InsertLog
  <1>15. ASSUME NEW c \in Clients, InsertLogFails(c) PROVE NoLeakedLocks'
    BY <1>15 DEF InsertLogFails
  <1>16. ASSUME NEW c \in Clients, Commit(c) PROVE NoLeakedLocks'
    BY <1>16 DEF Commit, Install
  <1>17. ASSUME NEW c \in Clients, CommitAborted(c) PROVE NoLeakedLocks'
    BY <1>17 DEF CommitAborted
  <1>18. ASSUME NEW c \in Clients, CommitFails(c) PROVE NoLeakedLocks'
    BY <1>18 DEF CommitFails
  <1>19. ASSUME NEW c \in Clients, StatementFails(c) PROVE NoLeakedLocks'
    BY <1>19 DEF StatementFails
  <1>20. ASSUME NEW c \in Clients, StartStatement(c) PROVE NoLeakedLocks'
    <2>1. ASSUME NEW r \in Rows, target' = [target EXCEPT ![c] = r], Goto(c, "stmt"),
                 UNCHANGED commitErr
          PROVE  NoLeakedLocks'
      BY <1>20, <2>1 DEF StartStatement
    <2>2. CASE commitErr' = [commitErr EXCEPT ![c] = "not_found"] /\ Goto(c, "reply")
               /\ UNCHANGED target
      BY <1>20, <2>2 DEF StartStatement
    <2> QED  BY <1>20, <2>1, <2>2 DEF StartStatement, RowsNamed
  <1>21. ASSUME NEW c \in Clients, StatementGone(c) PROVE NoLeakedLocks'
    BY <1>21 DEF StatementGone
  <1>22. ASSUME NEW c \in Clients, DropTable(c) PROVE NoLeakedLocks'
    BY <1>22 DEF DropTable
  <1>23. ASSUME NEW c \in Clients, RenameTable(c) PROVE NoLeakedLocks'
    BY <1>23 DEF RenameTable
  <1>24. ASSUME NEW c \in Clients, CreateTable(c) PROVE NoLeakedLocks'
    BY <1>24 DEF CreateTable
  <1>25. ASSUME NEW c \in Clients, Reply(c) PROVE NoLeakedLocks'
    BY <1>25 DEF Reply
  <1>26. ASSUME NEW c \in Clients, Crash(c) PROVE NoLeakedLocks'
    BY <1>26 DEF Crash
  <1>27. CASE UNCHANGED vars
    BY <1>27 DEF vars
  <1> QED
    BY <1>1, <1>2, <1>3, <1>4, <1>5, <1>6, <1>7, <1>8, <1>9, <1>10, <1>11, <1>12,
       <1>13, <1>14, <1>15, <1>16, <1>17, <1>18, <1>19, <1>20, <1>21, <1>22, <1>23, <1>24,
       <1>25, <1>26, <1>27
    DEF Next, Step, Fault

\* DropTable takes the log of its table along, and CommitTable logs a live table.
LEMMA LogStep == IndInv /\ [Next]_vars => LogOfLiveRows'
  <1> SUFFICES ASSUME IndInv, [Next]_vars PROVE LogOfLiveRows'
    OBVIOUS
  <1> USE NullsAssumption DEF IndInv, TypeOK, LogOfLiveRows, LogEntries, Goto, Release, rowVars, workVars, errVars, clientVars
  <1>1. ASSUME NEW c \in Clients, Submit(c) PROVE LogOfLiveRows'
    BY <1>1 DEF Submit
  <1>2. ASSUME NEW c \in Clients, Resubmit(c) PROVE LogOfLiveRows'
    BY <1>2 DEF Resubmit
  <1>3. ASSUME NEW c \in Clients, Begin(c) PROVE LogOfLiveRows'
    BY <1>3 DEF Begin
  <1>4. ASSUME NEW c \in Clients, Query(c) PROVE LogOfLiveRows'
    BY <1>4 DEF Query, RowsNamed
  <1>5. ASSUME NEW c \in Clients, AcquireGone(c) PROVE LogOfLiveRows'
    BY <1>5 DEF AcquireGone
  <1>6. ASSUME NEW c \in Clients, AcquireRejected(c) PROVE LogOfLiveRows'
    BY <1>6 DEF AcquireRejected
  <1>7. ASSUME NEW c \in Clients, AcquireTable(c) PROVE LogOfLiveRows'
    BY <1>7 DEF AcquireTable
  <1>8. ASSUME NEW c \in Clients, AcquireInTx(c) PROVE LogOfLiveRows'
    BY <1>8 DEF AcquireInTx
  <1>9. ASSUME NEW c \in Clients, LockTimesOut(c) PROVE LogOfLiveRows'
    BY <1>9 DEF LockTimesOut, MayRetry
  <1>10. ASSUME NEW c \in Clients, LockTimesOutInTx(c) PROVE LogOfLiveRows'
    BY <1>10 DEF LockTimesOutInTx
  <1>11. ASSUME NEW c \in Clients, RetryElapsed(c) PROVE LogOfLiveRows'
    BY <1>11 DEF RetryElapsed
  <1>12. ASSUME NEW c \in Clients, RetryCancelled(c) PROVE LogOfLiveRows'
    BY <1>12 DEF RetryCancelled
  <1>13. ASSUME NEW c \in Clients, UpdateRow(c) PROVE LogOfLiveRows'
    BY <1>13 DEF UpdateRow
  <1>14. ASSUME NEW c \in Clients, InsertLog(c) PROVE LogOfLiveRows'
    BY <1>14 DEF InsertLog
  <1>15. ASSUME NEW c \in Clients, InsertLogFails(c) PROVE LogOfLiveRows'
    BY <1>15 DEF InsertLogFails
  <1>16. ASSUME NEW c \in Clients, Commit(c) PROVE LogOfLiveRows'
    <2>1. CASE Kind(c) = "commit" /\ commitErr[c] = "none"
      <3>1. Validated(c)
        BY <1>16, <2>1 DEF Commit, Validated
      <3>2. target[c] \in Rows /\ rowName[target[c]] = Cur(c).name
        BY <3>1 DEF ControlState, ValidatedStateIsCurrent
      <3>3. rowName[target[c]] # None
        BY <3>2, NamedIsBorn
      <3> QED  BY <1>16, <2>1, <3>2, <3>3 DEF Commit, Install, LogEntry
    <2>2. CASE ~(Kind(c) = "commit" /\ commitErr[c] = "none")
      BY <1>16, <2>2 DEF Commit, Install
    <2> QED  BY <2>1, <2>2
  <1>17. ASSUME NEW c \in Clients, CommitAborted(c) PROVE LogOfLiveRows'
    BY <1>17 DEF CommitAborted
  <1>18. ASSUME NEW c \in Clients, CommitFails(c) PROVE LogOfLiveRows'
    BY <1>18 DEF CommitFails
  <1>19. ASSUME NEW c \in Clients, StatementFails(c) PROVE LogOfLiveRows'
    BY <1>19 DEF StatementFails
  <1>20. ASSUME NEW c \in Clients, StartStatement(c) PROVE LogOfLiveRows'
    BY <1>20 DEF StartStatement, RowsNamed
  <1>21. ASSUME NEW c \in Clients, StatementGone(c) PROVE LogOfLiveRows'
    BY <1>21 DEF StatementGone
  <1>22. ASSUME NEW c \in Clients, DropTable(c) PROVE LogOfLiveRows'
    BY <1>22 DEF DropTable
  <1>23. ASSUME NEW c \in Clients, RenameTable(c) PROVE LogOfLiveRows'
    <2>1. req[c].to # None
      BY RequestType DEF Request
    <2> QED  BY <1>23, <2>1 DEF RenameTable
  <1>24. ASSUME NEW c \in Clients, CreateTable(c) PROVE LogOfLiveRows'
    <2>1. Cur(c).name # None
      BY RequestType, SMTT(30) DEF Change
    <2> QED  BY <1>24, <2>1 DEF CreateTable
  <1>25. ASSUME NEW c \in Clients, Reply(c) PROVE LogOfLiveRows'
    BY <1>25 DEF Reply
  <1>26. ASSUME NEW c \in Clients, Crash(c) PROVE LogOfLiveRows'
    BY <1>26 DEF Crash
  <1>27. CASE UNCHANGED vars
    BY <1>27 DEF vars
  <1> QED
    BY <1>1, <1>2, <1>3, <1>4, <1>5, <1>6, <1>7, <1>8, <1>9, <1>10, <1>11, <1>12,
       <1>13, <1>14, <1>15, <1>16, <1>17, <1>18, <1>19, <1>20, <1>21, <1>22, <1>23, <1>24,
       <1>25, <1>26, <1>27
    DEF Next, Step, Fault

----------------------------------------------------------------------------
(***************************************************************************)
(* The row lock protects what CommitTable has validated.                   *)
(***************************************************************************)

\* A step leaves the row that client d has validated, and what d knows of it.
Undisturbed(d) ==
    /\ Validated(d)
    /\ target'[d] = target[d] /\ seen'[d] = seen[d] /\ idx'[d] = idx[d] /\ req' = req
    /\ lock'[target[d]] = lock[target[d]]
    /\ meta'[target[d]] = meta[target[d]]
    /\ rowName'[target[d]] = rowName[target[d]]

\* AcquireTable is the step by which a client comes to have validated its row.
\* Every other step of any client leaves what is validated after it undisturbed.
LEMMA RowLockProtects ==
    ASSUME IndInv, [Next]_vars, NEW d \in Clients, Validated(d)', ~AcquireTable(d)
    PROVE  Undisturbed(d)
  <1> USE NullsAssumption DEF Undisturbed, Validated, IndInv, TypeOK, ControlState, Kind, Locking,
          Goto, Release, rowVars, workVars, errVars, clientVars
  <1>0. Validated(d) => target[d] \in Rows /\ lock[target[d]] = d
    BY DEF ValidatedStateIsCurrent
  <1>1. ASSUME NEW c \in Clients, Submit(c) PROVE Undisturbed(d)
    BY <1>0, <1>1 DEF Submit
  <1>2. ASSUME NEW c \in Clients, Resubmit(c) PROVE Undisturbed(d)
    BY <1>0, <1>2 DEF Resubmit
  <1>3. ASSUME NEW c \in Clients, Begin(c) PROVE Undisturbed(d)
    BY <1>0, <1>3 DEF Begin
  <1>4. ASSUME NEW c \in Clients, Query(c) PROVE Undisturbed(d)
    BY <1>0, <1>4 DEF Query, RowsNamed
  <1>5. ASSUME NEW c \in Clients, AcquireGone(c) PROVE Undisturbed(d)
    BY <1>0, <1>5 DEF AcquireGone, LockGranted
  <1>6. ASSUME NEW c \in Clients, AcquireRejected(c) PROVE Undisturbed(d)
    BY <1>0, <1>6 DEF AcquireRejected, LockGranted
  <1>7. ASSUME NEW c \in Clients, AcquireTable(c) PROVE Undisturbed(d)
    <2>1. c # d
      BY <1>7
    <2> QED  BY <1>0, <1>7, <2>1 DEF AcquireTable, LockGranted
  <1>8. ASSUME NEW c \in Clients, AcquireInTx(c) PROVE Undisturbed(d)
    BY <1>0, <1>8 DEF AcquireInTx, LockGranted
  <1>9. ASSUME NEW c \in Clients, LockTimesOut(c) PROVE Undisturbed(d)
    BY <1>0, <1>9 DEF LockTimesOut
  <1>10. ASSUME NEW c \in Clients, LockTimesOutInTx(c) PROVE Undisturbed(d)
    BY <1>0, <1>10 DEF LockTimesOutInTx
  <1>11. ASSUME NEW c \in Clients, RetryElapsed(c) PROVE Undisturbed(d)
    BY <1>0, <1>11 DEF RetryElapsed
  <1>12. ASSUME NEW c \in Clients, RetryCancelled(c) PROVE Undisturbed(d)
    BY <1>0, <1>12 DEF RetryCancelled
  <1>13. ASSUME NEW c \in Clients, UpdateRow(c) PROVE Undisturbed(d)
    BY <1>0, <1>13 DEF UpdateRow
  <1>14. ASSUME NEW c \in Clients, InsertLog(c) PROVE Undisturbed(d)
    BY <1>0, <1>14 DEF InsertLog
  <1>15. ASSUME NEW c \in Clients, InsertLogFails(c) PROVE Undisturbed(d)
    BY <1>0, <1>15 DEF InsertLogFails
  <1>16. ASSUME NEW c \in Clients, Commit(c) PROVE Undisturbed(d)
    <2>1. CASE Kind(c) = "commit" /\ commitErr[c] = "none"
      <3>1. target[c] \in Rows /\ lock[target[c]] = c
        BY <1>16, <2>1 DEF Commit, ValidatedStateIsCurrent
      <3> QED  BY <1>0, <1>16, <2>1, <3>1 DEF Commit, Install
    <2>2. CASE ~(Kind(c) = "commit" /\ commitErr[c] = "none")
      BY <1>0, <1>16, <2>2 DEF Commit, Install
    <2> QED  BY <2>1, <2>2
  <1>17. ASSUME NEW c \in Clients, CommitAborted(c) PROVE Undisturbed(d)
    BY <1>0, <1>17 DEF CommitAborted
  <1>18. ASSUME NEW c \in Clients, CommitFails(c) PROVE Undisturbed(d)
    BY <1>0, <1>18 DEF CommitFails
  <1>19. ASSUME NEW c \in Clients, StatementFails(c) PROVE Undisturbed(d)
    BY <1>0, <1>19 DEF StatementFails
  <1>20. ASSUME NEW c \in Clients, StartStatement(c) PROVE Undisturbed(d)
    BY <1>0, <1>20 DEF StartStatement, RowsNamed
  <1>21. ASSUME NEW c \in Clients, StatementGone(c) PROVE Undisturbed(d)
    BY <1>0, <1>21 DEF StatementGone
  <1>22. ASSUME NEW c \in Clients, DropTable(c) PROVE Undisturbed(d)
    BY <1>0, <1>22 DEF DropTable, LockGranted
  <1>23. ASSUME NEW c \in Clients, RenameTable(c) PROVE Undisturbed(d)
    BY <1>0, <1>23 DEF RenameTable, LockGranted
  <1>24. ASSUME NEW c \in Clients, CreateTable(c) PROVE Undisturbed(d)
    <2>1. Validated(d) => target[d] \in born
      BY <1>0, NamedIsBorn, ZenonT(60) DEF ValidatedStateIsCurrent
    <2> QED  BY <1>0, <1>24, <2>1 DEF CreateTable
  <1>25. ASSUME NEW c \in Clients, Reply(c) PROVE Undisturbed(d)
    BY <1>0, <1>25 DEF Reply
  <1>26. ASSUME NEW c \in Clients, Crash(c) PROVE Undisturbed(d)
    BY <1>0, <1>26 DEF Crash
  <1>27. CASE UNCHANGED vars
    BY <1>27 DEF vars
  <1> QED
    BY <1>1, <1>2, <1>3, <1>4, <1>5, <1>6, <1>7, <1>8, <1>9, <1>10, <1>11, <1>12,
       <1>13, <1>14, <1>15, <1>16, <1>17, <1>18, <1>19, <1>20, <1>21, <1>22, <1>23, <1>24,
       <1>25, <1>26, <1>27
    DEF Next, Step, Fault

\* What a client has validated stays current until its COMMIT.
LEMMA ValidatedStep ==
    IndInv /\ [Next]_vars => ValidatedStateIsCurrent' /\ UpdatesApply'
  <1> SUFFICES ASSUME IndInv, [Next]_vars, NEW d \in Clients, Validated(d)'
               PROVE  /\ lock'[target'[d]] = d
                      /\ seen'[d] = meta'[target'[d]]
                      /\ rowName'[target'[d]] = Cur(d)'.name
                      /\ RequirementsHold(Cur(d)', target'[d], meta'[target'[d]])
                      /\ ~UpdateFails(d, seen[d])'
    BY DEF ValidatedStateIsCurrent, UpdatesApply, RequirementsHold
  <1>1. CASE AcquireTable(d)
    <2>1. target[d] \in Rows /\ seen' = [seen EXCEPT ![d] = meta[target[d]]]
      BY <1>1 DEF AcquireTable, IndInv, ControlState
    <2>2. /\ lock' = [lock EXCEPT ![target[d]] = d]
          /\ UNCHANGED <<target, meta, rowName, req, idx>>
      BY <1>1 DEF AcquireTable, rowVars, clientVars
    <2> QED
      BY <1>1, <2>1, <2>2
      DEF AcquireTable, StillNamed, Cur, IndInv, TypeOK, RequirementsHold, UpdateFails
  <1>2. CASE ~AcquireTable(d)
    <2>1. Undisturbed(d)
      BY <1>2, RowLockProtects
    <2>2. /\ lock[target[d]] = d /\ seen[d] = meta[target[d]]
          /\ rowName[target[d]] = Cur(d).name
          /\ RequirementsHold(Cur(d), target[d], meta[target[d]])
          /\ ~UpdateFails(d, seen[d])
      BY <2>1 DEF Undisturbed, IndInv, ValidatedStateIsCurrent, UpdatesApply
    <2> QED  BY <2>1, <2>2 DEF Undisturbed, Cur, RequirementsHold, UpdateFails
  <1> QED  BY <1>1, <1>2

\* The inductive invariant holds before the first request.
LEMMA IndInvInit == Init => IndInv
  <1> SUFFICES ASSUME Init PROVE IndInv
    OBVIOUS
  <1>1. TypeOK
    BY TypeInit
  <1>2. ControlState /\ ValidatedStateIsCurrent /\ UpdatesApply
    BY DEF Init, ControlState, ValidatedStateIsCurrent, UpdatesApply, Validated
  <1>3. UnbornRows /\ NamesAreUnique /\ NoLeakedLocks /\ LogOfLiveRows
    BY InitialNameAssumption
    DEF Init, UnbornRows, NamesAreUnique, NoLeakedLocks, LogOfLiveRows
  <1> QED  BY <1>1, <1>2, <1>3 DEF IndInv

\* Every step of a handler, of a client and of the database keeps it.
LEMMA IndInvStep == IndInv /\ [Next]_vars => IndInv'
  BY TypeStep, ControlStep, UnbornStep, NamesStep, LocksStep, ValidatedStep, LogStep
  DEF IndInv

\* So it holds in every reachable state, for any clients, rows and requests.
LEMMA IndInvHolds == Spec => []IndInv
  BY IndInvInit, IndInvStep, PTL DEF Spec

\* Type correctness of the rows and of the handlers, whatever the requests.
THEOREM TypeCorrect == Spec => []TypeOK
  <1>1. IndInv => TypeOK
    BY DEF IndInv
  <1> QED  BY <1>1, IndInvHolds, PTL

\* What CommitTable has validated is still what the row holds when it commits:
\* no other commit, drop or rename gets between its SELECT ... FOR UPDATE and
\* its COMMIT.
THEOREM ValidatedStateStaysCurrent == Spec => []ValidatedStateIsCurrent
  <1>1. IndInv => ValidatedStateIsCurrent
    BY DEF IndInv
  <1> QED  BY <1>1, IndInvHolds, PTL

\* No row lock outlives the transaction that took it, whichever error, timeout
\* or crash ends it.
THEOREM LocksAreReleased == Spec => []NoLeakedLocks
  <1>1. IndInv => NoLeakedLocks
    BY DEF IndInv
  <1> QED  BY <1>1, IndInvHolds, PTL

\* No interleaving of creates, renames and drops gives two tables one name.
THEOREM NamesStayUnique == Spec => []NamesAreUnique
  <1>1. IndInv => NamesAreUnique
    BY DEF IndInv
  <1> QED  BY <1>1, IndInvHolds, PTL

----------------------------------------------------------------------------
(***************************************************************************)
(* Action properties                                                       *)
(***************************************************************************)

\* A step changes a table's metadata only as the commit of one CommitTable that
\* validated exactly the metadata it replaces.
LEMMA CompareAndSet ==
    ASSUME IndInv, [Next]_vars PROVE [CompareAndSetStep]_vars
  <1> USE DEF CompareAndSetStep, rowVars
  <1>1. ASSUME NEW c \in Clients, Submit(c) PROVE [CompareAndSetStep]_vars
    BY <1>1 DEF Submit
  <1>2. ASSUME NEW c \in Clients, Resubmit(c) PROVE [CompareAndSetStep]_vars
    BY <1>2 DEF Resubmit
  <1>3. ASSUME NEW c \in Clients, Begin(c) PROVE [CompareAndSetStep]_vars
    BY <1>3 DEF Begin
  <1>4. ASSUME NEW c \in Clients, Query(c) PROVE [CompareAndSetStep]_vars
    BY <1>4 DEF Query
  <1>5. ASSUME NEW c \in Clients, AcquireGone(c) PROVE [CompareAndSetStep]_vars
    BY <1>5 DEF AcquireGone
  <1>6. ASSUME NEW c \in Clients, AcquireRejected(c) PROVE [CompareAndSetStep]_vars
    BY <1>6 DEF AcquireRejected
  <1>7. ASSUME NEW c \in Clients, AcquireTable(c) PROVE [CompareAndSetStep]_vars
    BY <1>7 DEF AcquireTable
  <1>8. ASSUME NEW c \in Clients, AcquireInTx(c) PROVE [CompareAndSetStep]_vars
    BY <1>8 DEF AcquireInTx
  <1>9. ASSUME NEW c \in Clients, LockTimesOut(c) PROVE [CompareAndSetStep]_vars
    BY <1>9 DEF LockTimesOut
  <1>10. ASSUME NEW c \in Clients, LockTimesOutInTx(c) PROVE [CompareAndSetStep]_vars
    BY <1>10 DEF LockTimesOutInTx
  <1>11. ASSUME NEW c \in Clients, RetryElapsed(c) PROVE [CompareAndSetStep]_vars
    BY <1>11 DEF RetryElapsed
  <1>12. ASSUME NEW c \in Clients, RetryCancelled(c) PROVE [CompareAndSetStep]_vars
    BY <1>12 DEF RetryCancelled
  <1>13. ASSUME NEW c \in Clients, UpdateRow(c) PROVE [CompareAndSetStep]_vars
    BY <1>13 DEF UpdateRow
  <1>14. ASSUME NEW c \in Clients, InsertLog(c) PROVE [CompareAndSetStep]_vars
    BY <1>14 DEF InsertLog
  <1>15. ASSUME NEW c \in Clients, InsertLogFails(c) PROVE [CompareAndSetStep]_vars
    BY <1>15 DEF InsertLogFails
  <1>16. ASSUME NEW c \in Clients, Commit(c) PROVE [CompareAndSetStep]_vars
    <2>1. CASE Kind(c) = "commit" /\ commitErr[c] = "none"
      <3>1. Validated(c)
        BY <1>16, <2>1 DEF Commit, Validated
      <3>2. /\ target[c] \in Rows /\ seen[c] = meta[target[c]]
            /\ rowName[target[c]] = Cur(c).name
            /\ RequirementsHold(Cur(c), target[c], meta[target[c]])
            /\ ~UpdateFails(c, meta[target[c]])
        BY <3>1 DEF IndInv, ControlState, ValidatedStateIsCurrent, UpdatesApply
      <3>3. PICK t \in Stamps : meta' = [meta EXCEPT ![target[c]] = Updated(c, meta[target[c]], t)]
        BY <1>16, <2>1, <3>2 DEF Commit, Install
      <3>4. ASSUME NEW r \in Rows, meta'[r] # meta[r] PROVE r = target[c]
        BY <3>3, <3>4 DEF IndInv, TypeOK
      <3>5. meta'[target[c]] = Updated(c, meta[target[c]], t)
        BY <3>2, <3>3 DEF IndInv, TypeOK
      <3>6. req[c].update \in {"append", "expire", "touch", "invalid"}
        BY RequestType DEF Request, IndInv
      <3>7. LET m == meta[target[c]]
                n == meta'[target[c]]
            IN  /\ n.commits = m.commits + 1
                /\ \/ /\ req[c].update = "append" /\ c \notin m.snapshots
                      /\ n.snapshots = m.snapshots \cup {c} /\ n.main = c
                   \/ req[c].update = "expire" /\ n.snapshots = {} /\ n.main = None
                   \/ /\ req[c].update = "touch"
                      /\ n.snapshots = m.snapshots /\ n.main = m.main
        BY <3>2, <3>5, <3>6 DEF Updated, UpdateFails
      <3>8. CompareAndSetStep
        BY <2>1, <3>2, <3>4, <3>7 DEF CompareAndSetStep
      <3> QED  BY <3>8
    <2>2. CASE ~(Kind(c) = "commit" /\ commitErr[c] = "none")
      BY <1>16, <2>2 DEF Commit, Install
    <2> QED  BY <2>1, <2>2
  <1>17. ASSUME NEW c \in Clients, CommitAborted(c) PROVE [CompareAndSetStep]_vars
    BY <1>17 DEF CommitAborted
  <1>18. ASSUME NEW c \in Clients, CommitFails(c) PROVE [CompareAndSetStep]_vars
    BY <1>18 DEF CommitFails
  <1>19. ASSUME NEW c \in Clients, StatementFails(c) PROVE [CompareAndSetStep]_vars
    BY <1>19 DEF StatementFails
  <1>20. ASSUME NEW c \in Clients, StartStatement(c) PROVE [CompareAndSetStep]_vars
    BY <1>20 DEF StartStatement
  <1>21. ASSUME NEW c \in Clients, StatementGone(c) PROVE [CompareAndSetStep]_vars
    BY <1>21 DEF StatementGone
  <1>22. ASSUME NEW c \in Clients, DropTable(c) PROVE [CompareAndSetStep]_vars
    BY <1>22 DEF DropTable
  <1>23. ASSUME NEW c \in Clients, RenameTable(c) PROVE [CompareAndSetStep]_vars
    BY <1>23 DEF RenameTable
  <1>24. ASSUME NEW c \in Clients, CreateTable(c) PROVE [CompareAndSetStep]_vars
    <2>1. \A r \in born : meta'[r] = meta[r]
      BY <1>24 DEF CreateTable, IndInv, TypeOK
    <2> QED  BY <2>1
  <1>25. ASSUME NEW c \in Clients, Reply(c) PROVE [CompareAndSetStep]_vars
    BY <1>25 DEF Reply
  <1>26. ASSUME NEW c \in Clients, Crash(c) PROVE [CompareAndSetStep]_vars
    BY <1>26 DEF Crash
  <1>27. CASE UNCHANGED vars
    BY <1>27 DEF vars
  <1> QED
    BY <1>1, <1>2, <1>3, <1>4, <1>5, <1>6, <1>7, <1>8, <1>9, <1>10, <1>11, <1>12,
       <1>13, <1>14, <1>15, <1>16, <1>17, <1>18, <1>19, <1>20, <1>21, <1>22, <1>23, <1>24,
       <1>25, <1>26, <1>27
    DEF Next, Step, Fault

\* Every change of a table's metadata, in any execution, is one commit whose
\* requirements hold in the state it replaces, and which takes snapshots out only if
\* it expires them.
THEOREM CommitsCompareAndSet == Spec => CommitIsCompareAndSet
  BY IndInvHolds, CompareAndSet, PTL DEF Spec, CommitIsCompareAndSet

\* No step touches the name, the log or the metadata of a table that is dropped.
LEMMA Dropped ==
    ASSUME IndInv, [Next]_vars PROVE [DroppedStep]_vars
  <1> USE DEF DroppedStep, rowVars, IndInv, TypeOK, LogOfLiveRows
  <1>1. ASSUME NEW c \in Clients, Submit(c) PROVE [DroppedStep]_vars
    BY <1>1 DEF Submit
  <1>2. ASSUME NEW c \in Clients, Resubmit(c) PROVE [DroppedStep]_vars
    BY <1>2 DEF Resubmit
  <1>3. ASSUME NEW c \in Clients, Begin(c) PROVE [DroppedStep]_vars
    BY <1>3 DEF Begin
  <1>4. ASSUME NEW c \in Clients, Query(c) PROVE [DroppedStep]_vars
    BY <1>4 DEF Query
  <1>5. ASSUME NEW c \in Clients, AcquireGone(c) PROVE [DroppedStep]_vars
    BY <1>5 DEF AcquireGone
  <1>6. ASSUME NEW c \in Clients, AcquireRejected(c) PROVE [DroppedStep]_vars
    BY <1>6 DEF AcquireRejected
  <1>7. ASSUME NEW c \in Clients, AcquireTable(c) PROVE [DroppedStep]_vars
    BY <1>7 DEF AcquireTable
  <1>8. ASSUME NEW c \in Clients, AcquireInTx(c) PROVE [DroppedStep]_vars
    BY <1>8 DEF AcquireInTx
  <1>9. ASSUME NEW c \in Clients, LockTimesOut(c) PROVE [DroppedStep]_vars
    BY <1>9 DEF LockTimesOut
  <1>10. ASSUME NEW c \in Clients, LockTimesOutInTx(c) PROVE [DroppedStep]_vars
    BY <1>10 DEF LockTimesOutInTx
  <1>11. ASSUME NEW c \in Clients, RetryElapsed(c) PROVE [DroppedStep]_vars
    BY <1>11 DEF RetryElapsed
  <1>12. ASSUME NEW c \in Clients, RetryCancelled(c) PROVE [DroppedStep]_vars
    BY <1>12 DEF RetryCancelled
  <1>13. ASSUME NEW c \in Clients, UpdateRow(c) PROVE [DroppedStep]_vars
    BY <1>13 DEF UpdateRow
  <1>14. ASSUME NEW c \in Clients, InsertLog(c) PROVE [DroppedStep]_vars
    BY <1>14 DEF InsertLog
  <1>15. ASSUME NEW c \in Clients, InsertLogFails(c) PROVE [DroppedStep]_vars
    BY <1>15 DEF InsertLogFails
  <1>16. ASSUME NEW c \in Clients, Commit(c) PROVE [DroppedStep]_vars
    <2>1. CASE Kind(c) = "commit" /\ commitErr[c] = "none"
      <3>1. Validated(c)
        BY <1>16, <2>1 DEF Commit, Validated
      <3>2. target[c] \in Rows /\ rowName[target[c]] = Cur(c).name
        BY <3>1 DEF ControlState, ValidatedStateIsCurrent
      <3>3. rowName[target[c]] # None
        BY <3>2, NamedIsBorn
      <3>4. /\ \A r \in Rows : r # target[c] => meta'[r] = meta[r]
            /\ rowName' = rowName /\ \E t \in Stamps : commitLog' = commitLog \cup {LogEntry(c, t)}
        BY <1>16, <2>1 DEF Commit, Install
      <3> QED  BY <3>3, <3>4 DEF LogEntry
    <2>2. CASE ~(Kind(c) = "commit" /\ commitErr[c] = "none")
      BY <1>16, <2>2 DEF Commit, Install
    <2> QED  BY <2>1, <2>2
  <1>17. ASSUME NEW c \in Clients, CommitAborted(c) PROVE [DroppedStep]_vars
    BY <1>17 DEF CommitAborted
  <1>18. ASSUME NEW c \in Clients, CommitFails(c) PROVE [DroppedStep]_vars
    BY <1>18 DEF CommitFails
  <1>19. ASSUME NEW c \in Clients, StatementFails(c) PROVE [DroppedStep]_vars
    BY <1>19 DEF StatementFails
  <1>20. ASSUME NEW c \in Clients, StartStatement(c) PROVE [DroppedStep]_vars
    BY <1>20 DEF StartStatement
  <1>21. ASSUME NEW c \in Clients, StatementGone(c) PROVE [DroppedStep]_vars
    BY <1>21 DEF StatementGone
  <1>22. ASSUME NEW c \in Clients, DropTable(c) PROVE [DroppedStep]_vars
    BY <1>22 DEF DropTable
  <1>23. ASSUME NEW c \in Clients, RenameTable(c) PROVE [DroppedStep]_vars
    <2>1. target[c] \in Rows /\ rowName[target[c]] # None
      BY <1>23, NamedIsBorn DEF RenameTable, StillNamed, ControlState
    <2> QED  BY <1>23, <2>1 DEF RenameTable
  <1>24. ASSUME NEW c \in Clients, CreateTable(c) PROVE [DroppedStep]_vars
    <2>1. \A r \in born : meta'[r] = meta[r] /\ rowName'[r] = rowName[r]
      BY <1>24 DEF CreateTable
    <2>2. UNCHANGED commitLog
      BY <1>24 DEF CreateTable
    <2> QED  BY <2>1, <2>2
  <1>25. ASSUME NEW c \in Clients, Reply(c) PROVE [DroppedStep]_vars
    BY <1>25 DEF Reply
  <1>26. ASSUME NEW c \in Clients, Crash(c) PROVE [DroppedStep]_vars
    BY <1>26 DEF Crash
  <1>27. CASE UNCHANGED vars
    BY <1>27 DEF vars
  <1> QED
    BY <1>1, <1>2, <1>3, <1>4, <1>5, <1>6, <1>7, <1>8, <1>9, <1>10, <1>11, <1>12,
       <1>13, <1>14, <1>15, <1>16, <1>17, <1>18, <1>19, <1>20, <1>21, <1>22, <1>23, <1>24,
       <1>25, <1>26, <1>27
    DEF Next, Step, Fault

\* In any execution a dropped table keeps no name, no log and its last metadata.
THEOREM DroppedTablesStayDropped == Spec => DroppedStaysDropped
  BY IndInvHolds, Dropped, PTL DEF Spec, DroppedStaysDropped

----------------------------------------------------------------------------
(***************************************************************************)
(* What is durable: the log and the answers                                *)
(***************************************************************************)

\* A logged append is a snapshot of its table until a later commit expires it.
SnapshotsAreLogged ==
    \A e \in commitLog :
        req[e.by].update = "append" => e.by \in meta[e.row].snapshots \/ Expired(e)

\* A commit that is durable is in the log of its table, as long as that exists.
DurableIsLogged ==
    \A c \in Clients : committed[c] /\ Kind(c) = "commit" =>
        /\ target[c] \in born
        /\ rowName[target[c]] # None => \E e \in commitLog : e.row = target[c] /\ e.by = c

\* What a handler that is about to answer knows of its outcome is true.
OutcomeIsKnown ==
    \A c \in Clients :
        /\ pc[c] = "reply" /\ dbErr[c] = "none" => (committed[c] <=> commitErr[c] = "none")
        /\ pc[c] = "reply" /\ dbErr[c] = "lock_timeout" => ~committed[c]
        /\ answer[c] = "200" => committed[c]

HistoryInv ==
    /\ IndInv
    /\ ReappliedOnlyAfterExpiry
    /\ LogIsComplete
    /\ SnapshotsAreLogged
    /\ DurableIsLogged
    /\ OutcomeIsKnown

\* A client's request does not change.
LEMMA RequestsStay == ASSUME [Next]_vars PROVE req' = req
  BY ZenonT(60) DEF Next, Step, Fault, vars, clientVars, Submit, Resubmit, Begin, Query, AcquireGone,
     AcquireRejected, AcquireTable, AcquireInTx, LockTimesOut, LockTimesOutInTx, RetryElapsed,
     RetryCancelled, UpdateRow, InsertLog, InsertLogFails, Commit, CommitAborted, CommitFails,
     StatementFails, StartStatement, StatementGone, DropTable, RenameTable, CreateTable, Reply, Crash

\* The steps that write a row.
Writes(c) == Commit(c) \/ DropTable(c) \/ RenameTable(c) \/ CreateTable(c)

\* All the other steps leave the rows alone.
LEMMA OnlyWritesWrite ==
    ASSUME [Next]_vars
    PROVE  UNCHANGED <<rowName, born, meta, commitLog>> \/ \E c \in Clients : Writes(c)
  BY DEF Next, Step, Fault, vars, rowVars, Writes, Submit, Resubmit, Begin, Query, AcquireGone,
     AcquireRejected, AcquireTable, AcquireInTx, LockTimesOut, LockTimesOutInTx, RetryElapsed,
     RetryCancelled, UpdateRow, InsertLog, InsertLogFails, CommitAborted, CommitFails,
     StatementFails, StartStatement, StatementGone, Reply, Crash

\* A COMMIT writes nothing, or the row that it has validated.
LEMMA CommitWrites ==
    ASSUME IndInv, NEW c \in Clients, Commit(c), Kind(c) = "commit", commitErr[c] = "none"
    PROVE  /\ target[c] \in Rows /\ rowName[target[c]] = Cur(c).name /\ rowName[target[c]] # None
           /\ target[c] \in born /\ lock[target[c]] = c
           /\ RequirementsHold(Cur(c), target[c], meta[target[c]])
           /\ ~UpdateFails(c, meta[target[c]])
           /\ \E t \in Stamps :
                 /\ LogEntry(c, t) = [row |-> target[c], nth |-> meta[target[c]].commits + 1,
                                      location |-> t, by |-> c, on |-> meta[target[c]].main]
                 /\ meta' = [meta EXCEPT ![target[c]] = Updated(c, meta[target[c]], t)]
                 /\ commitLog' = commitLog \cup {LogEntry(c, t)}
  <1>1. Validated(c)
    BY DEF Commit, Validated
  <1>2. target[c] \in Rows /\ seen[c] = meta[target[c]] /\ rowName[target[c]] = Cur(c).name
        /\ lock[target[c]] = c /\ RequirementsHold(Cur(c), target[c], meta[target[c]])
        /\ ~UpdateFails(c, meta[target[c]])
    BY <1>1 DEF IndInv, ControlState, ValidatedStateIsCurrent, UpdatesApply
  <1>3. target[c] \in born /\ rowName[target[c]] # None
    BY <1>2, NamedIsBorn DEF IndInv
  <1> QED  BY <1>2, <1>3 DEF Commit, Install, LogEntry

\* The places that the log has of a row.
PlacesOf(r, log) == {e.nth : e \in {d \in log : d.row = r}}

\* A new entry of the log adds its place to those of its row, and of no other.
LEMMA OneMorePlace ==
    ASSUME NEW log, NEW x
    PROVE  /\ PlacesOf(x.row, log \cup {x}) = PlacesOf(x.row, log) \cup {x.nth}
           /\ \A r : r # x.row => PlacesOf(r, log \cup {x}) = PlacesOf(r, log)
  BY DEF PlacesOf

\* The log of a table grows by one entry with each of its commits.
LEMMA LogIsCompleteStep == HistoryInv /\ [Next]_vars => LogIsComplete'
  <1> SUFFICES ASSUME HistoryInv, [Next]_vars PROVE LogIsComplete'
    OBVIOUS
  <1> DEFINE Complete(r, log, m) ==
               /\ PlacesOf(r, log) = 1..m.commits
               /\ \A d, e \in log : d.row = r /\ e.row = r /\ d.nth = e.nth => d = e
               /\ \A e \in log : e.row = r /\ e.nth = m.commits => e.location = m.location
  <1>0. IndInv /\ TypeOK /\ \A r \in Rows : rowName[r] # None => Complete(r, commitLog, meta[r])
    BY DEF HistoryInv, IndInv, LogIsComplete, PlacesOf
  <1>a. SUFFICES ASSUME NEW r \in Rows, rowName'[r] # None
                 PROVE  Complete(r, commitLog', meta'[r])
    BY DEF LogIsComplete, PlacesOf
  <1>1. CASE UNCHANGED <<rowName, born, meta, commitLog>>
    BY <1>0, <1>a, <1>1
  <1>2. ASSUME NEW c \in Clients, Commit(c) PROVE Complete(r, commitLog', meta'[r])
    <2>0. rowName' = rowName
      BY <1>2 DEF Commit
    <2>1. CASE Kind(c) = "commit" /\ commitErr[c] = "none"
      <3>0. /\ target[c] \in Rows /\ rowName[target[c]] # None
            /\ \E t \in Stamps :
                 /\ LogEntry(c, t) = [row |-> target[c], nth |-> meta[target[c]].commits + 1,
                                      location |-> t, by |-> c, on |-> meta[target[c]].main]
                 /\ meta' = [meta EXCEPT ![target[c]] = Updated(c, meta[target[c]], t)]
                 /\ commitLog' = commitLog \cup {LogEntry(c, t)}
        BY <1>0, <1>2, <2>1, CommitWrites
      <3>t. PICK t \in Stamps :
                 /\ LogEntry(c, t) = [row |-> target[c], nth |-> meta[target[c]].commits + 1,
                                      location |-> t, by |-> c, on |-> meta[target[c]].main]
                 /\ meta' = [meta EXCEPT ![target[c]] = Updated(c, meta[target[c]], t)]
                 /\ commitLog' = commitLog \cup {LogEntry(c, t)}
        BY <3>0
      <3> DEFINE x == LogEntry(c, t)
                 n == meta[x.row].commits
      <3>b. x.row = target[c] /\ x.nth = meta[target[c]].commits + 1 /\ x.location = t
        BY <3>t
      <3>1. /\ x.row \in Rows /\ x.row = target[c] /\ x.nth = n + 1 /\ x.location = t
            /\ rowName[x.row] # None /\ commitLog' = commitLog \cup {x}
            /\ meta' = [meta EXCEPT ![x.row] = Updated(c, meta[x.row], t)]
        <4> HIDE DEF x
        <4> QED  BY <3>0, <3>t, <3>b DEF x
      <3>2. n \in Nat /\ meta'[x.row].commits = n + 1 /\ meta'[x.row].location = t
        BY <1>0, <3>1 DEF TypeOK, Metadata, Updated
      <3>3. CASE r = x.row
        <4> HIDE DEF x
        <4>1. Complete(r, commitLog, meta[r])
          BY <1>0, <3>1, <3>3
        <4>2. PlacesOf(r, commitLog') = (1..n) \cup {n + 1}
          <5>1. PlacesOf(x.row, commitLog \cup {x}) = PlacesOf(x.row, commitLog) \cup {x.nth}
            BY OneMorePlace
          <5>2. PlacesOf(x.row, commitLog) = 1..n
            BY <3>3, <4>1
          <5> QED  BY <3>1, <3>3, <5>1, <5>2
        <4>3. (1..n) \cup {n + 1} = 1..(n + 1)
          BY <3>2
        <4>4. \A d \in commitLog : d.row = r => d.nth \in 1..n
          BY <3>3, <4>1 DEF PlacesOf
        <4>5. n + 1 \notin 1..n
          BY <3>2
        <4>6. \A d \in commitLog : d.row = r => d.nth # x.nth
          BY <3>1, <4>4, <4>5
        <4>7. \A d, e \in commitLog' : d.row = r /\ e.row = r /\ d.nth = e.nth => d = e
          BY <3>1, <4>1, <4>6
        <4>8. \A e \in commitLog' : e.row = r /\ e.nth = n + 1 => e.location = t
          BY <3>1, <4>6
        <4> QED  BY <3>2, <3>3, <4>2, <4>3, <4>7, <4>8
      <3>4. CASE r # x.row
        <4>1. meta'[r] = meta[r]
          BY <1>0, <3>1, <3>4 DEF TypeOK
        <4>2. Complete(r, commitLog, meta[r])
          BY <1>0, <1>a, <2>0
        <4> HIDE DEF x
        <4>3. PlacesOf(r, commitLog') = PlacesOf(r, commitLog)
          BY <3>1, <3>4, OneMorePlace
        <4>4. \A e \in commitLog' : e.row = r => e \in commitLog
          BY <3>1, <3>4
        <4> QED  BY <4>1, <4>2, <4>3, <4>4
      <3> QED  BY <3>3, <3>4
    <2>2. CASE ~(Kind(c) = "commit" /\ commitErr[c] = "none")
      <3>1. UNCHANGED <<meta, commitLog>>
        BY <1>2, <2>2 DEF Commit, Install
      <3> QED  BY <1>0, <1>a, <2>0, <3>1
    <2> QED  BY <2>1, <2>2
  <1>3. ASSUME NEW c \in Clients, DropTable(c) PROVE Complete(r, commitLog', meta'[r])
    <2>1. /\ meta' = meta /\ rowName' = [rowName EXCEPT ![target[c]] = None]
          /\ commitLog' = {e \in commitLog : e.row # target[c]}
      BY <1>3 DEF DropTable
    <2>2. r # target[c] /\ rowName[r] # None
      BY <1>0, <1>a, <2>1 DEF TypeOK
    <2>3. PlacesOf(r, commitLog') = PlacesOf(r, commitLog)
      BY <2>1, <2>2 DEF PlacesOf
    <2> QED  BY <1>0, <2>1, <2>2, <2>3
  <1>4. ASSUME NEW c \in Clients, RenameTable(c) PROVE Complete(r, commitLog', meta'[r])
    <2>1. meta' = meta /\ commitLog' = commitLog
      BY <1>4 DEF RenameTable
    <2>2. rowName[r] # None
      <3>1. target[c] \in Rows /\ rowName[target[c]] # None
        BY <1>0, <1>4, NamedIsBorn DEF RenameTable, StillNamed, IndInv, ControlState
      <3> QED  BY <1>0, <1>4, <1>a, <3>1 DEF RenameTable, TypeOK
    <2> QED  BY <1>0, <2>1, <2>2
  <1>5. ASSUME NEW c \in Clients, CreateTable(c) PROVE Complete(r, commitLog', meta'[r])
    <2>0. commitLog' = commitLog
      BY <1>5 DEF CreateTable
    <2>1. CASE UNCHANGED <<rowName, born, meta, target, committed>>
      BY <1>0, <1>a, <2>0, <2>1
    <2>2. ASSUME NEW s \in Rows \ born, rowName' = [rowName EXCEPT ![s] = Cur(c).name],
                 meta' = [meta EXCEPT ![s] = NewMetadata]
          PROVE  Complete(r, commitLog', meta'[r])
      <3>1. CASE r = s
        <4>1. \A e \in commitLog : e.row # r
          BY <1>0, <2>2, <3>1 DEF IndInv, UnbornRows, LogOfLiveRows
        <4>2. meta'[r].commits = 0
          BY <1>0, <2>2, <3>1 DEF TypeOK, NewMetadata
        <4>3. PlacesOf(r, commitLog) = 1..0
          BY <4>1 DEF PlacesOf
        <4> QED  BY <2>0, <4>1, <4>2, <4>3
      <3>2. CASE r # s
        BY <1>0, <1>a, <2>0, <2>2, <3>2 DEF TypeOK
      <3> QED  BY <3>1, <3>2
    <2> QED  BY <1>5, <2>1, <2>2 DEF CreateTable
  <1> QED  BY <1>1, <1>2, <1>3, <1>4, <1>5, OnlyWritesWrite DEF Writes

\* An entry's place is at most the number of the commits of its table.
LEMMA PlacesAreBounded ==
    ASSUME HistoryInv, NEW e \in commitLog
    PROVE  /\ e.row \in Rows /\ e.row \in born /\ rowName[e.row] # None /\ e.by \in Clients
           /\ e.nth \in Nat /\ meta[e.row].commits \in Nat /\ e.nth <= meta[e.row].commits
  <1>1. e.row \in Rows /\ e.by \in Clients /\ rowName[e.row] # None
    BY DEF HistoryInv, IndInv, TypeOK, LogEntries, LogOfLiveRows
  <1>2. e.row \in born
    BY <1>1 DEF HistoryInv, IndInv, UnbornRows
  <1>3. meta[e.row].commits \in Nat
    BY <1>1 DEF HistoryInv, IndInv, TypeOK, Metadata
  <1>4. e.nth \in 1..meta[e.row].commits
    BY <1>1 DEF HistoryInv, LogIsComplete
  <1> QED  BY <1>1, <1>2, <1>3, <1>4

\* Entries leave the log only with their table, and enter it only by a COMMIT,
\* which writes the row that it has validated.
LEMMA LogStays ==
    ASSUME IndInv, [Next]_vars
    PROVE  /\ \A e \in commitLog : rowName'[e.row] # None => e \in commitLog'
           /\ \A e \in commitLog' : e \in commitLog => rowName'[e.row] # None
           /\ \A e \in commitLog' : e \notin commitLog =>
                \E c \in Clients, t \in Stamps :
                    /\ Commit(c) /\ Kind(c) = "commit" /\ commitErr[c] = "none"
                    /\ e = LogEntry(c, t) /\ commitLog' = commitLog \cup {e}
  <1>0. TypeOK /\ \A e \in commitLog : e.row \in Rows /\ rowName[e.row] # None
    BY DEF IndInv, TypeOK, LogEntries, LogOfLiveRows
  <1>1. CASE UNCHANGED <<rowName, born, meta, commitLog>>
    BY <1>0, <1>1
  <1>2. ASSUME NEW c \in Clients, Commit(c)
        PROVE  /\ rowName' = rowName
               /\ \/ commitLog' = commitLog
                  \/ /\ \E t \in Stamps : commitLog' = commitLog \cup {LogEntry(c, t)}
                     /\ Kind(c) = "commit" /\ commitErr[c] = "none"
    BY <1>2 DEF Commit, Install
  <1>3. ASSUME NEW c \in Clients, DropTable(c)
        PROVE  /\ commitLog' \subseteq commitLog
               /\ \A e \in commitLog : rowName'[e.row] # None <=> e \in commitLog'
    BY <1>0, <1>3 DEF DropTable, TypeOK
  <1>4. ASSUME NEW c \in Clients, RenameTable(c) \/ CreateTable(c)
        PROVE  commitLog' = commitLog /\ \A e \in commitLog : rowName'[e.row] # None
    <2>1. commitLog' = commitLog
      BY <1>4 DEF RenameTable, CreateTable
    <2>2. req[c].to # None /\ Cur(c).name # None
      BY <1>0, RequestType, NullsAssumption DEF Request, Change
    <2>3. \A e \in commitLog : rowName'[e.row] # None
      BY <1>0, <1>4, <2>2 DEF RenameTable, CreateTable, TypeOK
    <2> QED  BY <2>1, <2>3
  <1>5. CASE \E c \in Clients : Commit(c)
    <2>1. PICK c \in Clients : Commit(c)
      BY <1>5
    <2>2. CASE commitLog' = commitLog
      BY <1>0, <1>2, <2>1, <2>2
    <2>3. CASE /\ \E t \in Stamps : commitLog' = commitLog \cup {LogEntry(c, t)}
               /\ Kind(c) = "commit" /\ commitErr[c] = "none"
      <3>1. PICK t \in Stamps : commitLog' = commitLog \cup {LogEntry(c, t)}
        BY <2>3
      <3> QED  BY <1>0, <1>2, <2>1, <2>3, <3>1
    <2> QED  BY <1>2, <2>1, <2>2, <2>3
  <1> QED  BY <1>1, <1>3, <1>4, <1>5, OnlyWritesWrite DEF Writes

\* A row comes to exist only once, and loses a snapshot only to a COMMIT that
\* expires it and logs so at the end of its table's log.
LEMMA SnapshotsStay ==
    ASSUME IndInv, [Next]_vars, NEW r \in Rows, r \in born
    PROVE  /\ r \in born'
           /\ rowName'[r] # None => rowName[r] # None
           /\ \A s \in meta[r].snapshots : s \notin meta'[r].snapshots =>
                 \E x \in commitLog' : /\ x.row = r /\ x.nth = meta[r].commits + 1
                                       /\ req[x.by].update = "expire"
  <1>0. TypeOK
    BY DEF IndInv
  <1>1. CASE UNCHANGED <<rowName, born, meta, commitLog>>
    BY <1>1
  <1>2. ASSUME NEW c \in Clients, Commit(c)
        PROVE  /\ rowName' = rowName /\ born' = born
               /\ \A s \in meta[r].snapshots : s \notin meta'[r].snapshots =>
                    \E x \in commitLog' : /\ x.row = r /\ x.nth = meta[r].commits + 1
                                          /\ req[x.by].update = "expire"
    <2>0. rowName' = rowName /\ born' = born
      BY <1>2 DEF Commit
    <2>1. CASE Kind(c) = "commit" /\ commitErr[c] = "none"
      <3>0. target[c] \in Rows
        BY <1>2, <2>1, CommitWrites
      <3>1. PICK t \in Stamps :
                 /\ LogEntry(c, t) = [row |-> target[c], nth |-> meta[target[c]].commits + 1,
                                      location |-> t, by |-> c, on |-> meta[target[c]].main]
                 /\ meta' = [meta EXCEPT ![target[c]] = Updated(c, meta[target[c]], t)]
                 /\ commitLog' = commitLog \cup {LogEntry(c, t)}
        BY <1>2, <2>1, CommitWrites
      <3>2. CASE r # target[c]
        BY <1>0, <2>0, <3>1, <3>2 DEF TypeOK
      <3>3. CASE r = target[c] /\ req[c].update = "expire"
        <4>1. LogEntry(c, t).row = r /\ LogEntry(c, t).nth = meta[r].commits + 1 /\ LogEntry(c, t).by = c
          BY <3>1, <3>3
        <4> QED  BY <2>0, <3>1, <3>3, <4>1
      <3>4. CASE r = target[c] /\ req[c].update # "expire"
        <4>1. meta'[r].snapshots = Updated(c, meta[r], t).snapshots
          BY <1>0, <3>0, <3>1, <3>4 DEF TypeOK
        <4>2. meta[r].snapshots \subseteq Updated(c, meta[r], t).snapshots
          BY <3>4 DEF Updated
        <4> QED  BY <2>0, <4>1, <4>2
      <3> QED  BY <3>2, <3>3, <3>4
    <2>2. CASE ~(Kind(c) = "commit" /\ commitErr[c] = "none")
      BY <1>2, <2>0, <2>2 DEF Commit, Install
    <2> QED  BY <2>1, <2>2
  <1>3. ASSUME NEW c \in Clients, DropTable(c)
        PROVE  meta' = meta /\ born' = born /\ (rowName'[r] # None => rowName[r] # None)
    BY <1>0, <1>3 DEF DropTable, TypeOK
  <1>4. ASSUME NEW c \in Clients, RenameTable(c)
        PROVE  meta' = meta /\ born' = born /\ (rowName'[r] # None => rowName[r] # None)
    <2>1. target[c] \in Rows /\ rowName[target[c]] # None
      BY <1>0, <1>4, NamedIsBorn DEF RenameTable, StillNamed, IndInv, ControlState
    <2> QED  BY <1>0, <1>4, <2>1 DEF RenameTable, TypeOK
  <1>5. ASSUME NEW c \in Clients, CreateTable(c)
        PROVE  meta'[r] = meta[r] /\ r \in born' /\ rowName'[r] = rowName[r]
    BY <1>0, <1>5 DEF CreateTable, TypeOK
  <1> QED  BY <1>1, <1>2, <1>3, <1>4, <1>5, OnlyWritesWrite DEF Writes

\* What has been expired stays so, as long as the table exists.
LEMMA ExpiredStays ==
    ASSUME HistoryInv, [Next]_vars, NEW e \in commitLog, rowName'[e.row] # None, Expired(e)
    PROVE  Expired(e)'
  <1>1. PICK x \in commitLog : x.row = e.row /\ e.nth < x.nth /\ req[x.by].update = "expire"
    BY DEF Expired
  <1>2. x \in commitLog' /\ req' = req
    BY <1>1, LogStays, RequestsStay DEF HistoryInv
  <1> QED  BY <1>1, <1>2 DEF Expired

\* An append adds its snapshot and its log entry together; only an expiry,
\* which is logged too, takes the snapshot out again.
LEMMA SnapshotsAreLoggedStep == HistoryInv /\ [Next]_vars => SnapshotsAreLogged'
  <1> SUFFICES ASSUME HistoryInv, [Next]_vars, NEW e \in commitLog', req[e.by].update = "append"
               PROVE  e.by \in meta'[e.row].snapshots \/ Expired(e)'
    BY RequestsStay DEF SnapshotsAreLogged
  <1>1. IndInv /\ TypeOK /\ SnapshotsAreLogged /\ req' = req
    BY RequestsStay DEF HistoryInv, IndInv
  <1>2. CASE e \in commitLog
    <2>1. /\ e.row \in Rows /\ e.row \in born /\ e.nth \in Nat /\ meta[e.row].commits \in Nat
          /\ e.nth <= meta[e.row].commits /\ rowName'[e.row] # None
      BY <1>1, <1>2, PlacesAreBounded, LogStays
    <2>2. CASE Expired(e)
      BY <1>2, <2>1, <2>2, ExpiredStays
    <2>3. CASE e.by \in meta[e.row].snapshots /\ e.by \notin meta'[e.row].snapshots
      <3>1. PICK x \in commitLog' : /\ x.row = e.row /\ x.nth = meta[e.row].commits + 1
                                    /\ req[x.by].update = "expire"
        BY <1>1, <2>1, <2>3, SnapshotsStay
      <3>2. e.nth < x.nth
        BY <2>1, <3>1
      <3> QED  BY <1>1, <3>1, <3>2 DEF Expired
    <2> QED  BY <1>1, <1>2, <2>2, <2>3 DEF SnapshotsAreLogged
  <1>3. CASE e \notin commitLog
    <2>1. PICK c \in Clients, t \in Stamps :
                /\ Commit(c) /\ Kind(c) = "commit" /\ commitErr[c] = "none" /\ e = LogEntry(c, t)
      BY <1>1, <1>3, LogStays
    <2>2. target[c] \in Rows /\ \E u \in Stamps :
                meta' = [meta EXCEPT ![target[c]] = Updated(c, meta[target[c]], u)]
      BY <1>1, <2>1, CommitWrites
    <2>3. e.by = c /\ e.row = target[c]
      BY <2>1 DEF LogEntry
    <2>4. \E u \in Stamps : meta'[target[c]].snapshots = Updated(c, meta[target[c]], u).snapshots
      BY <1>1, <2>2 DEF TypeOK
    <2>5. c \in meta'[target[c]].snapshots
      BY <2>3, <2>4 DEF Updated
    <2> QED  BY <2>3, <2>5
  <1> QED  BY <1>2, <1>3

\* An append is refused where its snapshot is: before a second entry of it, an
\* expiry has taken the snapshot of the first one out.
LEMMA ReappliedStep == HistoryInv /\ [Next]_vars => ReappliedOnlyAfterExpiry'
  <1> SUFFICES ASSUME HistoryInv, [Next]_vars PROVE ReappliedOnlyAfterExpiry'
    OBVIOUS
  <1>0. IndInv /\ TypeOK /\ ReappliedOnlyAfterExpiry /\ SnapshotsAreLogged /\ req' = req
    BY RequestsStay DEF HistoryInv, IndInv
  <1> DEFINE Between(d, e) ==
               \E x \in commitLog' :
                  /\ x.row = d.row /\ req[x.by].update = "expire"
                  /\ \/ d.nth < x.nth /\ x.nth < e.nth
                     \/ e.nth < x.nth /\ x.nth < d.nth
  <1>1. ASSUME NEW d \in commitLog, NEW e \in commitLog', e \notin commitLog,
               d.row = e.row, d.by = e.by, req[d.by].update = "append"
        PROVE  \E x \in commitLog' : /\ x.row = d.row /\ req[x.by].update = "expire"
                                     /\ d.nth < x.nth /\ x.nth < e.nth
    <2>1. PICK c \in Clients, t \in Stamps :
                /\ Commit(c) /\ Kind(c) = "commit" /\ commitErr[c] = "none" /\ e = LogEntry(c, t)
                /\ commitLog' = commitLog \cup {e}
      BY <1>0, <1>1, LogStays
    <2>2. /\ e.by = c /\ e.row = target[c] /\ e.nth = meta[target[c]].commits + 1
          /\ ~UpdateFails(c, meta[target[c]])
      <3>1. seen[c] = meta[target[c]] /\ ~UpdateFails(c, meta[target[c]])
        BY <1>0, <2>1 DEF Commit, Validated, IndInv, ValidatedStateIsCurrent, UpdatesApply
      <3> QED  BY <2>1, <3>1 DEF LogEntry
    <2>3. c \notin meta[d.row].snapshots
      BY <1>1, <2>2 DEF UpdateFails
    <2>4. PICK x \in commitLog : x.row = d.row /\ d.nth < x.nth /\ req[x.by].update = "expire"
      BY <1>0, <1>1, <2>2, <2>3 DEF SnapshotsAreLogged, Expired
    <2>5. x.nth \in Nat /\ meta[x.row].commits \in Nat /\ x.nth <= meta[x.row].commits
      BY PlacesAreBounded
    <2>6. x.nth < e.nth
      BY <1>1, <2>2, <2>4, <2>5
    <2> QED  BY <2>1, <2>4, <2>6
  <1>2. SUFFICES ASSUME NEW d \in commitLog', NEW e \in commitLog', d.row = e.row, d.by = e.by,
                        req[d.by].update = "append", d # e
                 PROVE  Between(d, e)
    BY <1>0 DEF ReappliedOnlyAfterExpiry
  <1>3. CASE d \in commitLog /\ e \in commitLog
    <2>1. PICK x \in commitLog : /\ x.row = d.row /\ req[x.by].update = "expire"
                                 /\ \/ d.nth < x.nth /\ x.nth < e.nth
                                    \/ e.nth < x.nth /\ x.nth < d.nth
      BY <1>0, <1>2, <1>3 DEF ReappliedOnlyAfterExpiry
    <2>2. rowName'[d.row] # None
      BY <1>0, <1>2, <1>3, LogStays
    <2>3. x \in commitLog'
      BY <1>0, <2>1, <2>2, LogStays
    <2> QED  BY <2>1, <2>3
  <1>4. CASE d \in commitLog /\ e \notin commitLog
    BY <1>1, <1>2, <1>4
  <1>5. CASE d \notin commitLog /\ e \in commitLog
    BY <1>1, <1>2, <1>5
  <1>6. CASE d \notin commitLog /\ e \notin commitLog
    <2>1. \E c \in Clients, t \in Stamps : commitLog' = commitLog \cup {d}
      BY <1>0, <1>2, <1>6, LogStays
    <2> QED  BY <1>2, <1>6, <2>1
  <1> QED  BY <1>3, <1>4, <1>5, <1>6

\* A submission stays durable, and its handler keeps to its row.
StaysDurable(c) == committed[c] /\ target'[c] = target[c]

\* A submission becomes durable by its COMMIT.
BecomesDurable(c) == Commit(c) /\ commitErr[c] = "none" /\ target'[c] = target[c]

\* There is no other way for a commit to be durable.
LEMMA DurableBy ==
    ASSUME IndInv, [Next]_vars, NEW d \in Clients, committed'[d], Kind(d) = "commit"
    PROVE  StaysDurable(d) \/ BecomesDurable(d)
  <1> USE DEF StaysDurable, BecomesDurable, IndInv, TypeOK, ControlState, Kind, Locking, Goto, rowVars,
          workVars, errVars, clientVars
  <1>1. ASSUME NEW c \in Clients, Submit(c) PROVE StaysDurable(d) \/ BecomesDurable(d)
    BY <1>1 DEF Submit
  <1>2. ASSUME NEW c \in Clients, Resubmit(c) PROVE StaysDurable(d) \/ BecomesDurable(d)
    BY <1>2 DEF Resubmit
  <1>3. ASSUME NEW c \in Clients, Begin(c) PROVE StaysDurable(d) \/ BecomesDurable(d)
    BY <1>3 DEF Begin
  <1>4. ASSUME NEW c \in Clients, Query(c) PROVE StaysDurable(d) \/ BecomesDurable(d)
    BY <1>4 DEF Query, RowsNamed
  <1>5. ASSUME NEW c \in Clients, AcquireGone(c) PROVE StaysDurable(d) \/ BecomesDurable(d)
    BY <1>5 DEF AcquireGone
  <1>6. ASSUME NEW c \in Clients, AcquireRejected(c) PROVE StaysDurable(d) \/ BecomesDurable(d)
    BY <1>6 DEF AcquireRejected
  <1>7. ASSUME NEW c \in Clients, AcquireTable(c) PROVE StaysDurable(d) \/ BecomesDurable(d)
    BY <1>7 DEF AcquireTable
  <1>8. ASSUME NEW c \in Clients, AcquireInTx(c) PROVE StaysDurable(d) \/ BecomesDurable(d)
    BY <1>8 DEF AcquireInTx
  <1>9. ASSUME NEW c \in Clients, LockTimesOut(c) PROVE StaysDurable(d) \/ BecomesDurable(d)
    BY <1>9 DEF LockTimesOut
  <1>10. ASSUME NEW c \in Clients, LockTimesOutInTx(c) PROVE StaysDurable(d) \/ BecomesDurable(d)
    BY <1>10 DEF LockTimesOutInTx
  <1>11. ASSUME NEW c \in Clients, RetryElapsed(c) PROVE StaysDurable(d) \/ BecomesDurable(d)
    BY <1>11 DEF RetryElapsed
  <1>12. ASSUME NEW c \in Clients, RetryCancelled(c) PROVE StaysDurable(d) \/ BecomesDurable(d)
    BY <1>12 DEF RetryCancelled
  <1>13. ASSUME NEW c \in Clients, UpdateRow(c) PROVE StaysDurable(d) \/ BecomesDurable(d)
    BY <1>13 DEF UpdateRow
  <1>14. ASSUME NEW c \in Clients, InsertLog(c) PROVE StaysDurable(d) \/ BecomesDurable(d)
    BY <1>14 DEF InsertLog
  <1>15. ASSUME NEW c \in Clients, InsertLogFails(c) PROVE StaysDurable(d) \/ BecomesDurable(d)
    BY <1>15 DEF InsertLogFails
  <1>16. ASSUME NEW c \in Clients, Commit(c) PROVE StaysDurable(d) \/ BecomesDurable(d)
    <2>1. committed' = [committed EXCEPT ![c] = (commitErr[c] = "none")] /\ target' = target
      BY <1>16 DEF Commit, Install
    <2> QED  BY <1>16, <2>1
  <1>17. ASSUME NEW c \in Clients, CommitAborted(c) PROVE StaysDurable(d) \/ BecomesDurable(d)
    BY <1>17 DEF CommitAborted
  <1>18. ASSUME NEW c \in Clients, CommitFails(c) PROVE StaysDurable(d) \/ BecomesDurable(d)
    BY <1>18 DEF CommitFails
  <1>19. ASSUME NEW c \in Clients, StatementFails(c) PROVE StaysDurable(d) \/ BecomesDurable(d)
    BY <1>19 DEF StatementFails
  <1>20. ASSUME NEW c \in Clients, StartStatement(c) PROVE StaysDurable(d) \/ BecomesDurable(d)
    BY <1>20 DEF StartStatement, RowsNamed
  <1>21. ASSUME NEW c \in Clients, StatementGone(c) PROVE StaysDurable(d) \/ BecomesDurable(d)
    BY <1>21 DEF StatementGone
  <1>22. ASSUME NEW c \in Clients, DropTable(c) PROVE StaysDurable(d) \/ BecomesDurable(d)
    BY <1>22 DEF DropTable
  <1>23. ASSUME NEW c \in Clients, RenameTable(c) PROVE StaysDurable(d) \/ BecomesDurable(d)
    BY <1>23 DEF RenameTable
  <1>24. ASSUME NEW c \in Clients, CreateTable(c) PROVE StaysDurable(d) \/ BecomesDurable(d)
    BY <1>24 DEF CreateTable
  <1>25. ASSUME NEW c \in Clients, Reply(c) PROVE StaysDurable(d) \/ BecomesDurable(d)
    BY <1>25 DEF Reply
  <1>26. ASSUME NEW c \in Clients, Crash(c) PROVE StaysDurable(d) \/ BecomesDurable(d)
    BY <1>26 DEF Crash
  <1>27. CASE UNCHANGED vars
    BY <1>27 DEF vars
  <1> QED
    BY <1>1, <1>2, <1>3, <1>4, <1>5, <1>6, <1>7, <1>8, <1>9, <1>10, <1>11, <1>12,
       <1>13, <1>14, <1>15, <1>16, <1>17, <1>18, <1>19, <1>20, <1>21, <1>22, <1>23, <1>24,
       <1>25, <1>26, <1>27
    DEF Next, Step, Fault

\* What is durable stays in the log of its table.
LEMMA DurableStep == HistoryInv /\ [Next]_vars => DurableIsLogged'
  <1> SUFFICES ASSUME HistoryInv, [Next]_vars, NEW c \in Clients, committed'[c], Kind(c) = "commit"
               PROVE  /\ target'[c] \in born'
                      /\ rowName'[target'[c]] # None =>
                            \E e \in commitLog' : e.row = target'[c] /\ e.by = c
    BY RequestsStay DEF DurableIsLogged, Kind
  <1>0. IndInv /\ TypeOK /\ DurableIsLogged
    BY DEF HistoryInv, IndInv
  <1>1. CASE StaysDurable(c)
    <2>0. committed[c] /\ target'[c] = target[c]
      BY <1>1 DEF StaysDurable
    <2>1. target[c] \in born /\ target[c] \in Rows
      BY <1>0, <2>0 DEF DurableIsLogged, TypeOK
    <2>2. /\ target[c] \in born'
          /\ rowName'[target[c]] # None => rowName[target[c]] # None
      BY <1>0, <2>1, SnapshotsStay
    <2>3. ASSUME rowName'[target[c]] # None
          PROVE  \E e \in commitLog' : e.row = target[c] /\ e.by = c
      <3>1. PICK e \in commitLog : e.row = target[c] /\ e.by = c
        BY <1>0, <2>0, <2>2, <2>3 DEF DurableIsLogged
      <3>2. e \in commitLog'
        BY <1>0, <2>3, <3>1, LogStays
      <3> QED  BY <3>1, <3>2
    <2> QED  BY <2>0, <2>2, <2>3
  <1>2. CASE BecomesDurable(c)
    <2>0. Commit(c) /\ commitErr[c] = "none" /\ target'[c] = target[c]
      BY <1>2 DEF BecomesDurable
    <2>1. target[c] \in born /\ \E t \in Stamps : commitLog' = commitLog \cup {LogEntry(c, t)}
      BY <1>0, <2>0, CommitWrites
    <2>2. born' = born /\ \A t \in Stamps : LogEntry(c, t).row = target[c] /\ LogEntry(c, t).by = c
      BY <2>0 DEF LogEntry, Commit
    <2> QED  BY <2>0, <2>1, <2>2
  <1> QED  BY <1>0, <1>1, <1>2, DurableBy

\* The errors that a handler keeps tell it whether its COMMIT has taken place.
LEMMA OutcomeStep == HistoryInv /\ [Next]_vars => OutcomeIsKnown'
  <1> SUFFICES ASSUME IndInv /\ OutcomeIsKnown, [Next]_vars PROVE OutcomeIsKnown'
    BY DEF HistoryInv
  <1> USE DEF IndInv, TypeOK, ControlState, OutcomeIsKnown, Kind, Locking, Goto, rowVars, workVars, errVars, clientVars
  <1>1. ASSUME NEW c \in Clients, Submit(c) PROVE OutcomeIsKnown'
    BY <1>1 DEF Submit
  <1>2. ASSUME NEW c \in Clients, Resubmit(c) PROVE OutcomeIsKnown'
    BY <1>2 DEF Resubmit
  <1>3. ASSUME NEW c \in Clients, Begin(c) PROVE OutcomeIsKnown'
    BY <1>3 DEF Begin
  <1>4. ASSUME NEW c \in Clients, Query(c) PROVE OutcomeIsKnown'
    BY <1>4 DEF Query, RowsNamed
  <1>5. ASSUME NEW c \in Clients, AcquireGone(c) PROVE OutcomeIsKnown'
    BY <1>5 DEF AcquireGone
  <1>6. ASSUME NEW c \in Clients, AcquireRejected(c) PROVE OutcomeIsKnown'
    BY <1>6 DEF AcquireRejected
  <1>7. ASSUME NEW c \in Clients, AcquireTable(c) PROVE OutcomeIsKnown'
    BY <1>7 DEF AcquireTable
  <1>8. ASSUME NEW c \in Clients, AcquireInTx(c) PROVE OutcomeIsKnown'
    BY <1>8 DEF AcquireInTx
  <1>9. ASSUME NEW c \in Clients, LockTimesOut(c) PROVE OutcomeIsKnown'
    BY <1>9 DEF LockTimesOut
  <1>10. ASSUME NEW c \in Clients, LockTimesOutInTx(c) PROVE OutcomeIsKnown'
    BY <1>10 DEF LockTimesOutInTx
  <1>11. ASSUME NEW c \in Clients, RetryElapsed(c) PROVE OutcomeIsKnown'
    BY <1>11 DEF RetryElapsed
  <1>12. ASSUME NEW c \in Clients, RetryCancelled(c) PROVE OutcomeIsKnown'
    BY <1>12 DEF RetryCancelled
  <1>13. ASSUME NEW c \in Clients, UpdateRow(c) PROVE OutcomeIsKnown'
    BY <1>13 DEF UpdateRow
  <1>14. ASSUME NEW c \in Clients, InsertLog(c) PROVE OutcomeIsKnown'
    BY <1>14 DEF InsertLog
  <1>15. ASSUME NEW c \in Clients, InsertLogFails(c) PROVE OutcomeIsKnown'
    BY <1>15 DEF InsertLogFails
  <1>16. ASSUME NEW c \in Clients, Commit(c) PROVE OutcomeIsKnown'
    <2>0. /\ pc' = [pc EXCEPT ![c] = "reply"] /\ pc[c] = "commit" /\ UNCHANGED <<commitErr, answer>>
          /\ committed' = [committed EXCEPT ![c] = (commitErr[c] = "none")]
          /\ UNCHANGED dbErr \/ dbErr' = [dbErr EXCEPT ![c] = "system"]
      BY <1>16 DEF Commit, Install
    <2>1. ASSUME NEW d \in Clients, d # c
          PROVE  /\ pc'[d] = pc[d] /\ dbErr'[d] = dbErr[d] /\ committed'[d] = committed[d]
                 /\ commitErr'[d] = commitErr[d] /\ answer'[d] = answer[d]
      BY <2>0, <2>1
    <2>2. /\ committed'[c] = (commitErr[c] = "none") /\ commitErr'[c] = commitErr[c]
          /\ answer'[c] = "none" /\ dbErr'[c] # "lock_timeout"
      BY <2>0
    <2>3. SUFFICES ASSUME NEW d \in Clients
          PROVE  /\ pc'[d] = "reply" /\ dbErr'[d] = "none" => (committed'[d] <=> commitErr'[d] = "none")
                 /\ pc'[d] = "reply" /\ dbErr'[d] = "lock_timeout" => ~committed'[d]
                 /\ answer'[d] = "200" => committed'[d]
      OBVIOUS
    <2>4. CASE d = c
      BY <2>2, <2>4
    <2>5. CASE d # c
      BY <2>1, <2>5
    <2> QED  BY <2>4, <2>5
  <1>17. ASSUME NEW c \in Clients, CommitAborted(c) PROVE OutcomeIsKnown'
    BY <1>17 DEF CommitAborted
  <1>18. ASSUME NEW c \in Clients, CommitFails(c) PROVE OutcomeIsKnown'
    BY <1>18 DEF CommitFails
  <1>19. ASSUME NEW c \in Clients, StatementFails(c) PROVE OutcomeIsKnown'
    <2>0. /\ UNCHANGED <<committed, answer>> /\ ~committed[c] /\ answer[c] = "none"
          /\ \/ pc' = [pc EXCEPT ![c] = "commit"]
             \/ pc' = [pc EXCEPT ![c] = "reply"] /\ dbErr' = [dbErr EXCEPT ![c] = "system"]
          /\ \A d \in Clients : d # c => commitErr'[d] = commitErr[d] /\ dbErr'[d] = dbErr[d]
      BY <1>19, ZenonT(60) DEF StatementFails
    <2>3. SUFFICES ASSUME NEW d \in Clients
          PROVE  /\ pc'[d] = "reply" /\ dbErr'[d] = "none" => (committed'[d] <=> commitErr'[d] = "none")
                 /\ pc'[d] = "reply" /\ dbErr'[d] = "lock_timeout" => ~committed'[d]
                 /\ answer'[d] = "200" => committed'[d]
      OBVIOUS
    <2>4. CASE d = c
      BY <2>0, <2>4
    <2>5. CASE d # c
      <3>1. pc'[d] = pc[d] /\ commitErr'[d] = commitErr[d] /\ dbErr'[d] = dbErr[d]
        BY <2>0, <2>5
      <3> QED  BY <2>0, <3>1
    <2> QED  BY <2>4, <2>5
  <1>20. ASSUME NEW c \in Clients, StartStatement(c) PROVE OutcomeIsKnown'
    BY <1>20 DEF StartStatement, RowsNamed
  <1>21. ASSUME NEW c \in Clients, StatementGone(c) PROVE OutcomeIsKnown'
    BY <1>21 DEF StatementGone
  <1>22. ASSUME NEW c \in Clients, DropTable(c) PROVE OutcomeIsKnown'
    BY <1>22 DEF DropTable
  <1>23. ASSUME NEW c \in Clients, RenameTable(c) PROVE OutcomeIsKnown'
    BY <1>23 DEF RenameTable
  <1>24. ASSUME NEW c \in Clients, CreateTable(c) PROVE OutcomeIsKnown'
    BY <1>24 DEF CreateTable
  <1>25. ASSUME NEW c \in Clients, Reply(c) PROVE OutcomeIsKnown'
    <2>0. /\ UNCHANGED <<dbErr, commitErr, committed>> /\ pc' = [pc EXCEPT ![c] = "answered"]
          /\ pc[c] = "reply" /\ answer' = [answer EXCEPT ![c] = StatusOf(c)]
      BY <1>25 DEF Reply
    <2>1. StatusOf(c) = "200" => dbErr[c] = "none" /\ commitErr[c] = "none"
      BY DEF StatusOf, CommitErrors
    <2>2. StatusOf(c) = "200" => committed[c]
      BY <2>0, <2>1
    <2> QED  BY <2>0, <2>2
  <1>26. ASSUME NEW c \in Clients, Crash(c) PROVE OutcomeIsKnown'
    BY <1>26 DEF Crash
  <1>27. CASE UNCHANGED vars
    BY <1>27 DEF vars
  <1> QED
    BY <1>1, <1>2, <1>3, <1>4, <1>5, <1>6, <1>7, <1>8, <1>9, <1>10, <1>11, <1>12,
       <1>13, <1>14, <1>15, <1>16, <1>17, <1>18, <1>19, <1>20, <1>21, <1>22, <1>23, <1>24,
       <1>25, <1>26, <1>27
    DEF Next, Step, Fault

\* The history holds before the first request.
LEMMA HistoryInit == Init => HistoryInv
  <1> SUFFICES ASSUME Init PROVE HistoryInv
    OBVIOUS
  <1>1. ReappliedOnlyAfterExpiry /\ SnapshotsAreLogged /\ DurableIsLogged /\ OutcomeIsKnown
    BY DEF Init, ReappliedOnlyAfterExpiry, SnapshotsAreLogged, DurableIsLogged, OutcomeIsKnown
  <1>2. LogIsComplete
    <2>1. commitLog = {} /\ \A r \in Rows : meta[r].commits = 0
      BY DEF Init, NewMetadata
    <2>2. 1..0 = {}
      OBVIOUS
    <2> QED  BY <2>1, <2>2 DEF LogIsComplete
  <1> QED  BY <1>1, <1>2, IndInvInit DEF HistoryInv

\* The three history properties and what they rest on hold throughout.
LEMMA HistoryHolds == Spec => []HistoryInv
  <1>1. HistoryInv /\ [Next]_vars => HistoryInv'
    BY LogIsCompleteStep, SnapshotsAreLoggedStep, ReappliedStep, DurableStep, OutcomeStep, IndInvStep DEF HistoryInv
  <1> QED  BY <1>1, HistoryInit, PTL DEF Spec

\* However often a commit is sent again after an answer that did not tell its
\* outcome, its snapshot is added to a table a second time only if another
\* commit has expired it in between.
THEOREM CommitsReapplyOnlyAfterExpiry == Spec => []ReappliedOnlyAfterExpiry
  <1>1. HistoryInv => ReappliedOnlyAfterExpiry
    BY DEF HistoryInv
  <1> QED  BY <1>1, HistoryHolds, PTL

\* commit_log has one entry for each commit of a live table, in their order, and
\* the last one names the metadata location of the row, whatever the clocks say.
THEOREM LogStaysComplete == Spec => []LogIsComplete
  <1>1. HistoryInv => LogIsComplete
    BY DEF HistoryInv
  <1> QED  BY <1>1, HistoryHolds, PTL

\* No lost update: a commit that was answered with 200 stays in the log and in
\* the snapshots of its table, until a later commit expires it.
THEOREM AcknowledgedCommitsAreKept == Spec => []AcknowledgedCommitsSurvive
  <1>1. HistoryInv => AcknowledgedCommitsSurvive
    BY DEF HistoryInv, OutcomeIsKnown, DurableIsLogged, SnapshotsAreLogged, AcknowledgedCommitsSurvive
  <1> QED  BY <1>1, HistoryHolds, PTL

=============================================================================
