------------------------ MODULE HousekeepingProofs -------------------------
(***************************************************************************)
(* Proofs about Housekeeping, for every set of nodes, tasks, plans, names  *)
(* and tables and any number of faults: what LeaderElection promises, what *)
(* ScanPlans promises, and both of the composition.                        *)
(***************************************************************************)
EXTENDS Housekeeping, TLAPS

----------------------------------------------------------------------------
(***************************************************************************)
(* The election                                                            *)
(***************************************************************************)
ElectionInv == Election!ElectionTypeOK /\ Election!LeadersHoldTheLock

\* At first nobody holds the lock and nobody takes itself for the leader.
LEMMA ElectionInit == Election!Init => ElectionInv
  BY HousekeepingAssumption
  DEF Election!Init, ElectionInv, Election!ElectionTypeOK, Election!LeadersHoldTheLock

\* What a goroutine of a task, the process of a node and the end of a session do
\* to the lock and to what the nodes believe of it.
LEMMA ElectionStep ==
    ASSUME ElectionInv, NEW n \in Nodes,
           \/ \E t \in Tasks : Election!Run(n, t) \/ Election!Goroutine(n, t)
           \/ Election!Process(n)
           \/ Election!Retire(n)
    PROVE  ElectionInv'
  <1> USE HousekeepingAssumption
      DEF ElectionInv, Election!ElectionTypeOK, Election!LeadersHoldTheLock, Election!Goto,
          Election!Fault, Election!Running
  <1>1. ASSUME NEW t \in Tasks, Election!Run(n, t) PROVE ElectionInv'
    BY <1>1 DEF Election!Run
  <1>2. ASSUME NEW t \in Tasks, Election!TryAcquire(n, t) PROVE ElectionInv'
    <2>1. CASE UNCHANGED <<holder, holds, believes, lost>>
      BY <1>2, <2>1 DEF Election!TryAcquire
    <2>2. CASE /\ Election!LockFree(n) /\ holds < MaxHolds
               /\ holder' = n /\ holds' = holds + 1
               /\ believes' = [believes EXCEPT ![n] = TRUE]
               /\ lost' = [lost EXCEPT ![n] = FALSE]
      <3>1. holds' \in 0..MaxHolds /\ holds' # 0
        BY <2>2
      <3>2. \A m \in Nodes : believes'[m] /\ ~lost'[m] => holder' = m
        BY <2>2 DEF Election!LockFree
      <3> QED  BY <1>2, <2>2, <3>1, <3>2 DEF Election!TryAcquire
    <2> QED  BY <1>2, <2>1, <2>2 DEF Election!TryAcquire
  <1>3. ASSUME NEW t \in Tasks, Election!RunFails(n, t) PROVE ElectionInv'
    <2>1. faults' \in 0..MaxFaults
      BY <1>3 DEF Election!RunFails
    <2> QED  BY <1>3, <2>1 DEF Election!RunFails
  <1>4. ASSUME NEW t \in Tasks, Election!Leave(n, t) PROVE ElectionInv'
    BY <1>4 DEF Election!Leave
  <1>5. ASSUME Election!Release(n) PROVE ElectionInv'
    <2>1. /\ holder' \in Nodes \cup {None} /\ holds' \in 0..MaxHolds
          /\ (holder' = None) <=> (holds' = 0)
          /\ holder \notin {None, n} => holder' = holder
      BY <1>5 DEF Election!Release, Election!Unlock
    <2>2. \A m \in Nodes : believes'[m] /\ ~lost'[m] => holder' = m
      BY <1>5, <2>1 DEF Election!Release
    <2> QED  BY <1>5, <2>1, <2>2 DEF Election!Release
  <1>6. ASSUME Election!Stop(n) PROVE ElectionInv'
    BY <1>6 DEF Election!Stop
  <1>7. ASSUME Election!GoDown(n), faults' \in 0..MaxFaults PROVE ElectionInv'
    BY <1>7 DEF Election!GoDown, Election!EndSession
  <1>8. ASSUME Election!Exit(n) PROVE ElectionInv'
    BY <1>7, <1>8 DEF Election!Exit
  <1>9. ASSUME Election!Crash(n) PROVE ElectionInv'
    BY <1>7, <1>9 DEF Election!Crash
  <1>10. ASSUME Election!Restart(n) PROVE ElectionInv'
    BY <1>10 DEF Election!Restart
  <1>11. ASSUME Election!Retire(n) PROVE ElectionInv'
    BY <1>11 DEF Election!Retire, Election!EndSession
  <1> QED
    BY <1>1, <1>2, <1>3, <1>4, <1>5, <1>6, <1>8, <1>9, <1>10, <1>11
    DEF Election!Goroutine, Election!Process

----------------------------------------------------------------------------
(***************************************************************************)
(* The scan plans                                                          *)
(***************************************************************************)
\* Two names never have the same table.
OneNamePerTable ==
    \A m, n \in Names : tables[m] = tables[n] => m = n \/ tables[n] = None

\* How far a request has come says what there is of its plan: nothing before the
\* INSERT, and a row from then on, unless its hour has passed or its table is
\* gone.  Only a plan that a client knows of is cancelled.
StageTellsPlan ==
    \A p \in Plans :
      /\ stage[p] \in {"new", "insert"} => plans[p] = None
      /\ stage[p] \in {"complete", "known"} =>
           p \in expired \/ ~Scan!Exists(target[p]) \/ plans[p] # None
      /\ p \in cancelled => stage[p] = "known"
      /\ plans[p] # None => target[p] # None

ScanInv ==
    /\ Scan!ScanTypeOK /\ OneNamePerTable /\ StageTellsPlan
    /\ Scan!KnownPlansAreServed /\ Scan!CancelledStaysCancelled

\* At first there is no plan.
LEMMA ScanInit == Scan!Init => ScanInv
  BY HousekeepingAssumption
  DEF Scan!Init, ScanInv, Scan!ScanTypeOK, OneNamePerTable, StageTellsPlan,
      Scan!KnownPlansAreServed, Scan!CancelledStaysCancelled

\* A table keeps its plans through every statement on scan_plans and on tables:
\* the cleanup, the requests that submit and cancel plans, and those that
\* create, drop and rename tables.
LEMMA ScanStep ==
    ASSUME ScanInv,
           Scan!CleanupExpiredScanPlans \/ Scan!Others \/ \E p \in Plans : Scan!Submit(p)
    PROVE  ScanInv'
  <1> USE HousekeepingAssumption
      DEF ScanInv, Scan!ScanTypeOK, OneNamePerTable, StageTellsPlan,
          Scan!KnownPlansAreServed, Scan!CancelledStaysCancelled, Scan!Exists, Scan!Found
  <1>1. ASSUME Scan!CleanupExpiredScanPlans PROVE ScanInv'
    BY <1>1 DEF Scan!CleanupExpiredScanPlans
  <1>2. ASSUME NEW p \in Plans, NEW n \in Names, Scan!GetTable(p, n) PROVE ScanInv'
    BY <1>2 DEF Scan!GetTable
  <1>3. ASSUME NEW p \in Plans, Scan!InsertPlan(p) PROVE ScanInv'
    BY <1>3 DEF Scan!InsertPlan
  <1>4. ASSUME NEW p \in Plans, Scan!CompletePlan(p) PROVE ScanInv'
    BY <1>4 DEF Scan!CompletePlan
  <1>5. ASSUME NEW p \in Plans, Scan!Expire(p) PROVE ScanInv'
    BY <1>5 DEF Scan!Expire
  <1>6. ASSUME NEW p \in Plans, NEW n \in Names, Scan!CancelPlan(p, n) PROVE ScanInv'
    BY <1>6 DEF Scan!CancelPlan
  <1>7. ASSUME NEW n \in Names, Scan!DropTable(n) PROVE ScanInv'
    BY <1>7 DEF Scan!DropTable
  <1>8. ASSUME NEW n \in Names, NEW t \in Tables, Scan!CreateTable(n, t) PROVE ScanInv'
    <2>1. \A u : u \notin {t, None} => (Scan!Exists(u) <=> Scan!Exists(u)')
      BY <1>8 DEF Scan!CreateTable
    <2> QED  BY <1>8, <2>1 DEF Scan!CreateTable
  <1>9. ASSUME NEW m \in Names, NEW n \in Names, Scan!RenameTable(m, n) PROVE ScanInv'
    BY <1>9 DEF Scan!RenameTable
  <1>10. ASSUME NEW p \in Plans, Scan!UpdateLate(p) PROVE ScanInv'
    BY <1>10 DEF Scan!UpdateLate
  <1> QED
    BY <1>1, <1>2, <1>3, <1>4, <1>5, <1>6, <1>7, <1>8, <1>9, <1>10 DEF Scan!Submit, Scan!Others

----------------------------------------------------------------------------
(***************************************************************************)
(* The composition                                                         *)
(***************************************************************************)
IndInv == ElectionInv /\ ScanInv

\* A step is a task, another step of a node or a request; none of them reaches
\* into the state of the other component except the task that cleans up.
LEMMA IndStep == IndInv /\ [Next]_vars => IndInv'
  <1> SUFFICES ASSUME IndInv, [Next]_vars PROVE IndInv'
    OBVIOUS
  <1> USE DEF IndInv
  <1>1. UNCHANGED electionVars => ElectionInv'
    BY DEF electionVars, ElectionInv, Election!ElectionTypeOK, Election!LeadersHoldTheLock
  <1>2. UNCHANGED scanVars => ScanInv'
    BY DEF scanVars, ScanInv, Scan!ScanTypeOK, OneNamePerTable, StageTellsPlan, Scan!Exists,
           Scan!Found, Scan!KnownPlansAreServed, Scan!CancelledStaysCancelled
  <1>3. CASE UNCHANGED vars
    BY <1>1, <1>2, <1>3 DEF vars
  <1>4. CASE Requests
    BY <1>1, <1>4, ScanStep DEF Requests
  <1>5. ASSUME NEW n \in Nodes, NEW t \in Tasks, RunTask(n, t) PROVE IndInv'
    BY <1>2, <1>5, ElectionStep, ScanStep DEF RunTask
  <1>6. ASSUME NEW n \in Nodes, Background(n) PROVE IndInv'
    BY <1>2, <1>5, <1>6, ElectionStep DEF Background
  <1> QED  BY <1>3, <1>4, <1>6 DEF Next

\* The inductive invariant: the two of the components.
THEOREM Invariance == Spec => []IndInv
  <1>1. Init => IndInv
    BY ElectionInit, ScanInit DEF Init, IndInv
  <1> QED  BY <1>1, IndStep, PTL DEF Spec

\* Every variable has its type (election.go, tasks.go, scan.go).
THEOREM TypeCorrect == Spec => []TypeOK
  <1>1. IndInv => TypeOK
    BY DEF IndInv, ElectionInv, ScanInv, TypeOK
  <1> QED  BY <1>1, Invariance, PTL

\* A node that takes itself for the leader and whose session has not ended holds
\* the advisory lock, whatever nodes stop, crash, restart and release.
THEOREM LeadersAreLockHolders == Spec => []LeadersHoldTheLock
  <1>1. IndInv => LeadersHoldTheLock
    BY DEF IndInv, ElectionInv, LeadersHoldTheLock
  <1> QED  BY <1>1, Invariance, PTL

\* At most one node leads on the strength of a live session.
THEOREM OneLiveLeader ==
    Spec => [](\A m, n \in Nodes :
                 believes[m] /\ ~lost[m] /\ believes[n] /\ ~lost[n] => m = n)
  <1>1. LeadersHoldTheLock =>
          \A m, n \in Nodes : believes[m] /\ ~lost[m] /\ believes[n] /\ ~lost[n] => m = n
    BY DEF LeadersHoldTheLock, Election!LeadersHoldTheLock
  <1> QED  BY <1>1, LeadersAreLockHolders, PTL

\* The cleanup on whatever nodes take themselves for the leader, renames, drops
\* and late INSERTs never hide a plan whose id a client has before its hour.
THEOREM PlansAreServed == Spec => []KnownPlansAreServed
  <1>1. IndInv => KnownPlansAreServed
    BY DEF IndInv, ScanInv, KnownPlansAreServed
  <1> QED  BY <1>1, Invariance, PTL

\* A plan whose cancellation was answered is never reported as anything else, unless
\* the connection broke on the UPDATE of SubmitScanPlan, which may come late then.
THEOREM CancellationIsFinal == Spec => []CancelledStaysCancelled
  <1>1. IndInv => CancelledStaysCancelled
    BY DEF IndInv, ScanInv, CancelledStaysCancelled
  <1> QED  BY <1>1, Invariance, PTL
=============================================================================
