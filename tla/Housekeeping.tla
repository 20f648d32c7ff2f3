---------------------------- MODULE Housekeeping ----------------------------
(***************************************************************************)
(* The background tasks at work (tasks.go): the runner of every node       *)
(* executes cleanup_expired_scan_plans when it takes itself for the        *)
(* leader, while clients submit and cancel plans.  It composes             *)
(* LeaderElection, whose Run is the moment of a task's statement, with     *)
(* ScanPlans, which says what that statement does.                         *)
(***************************************************************************)
EXTENDS Naturals

CONSTANTS Nodes, Tasks, MaxFaults, MaxHolds, Plans, Names, Tables, InitialTables, None

PlanTask == "cleanup_expired_scan_plans"

ASSUME HousekeepingAssumption ==
    /\ MaxFaults \in Nat /\ MaxHolds \in Nat \ {0}
    /\ PlanTask \in Tasks
    /\ InitialTables \in [Names -> Tables \cup {None}] /\ None \notin Tables
    /\ \A m, n \in Names : InitialTables[m] = InitialTables[n] => m = n \/ InitialTables[n] = None
    /\ None \notin Nodes /\ None \notin {"pending", "completed", "cancelled"}

VARIABLES holder, holds, believes, lost, phase, task, faults,
          tables, stage, target, plans, late, expired, cancelled

Election == INSTANCE LeaderElection
Scan == INSTANCE ScanPlans

electionVars == <<holder, holds, believes, lost, phase, task, faults>>

scanVars == <<tables, stage, target, plans, late, expired, cancelled>>

vars == <<electionVars, scanVars>>

Init == Election!Init /\ Scan!Init

\* task.Run of each entry of DefaultTasks; the others do not touch scan_plans.
RunTask(n, t) ==
    /\ Election!Run(n, t)
    /\ \/ t = PlanTask /\ Scan!CleanupExpiredScanPlans
       \/ t # PlanTask /\ UNCHANGED scanVars

Background(n) ==
    \/ \E t \in Tasks : RunTask(n, t)
    \/ /\ \/ \E t \in Tasks : Election!Goroutine(n, t)
          \/ Election!Process(n)
          \/ Election!Retire(n)
       /\ UNCHANGED scanVars

Requests ==
    /\ Scan!Others \/ \E p \in Plans : Scan!Submit(p)
    /\ UNCHANGED electionVars

Next == Requests \/ \E n \in Nodes : Background(n)

\* Tickers fire, statements end, and a select whose context is cancelled does not
\* choose its ticker for ever; a process that has stopped its runner ends; a
\* connection reaches its maximal lifetime (conn_max_lifetime).
Fairness ==
    /\ \A n \in Nodes : \A t \in Tasks :
         /\ WF_vars(\/ RunTask(n, t)
                    \/ (Election!TryAcquire(n, t) \/ Election!RunFails(n, t)) /\ UNCHANGED scanVars)
         /\ SF_vars(Election!Leave(n, t) /\ UNCHANGED scanVars)
    /\ \A n \in Nodes :
         /\ WF_vars(Election!Exit(n) /\ UNCHANGED scanVars)
         /\ WF_vars(Election!Retire(n) /\ UNCHANGED scanVars)

Spec == Init /\ [][Next]_vars /\ Fairness

----------------------------------------------------------------------------
\* Every variable has its type.
TypeOK == Election!ElectionTypeOK /\ Scan!ScanTypeOK

\* See LeaderElection and ScanPlans.
LeadersHoldTheLock == Election!LeadersHoldTheLock
StopReturns == Election!StopReturns
KnownPlansAreServed == Scan!KnownPlansAreServed
CancelledStaysCancelled == Scan!CancelledStaysCancelled

\* A plan that has expired is deleted, whichever nodes stop, crash, lose their
\* connection or release the lock on another one than they took it on, as long
\* as a node is there to do it.
ExpiredPlansGo ==
    \A p \in Plans : p \in expired ~> plans[p] = None \/ \A n \in Nodes : phase[n] # "up"
=============================================================================
