----------------------------- MODULE ScanPlans -----------------------------
(***************************************************************************)
(* Server-side scan plans (scan.go): SubmitScanPlan statement by statement,*)
(* against the cancellation of plans, tables that are dropped, recreated   *)
(* and renamed, and plans that expire.  GetScanPlan and FetchPlanTasks     *)
(* only read.                                                              *)
(*                                                                         *)
(* Abstractions.  A plan has the name of the request that submits it.  Its *)
(* hour has passed or has not.  The id of a new table is one that nothing  *)
(* refers to, since ids are never used twice.  The statements of other     *)
(* requests are environment steps.                                         *)
(***************************************************************************)
EXTENDS Naturals

CONSTANTS
    Plans,  \* the requests for a plan
    Names,  \* the names of tables
    Tables, \* the ids that tables may have
    InitialTables, \* the table of each name at first, if any
    None    \* NULL

VARIABLES
    tables,   \* the table of each name
    stage,    \* where each SubmitScanPlan stands
    target,   \* the table that it has found
    plans,    \* scan_plans
    late,     \* the plans whose UPDATE was cut off from its request
    expired,  \* the plans whose hour has passed
    cancelled \* the plans whose cancellation was answered by 204

Init ==
    /\ tables = InitialTables
    /\ stage = [p \in Plans |-> "new"]
    /\ target = [p \in Plans |-> None]
    /\ plans = [p \in Plans |-> None]
    /\ late = {} /\ expired = {} /\ cancelled = {}

Exists(t) == \E n \in Names : tables[n] = t

----------------------------------------------------------------------------
\* A defective variant: the row that is missing is not noticed.
GetTableUnchecked(p, n) ==
    /\ stage[p] = "new"
    /\ target' = [target EXCEPT ![p] = tables[n]]
    /\ stage' = [stage EXCEPT ![p] = "insert"]
    /\ UNCHANGED <<tables, plans, late, expired, cancelled>>

\* SELECT t.id; 404 if there is none.
GetTable(p, n) ==
    /\ stage[p] = "new"
    /\ target' = [target EXCEPT ![p] = tables[n]]
    /\ stage' = [stage EXCEPT ![p] = IF tables[n] = None THEN "over" ELSE "insert"]
    /\ UNCHANGED <<tables, plans, late, expired, cancelled>>

\* INSERT INTO scan_plans; the foreign key fails if the table is gone by now.
InsertPlan(p) ==
    /\ stage[p] = "insert"
    /\ \/ /\ Exists(target[p])
          /\ plans' = [plans EXCEPT ![p] = "pending"]
          /\ stage' = [stage EXCEPT ![p] = "complete"]
       \/ /\ stage' = [stage EXCEPT ![p] = "over"]
          /\ UNCHANGED plans
    /\ UNCHANGED <<tables, target, late, expired, cancelled>>

\* A defective variant: the UPDATE comes after the answer.
CompletePlanAfterAnswer(p) ==
    /\ \/ stage[p] = "complete" /\ UNCHANGED plans
       \/ stage[p] = "known" /\ plans[p] # None /\ plans' = [plans EXCEPT ![p] = "completed"]
    /\ stage' = [stage EXCEPT ![p] = "known"]
    /\ UNCHANGED <<tables, target, late, expired, cancelled>>

\* The UPDATE, whose error is ignored, and the answer, from which the client
\* learns the id; or the process ends between the two.  An UPDATE that seems to
\* have failed may be with PostgreSQL, if only its connection broke.
CompletePlan(p) ==
    /\ stage[p] = "complete"
    /\ \/ /\ plans' = [plans EXCEPT ![p] = IF @ = None THEN None ELSE "completed"]
          /\ UNCHANGED late
       \/ late' \in {late, late \cup {p}} /\ UNCHANGED plans
    /\ \E next \in {"known", "over"} : stage' = [stage EXCEPT ![p] = next]
    /\ UNCHANGED <<tables, target, expired, cancelled>>

\* PostgreSQL executes such an UPDATE when it gets to it.
UpdateLate(p) ==
    /\ p \in late /\ plans[p] \in {"pending", "cancelled"}
    /\ plans' = [plans EXCEPT ![p] = "completed"]
    /\ UNCHANGED <<tables, stage, target, late, expired, cancelled>>

\* What GetScanPlan and FetchPlanTasks find under the name of a table.
Found(p, n) == stage[p] = "known" /\ plans[p] # None /\ tables[n] = target[p]

\* CancelScanPlan updates a plan that is pending; 404 for any other.
CancelPlan(p, n) ==
    /\ Found(p, n) /\ plans[p] = "pending"
    /\ plans' = [plans EXCEPT ![p] = "cancelled"]
    /\ cancelled' = cancelled \cup {p}
    /\ UNCHANGED <<tables, stage, target, late, expired>>

\* An hour after it was made.
Expire(p) ==
    /\ plans[p] # None /\ p \notin expired
    /\ expired' = expired \cup {p}
    /\ UNCHANGED <<tables, stage, target, plans, late, cancelled>>

\* A defective variant: a plan that is completed goes as well.
CleanupFinishedScanPlans ==
    /\ plans' = [p \in Plans |-> IF p \in expired \/ plans[p] # "pending" THEN None ELSE plans[p]]
    /\ UNCHANGED <<tables, stage, target, late, expired, cancelled>>

\* DELETE FROM scan_plans WHERE expires_at < NOW()
CleanupExpiredScanPlans ==
    /\ plans' = [p \in Plans |-> IF p \in expired THEN None ELSE plans[p]]
    /\ UNCHANGED <<tables, stage, target, late, expired, cancelled>>

----------------------------------------------------------------------------
\* Other requests: a table is created; one is dropped, with its plans (ON DELETE
\* CASCADE); one is renamed, and its plans go with it.
CreateTable(n, t) ==
    /\ tables[n] = None /\ ~Exists(t) /\ \A p \in Plans : target[p] # t
    /\ tables' = [tables EXCEPT ![n] = t]
    /\ UNCHANGED <<stage, target, plans, late, expired, cancelled>>

DropTable(n) ==
    /\ tables[n] # None
    /\ tables' = [tables EXCEPT ![n] = None]
    /\ plans' = [p \in Plans |-> IF target[p] = tables[n] THEN None ELSE plans[p]]
    /\ UNCHANGED <<stage, target, late, expired, cancelled>>

RenameTable(m, n) ==
    /\ tables[m] # None /\ tables[n] = None
    /\ tables' = [tables EXCEPT ![m] = None, ![n] = tables[m]]
    /\ UNCHANGED <<stage, target, plans, late, expired, cancelled>>

Submit(p) == InsertPlan(p) \/ CompletePlan(p) \/ \E n \in Names : GetTable(p, n)

Others ==
    \/ \E p \in Plans : Expire(p) \/ UpdateLate(p) \/ \E n \in Names : CancelPlan(p, n)
    \/ \E n \in Names : DropTable(n) \/ (\E t \in Tables : CreateTable(n, t))
    \/ \E m, n \in Names : RenameTable(m, n)

----------------------------------------------------------------------------
ScanTypeOK ==
    /\ tables \in [Names -> Tables \cup {None}]
    /\ stage \in [Plans -> {"new", "insert", "complete", "known", "over"}]
    /\ target \in [Plans -> Tables \cup {None}]
    /\ plans \in [Plans -> {"pending", "completed", "cancelled", None}]
    /\ late \subseteq Plans /\ expired \subseteq Plans /\ cancelled \subseteq Plans
    /\ \A p \in Plans : stage[p] \in {"insert", "complete", "known"} => target[p] # None

\* A plan whose id the client was given is found under the name that its table
\* has by now, until its hour has passed or the table is dropped: neither a
\* rename nor the cleanup on a node takes it before.  No plan outlives its table,
\* one that is inserted after the table was dropped included.
KnownPlansAreServed ==
    \A p \in Plans :
      /\ stage[p] = "known" =>
           p \in expired \/ ~Exists(target[p]) \/ \E n \in Names : Found(p, n)
      /\ plans[p] # None => Exists(target[p])

\* A cancellation that was answered by 204 is final: the request that submits a
\* plan still writes its status after the INSERT, but never over a cancellation,
\* unless the connection broke on that UPDATE, whose error SubmitScanPlan ignores.
CancelledStaysCancelled ==
    \A p \in cancelled \ late : plans[p] \in {"cancelled", None}
=============================================================================
