--------------------------- MODULE LeaderElection ---------------------------
(***************************************************************************)
(* The election of a leader by a PostgreSQL advisory lock (election.go)    *)
(* and the runner of the background tasks that depends on it (tasks.go).   *)
(* The lock belongs to a session, but the elector takes it on whatever     *)
(* connection of the pool it is given and remembers only that it has it.   *)
(*                                                                         *)
(* Abstractions.  Of the connections of a node's pool only the one that    *)
(* has the lock is told apart: a statement runs on it or on another, which *)
(* is a choice.  All tasks use LockKeyCleanup, as those of DefaultTasks    *)
(* do.  The mutex of the elector is held during its only statement, so     *)
(* that TryAcquire, Release and ReleaseAll are one step.                   *)
(* MaxFaults bounds how often a statement fails, a node is stopped or      *)
(* crashes, and Release is called; sessions may end any number of times.   *)
(***************************************************************************)
EXTENDS Naturals

CONSTANTS
    Nodes,    \* the processes
    Tasks,    \* the background tasks
    MaxFaults,
    MaxHolds, \* how often one session takes the lock
    None      \* no node

VARIABLES
    holder,   \* the node one of whose sessions has the advisory lock
    holds,    \* how often it has taken it
    believes, \* locks[LockKeyCleanup] of each node
    lost,     \* whether a node's session has ended since it took the lock
    phase,    \* whether a node runs, stops or is down
    task,     \* where the goroutine of each task of each node stands
    faults    \* how many faults there have been

Init ==
    /\ holder = None /\ holds = 0
    /\ believes = [n \in Nodes |-> FALSE]
    /\ lost = [n \in Nodes |-> FALSE]
    /\ phase = [n \in Nodes |-> "up"]
    /\ task = [n \in Nodes |-> [t \in Tasks |-> "wait"]]
    /\ faults = 0

Fault == faults < MaxFaults /\ faults' = faults + 1

Goto(n, t, l) == task' = [task EXCEPT ![n][t] = l]

----------------------------------------------------------------------------
(***************************************************************************)
(* The advisory lock                                                       *)
(***************************************************************************)
\* A defective variant: the answer of pg_try_advisory_lock is not looked at.
LockFreeAlways(n) == TRUE

\* pg_try_advisory_lock: a session may take its own lock again.
LockFree(n) == holder \in {None, n}

\* pg_advisory_unlock on the session that has the lock.  Any other session only
\* gets a warning, and so does this one when it has the lock no more.
Unlock(n) ==
    \/ /\ holder = n
       /\ holds' = holds - 1
       /\ holder' = IF holds = 1 THEN None ELSE holder
    \/ UNCHANGED <<holder, holds>>

\* The session that has the lock ends.
EndSession(n) ==
    \/ holder = n /\ holder' = None /\ holds' = 0
    \/ holder # n /\ UNCHANGED <<holder, holds>>

\* It reaches its maximal lifetime, is idle for too long or breaks.
Retire(n) ==
    /\ holder = n
    /\ EndSession(n)
    /\ lost' = [lost EXCEPT ![n] = believes[n]]
    /\ UNCHANGED <<believes, phase, task, faults>>

----------------------------------------------------------------------------
(***************************************************************************)
(* executeTask                                                             *)
(***************************************************************************)
Running(n) == phase[n] # "down"

\* A defective variant: a lock that is held already is not granted again.
TryAcquireOnce(n, t) ==
    /\ Running(n) /\ task[n][t] = "wait"
    /\ ~believes[n] /\ phase[n] = "up" /\ LockFree(n) /\ holds < MaxHolds
    /\ holder' = n /\ holds' = holds + 1
    /\ believes' = [believes EXCEPT ![n] = TRUE]
    /\ lost' = [lost EXCEPT ![n] = FALSE]
    /\ Goto(n, t, "run")
    /\ UNCHANGED <<phase, faults>>

\* The ticker fires and TryAcquire is called.  A cancelled context, like any
\* other error, skips the task.
TryAcquire(n, t) ==
    /\ Running(n) /\ task[n][t] = "wait"
    /\ \/ /\ believes[n]
          /\ UNCHANGED <<holder, holds, believes, lost>>
       \/ /\ ~believes[n] /\ phase[n] = "up" /\ LockFree(n) /\ holds < MaxHolds
          /\ holder' = n /\ holds' = holds + 1
          /\ believes' = [believes EXCEPT ![n] = TRUE]
          /\ lost' = [lost EXCEPT ![n] = FALSE]
    /\ Goto(n, t, "run")
    /\ UNCHANGED <<phase, faults>>

\* The task's statement ends; its effect is the business of who composes this.
Run(n, t) ==
    /\ task[n][t] = "run"
    /\ Goto(n, t, "wait")
    /\ UNCHANGED <<holder, holds, believes, lost, phase, faults>>

RunFails(n, t) ==
    /\ task[n][t] = "run"
    /\ phase[n] = "up" => Fault
    /\ phase[n] # "up" => UNCHANGED faults
    /\ Goto(n, t, "wait")
    /\ UNCHANGED <<holder, holds, believes, lost, phase>>

\* A defective variant: the end is noticed only when TryAcquire fails.
LeaveOnError(n, t) ==
    /\ phase[n] = "stopping" /\ task[n][t] = "wait" /\ ~believes[n]
    /\ Goto(n, t, "done")
    /\ UNCHANGED <<holder, holds, believes, lost, phase, faults>>

\* ctx.Done() is noticed between two executions.
Leave(n, t) ==
    /\ phase[n] = "stopping" /\ task[n][t] = "wait"
    /\ Goto(n, t, "done")
    /\ UNCHANGED <<holder, holds, believes, lost, phase, faults>>

----------------------------------------------------------------------------
(***************************************************************************)
(* Release, the runner's Stop, and the process                             *)
(***************************************************************************)
\* Release and ReleaseAll, on any connection of the pool; an error of Release
\* leaves everything as it is, one of ReleaseAll only the lock.
Release(n) ==
    /\ Running(n) /\ believes[n] /\ Fault
    /\ Unlock(n)
    /\ believes' = [believes EXCEPT ![n] = FALSE]
    /\ lost' = [lost EXCEPT ![n] = FALSE]
    /\ UNCHANGED <<phase, task>>

\* Runner.Stop cancels the context ...
Stop(n) ==
    /\ phase[n] = "up" /\ Fault
    /\ phase' = [phase EXCEPT ![n] = "stopping"]
    /\ UNCHANGED <<holder, holds, believes, lost, task>>

\* The process ends, and its sessions with it.
GoDown(n) ==
    /\ EndSession(n)
    /\ believes' = [believes EXCEPT ![n] = FALSE]
    /\ lost' = [lost EXCEPT ![n] = FALSE]
    /\ phase' = [phase EXCEPT ![n] = "down"]
    /\ task' = [task EXCEPT ![n] = [t \in Tasks |-> "wait"]]

\* ... and waits for every goroutine; then the process ends.
Exit(n) ==
    /\ phase[n] = "stopping" /\ \A t \in Tasks : task[n][t] = "done"
    /\ GoDown(n)
    /\ UNCHANGED faults

Crash(n) == Running(n) /\ Fault /\ GoDown(n)

Restart(n) ==
    /\ phase[n] = "down"
    /\ phase' = [phase EXCEPT ![n] = "up"]
    /\ UNCHANGED <<holder, holds, believes, lost, task, faults>>

----------------------------------------------------------------------------
Goroutine(n, t) == TryAcquire(n, t) \/ RunFails(n, t) \/ Leave(n, t)

Process(n) == Release(n) \/ Stop(n) \/ Exit(n) \/ Crash(n) \/ Restart(n)

ElectionTypeOK ==
    /\ holder \in Nodes \cup {None} /\ holds \in 0..MaxHolds
    /\ (holder = None) <=> (holds = 0)
    /\ believes \in [Nodes -> BOOLEAN] /\ lost \in [Nodes -> BOOLEAN]
    /\ phase \in [Nodes -> {"up", "stopping", "down"}]
    /\ task \in [Nodes -> [Tasks -> {"wait", "run", "done"}]]
    /\ faults \in 0..MaxFaults

\* A node that takes itself for the leader holds the lock on one of its own
\* connections, or has had that connection end since, which is how two leaders
\* come about; in particular no two nodes lead on the strength of live sessions.
LeadersHoldTheLock ==
    \A n \in Nodes : believes[n] /\ ~lost[n] => holder = n

\* Stop returns, although tasks are under way and tickers go on firing.
StopReturns == \A n \in Nodes : phase[n] = "stopping" ~> phase[n] = "down"
=============================================================================
