---------------------------- MODULE TableCommit ----------------------------
(***************************************************************************)
(* The commit path of the catalog: CommitTable, CommitTransaction,         *)
(* DropTable, RenameTable and CreateTable as they run concurrently against *)
(* the rows of the PostgreSQL table "tables" (internal/api/handlers/       *)
(* table.go and transaction.go over internal/db/lock.go).                  *)
(*                                                                         *)
(* Each client has one request; its handler is a process whose steps are   *)
(* the statements it sends to PostgreSQL, each with the local computation  *)
(* that follows it.  Between two statements anything may happen: another   *)
(* handler's statement, a failing statement, the death of the handler's    *)
(* process.                                                                *)
(*                                                                         *)
(* Abstractions.  A snapshot id is the client that adds it, so the         *)
(* metadata of a table is the set of its snapshots, its "main" ref and     *)
(* what its metadata location tells one commit from another by: the        *)
(* millisecond in its name.  The table's uuid is its row.  The namespace   *)
(* is part of the name.                                                    *)
(*                                                                         *)
(* Some definitions are preceded by a variant that no action uses: the     *)
(* same code with a plausible mistake, which the properties must catch.    *)
(***************************************************************************)
EXTENDS Integers, Sequences, FiniteSets

CONSTANTS
    Clients,       \* clients of the catalog, one request each
    Names,         \* qualified table names
    Rows,          \* row ids (table uuids) that "tables" may ever hold
    InitialName,   \* the name of each row at the start, None if not created
    Requests,      \* the requests that clients may send
    MaxRetries,    \* LockConfig.MaxRetries
    MaxSubmits,    \* how often a client sends its request
    Stamps,        \* readings of time.Now().UnixMilli(), in no order: the
                   \* nodes have clocks of their own, and two commits may
                   \* fall into one millisecond
    None,          \* no row, no name, no snapshot, no lock holder
    Unchecked      \* no requirement on a uuid or on a ref

Snapshots == Clients \cup {None}

\* One element of table-changes: the table, its assert-table-uuid and its
\* assert-ref-snapshot-id on main (None asserts that main does not exist).
Change == [name : Names, uuid : Rows \cup {Unchecked}, main : Snapshots \cup {Unchecked}]

\* updates: "append" is add-snapshot followed by set-snapshot-ref main,
\* "expire" is remove-snapshot-ref main with remove-snapshots of every id,
\* "touch" leaves snapshots and refs alone, "invalid" makes the update
\* processor fail.
Request == [kind    : {"commit", "txn", "drop", "rename", "create"},
            changes : Seq(Change),
            update  : {"append", "expire", "touch", "invalid"},
            to      : Names]

\* The name of a metadata location is 00001, the millisecond and the table's
\* uuid (getMetadataVersion is always 0), so within a table it is the
\* millisecond; None is the name 00000-... that CreateTable gives.  "commits"
\* is a history field: how many commits the row has seen.
Metadata == [snapshots : SUBSET Clients, main : Snapshots,
             location : Stamps \cup {None}, commits : Nat]

\* What CreateTable writes: no snapshots, no refs, the first location.
NewMetadata == [snapshots |-> {}, main |-> None, location |-> None, commits |-> 0]

ASSUME ConstantsAssumption ==
    /\ MaxRetries \in Nat
    /\ MaxSubmits \in Nat \ {0}

ASSUME NullsAssumption ==
    /\ None \notin Clients \cup Names \cup Rows
    /\ Unchecked \notin Clients \cup Rows \cup {None}

ASSUME RequestsAssumption ==
    /\ Requests \subseteq Request
    /\ \A q \in Requests :
          /\ Len(q.changes) >= 1
          /\ q.kind # "txn" => Len(q.changes) = 1

ASSUME InitialNameAssumption ==
    /\ InitialName \in [Rows -> Names \cup {None}]
    /\ \A r, s \in Rows :
          InitialName[r] = InitialName[s] /\ InitialName[r] # None => r = s

VARIABLES
    \* PostgreSQL: the committed rows of "tables" and "commit_log", and the
    \* row locks of the open transactions
    rowName,       \* name of a row, None before its INSERT and after its DELETE
    born,          \* rows that have been inserted
    meta,          \* metadata and metadata_location of a row
    commitLog,     \* commit_log entries, with history fields
    lock,          \* the client whose transaction holds a row lock
    \* the handlers
    pc,            \* where the handler of a client is
    req,           \* its request
    submits,       \* how many times the client sent it
    attempt,       \* attempt of the WithLock loop
    idx,           \* index of the table change being worked on
    target,        \* the row its statement works on
    seen,          \* the metadata it read
    commitErr,     \* commitErr / txErr, the business error
    dbErr,         \* the error WithLock returns
    aborted,       \* PostgreSQL has put the transaction in the failed state
    answer,        \* the status code, "lost" when the process died
    committed      \* history: this submission is durable, and its
                   \* handler had no business error

rowVars == <<rowName, born, meta, commitLog>>
workVars == <<idx, target, seen>>
errVars == <<commitErr, dbErr, aborted>>
clientVars == <<req, submits, answer>>
vars == <<rowName, born, meta, commitLog, lock, pc, req, submits, attempt, idx,
          target, seen, commitErr, dbErr, aborted, answer, committed>>

Init ==
    /\ rowName = InitialName
    /\ born = {r \in Rows : InitialName[r] # None}
    /\ meta = [r \in Rows |-> NewMetadata]
    /\ commitLog = {}
    /\ lock = [r \in Rows |-> None]
    /\ pc = [c \in Clients |-> "idle"]
    /\ req \in [Clients -> Requests]
    /\ submits = [c \in Clients |-> 0]
    /\ attempt = [c \in Clients |-> 0]
    /\ idx = [c \in Clients |-> 1]
    /\ target = [c \in Clients |-> None]
    /\ seen = [c \in Clients |-> NewMetadata]
    /\ commitErr = [c \in Clients |-> "none"]
    /\ dbErr = [c \in Clients |-> "none"]
    /\ aborted = [c \in Clients |-> FALSE]
    /\ answer = [c \in Clients |-> "none"]
    /\ committed = [c \in Clients |-> FALSE]

----------------------------------------------------------------------------
(***************************************************************************)
(* Reading a request                                                       *)
(***************************************************************************)
Kind(c) == req[c].kind

\* The table change the handler works on.
Cur(c) == req[c].changes[idx[c]]

\* CommitTable and CommitTransaction run inside WithLock; the other handlers
\* send single statements that commit by themselves.
Locking(c) == Kind(c) \in {"commit", "txn"}

\* The rows a statement that looks a name up finds in its snapshot.
RowsNamed(n) == {r \in Rows : rowName[r] = n}

\* UNIQUE(namespace_id, name), for a statement that works on the rows own.
NameFree(n, own) == RowsNamed(n) \subseteq own

(***************************************************************************)
(* validateRequirement over all the requirements of a change.  The other   *)
(* assertions compare further fields of the same metadata, as that on main *)
(* does; assert-create, assert-last-assigned-partition-id and types that   *)
(* the code does not know are accepted on every table, so a change that    *)
(* makes only such assertions is an Unchecked one.                         *)
(***************************************************************************)
RequirementsHoldNoUuid(ch, r, m) == ch.main \in {Unchecked, m.main}

RequirementsHold(ch, r, m) ==
    /\ ch.uuid \in {Unchecked, r}
    /\ ch.main \in {Unchecked, m.main}

(***************************************************************************)
(* updates.NewProcessor(metadata).Apply: whether it fails, and the         *)
(* metadata it yields.  add-snapshot refuses an id that the table has, but *)
(* accepts one that it had until remove-snapshots took it out.  An         *)
(* "expire" does not fail: the ref goes before the snapshots, and ids that *)
(* the table does not have are ignored.  The handler writes a new metadata *)
(* location, at millisecond t, even without updates.                       *)
(***************************************************************************)
UpdateFailsAcceptsDuplicates(c, m) == req[c].update = "invalid"

UpdateFails(c, m) ==
    \/ req[c].update = "invalid"
    \/ req[c].update = "append" /\ c \in m.snapshots

Updated(c, m, t) ==
    [snapshots |-> CASE req[c].update = "append" -> m.snapshots \cup {c}
                     [] req[c].update = "expire" -> {}
                     [] OTHER                    -> m.snapshots,
     main      |-> CASE req[c].update = "append" -> c
                     [] req[c].update = "expire" -> None
                     [] OTHER                    -> m.main,
     location  |-> t,
     commits   |-> m.commits + 1]

(***************************************************************************)
(* PostgreSQL: the end of a transaction, by COMMIT, by the deferred        *)
(* ROLLBACK, by an error or by the loss of the connection, gives its row   *)
(* locks back.                                                             *)
(***************************************************************************)
ReleaseForgotten(c) == UNCHANGED lock

Release(c) == lock' = [r \in Rows |-> IF lock[r] = c THEN None ELSE lock[r]]

\* FOR UPDATE, DELETE and UPDATE wait while another transaction has the row.
LockGrantedNoForUpdate(c) == TRUE

LockGranted(c) == lock[target[c]] \in {None, c}

\* READ COMMITTED re-evaluates WHERE on the row a statement has waited for.
StillNamedNoRecheck(c) == TRUE

StillNamed(c) == rowName[target[c]] = Cur(c).name

\* The loop condition of WithLock: attempt <= cfg.MaxRetries for the next one.
MayRetry(c) == attempt[c] < MaxRetries

Goto(c, l) == pc' = [pc EXCEPT ![c] = l]

----------------------------------------------------------------------------
(***************************************************************************)
(* The client                                                              *)
(***************************************************************************)

\* A client sends its request; its handler parses it.
Submit(c) ==
    /\ pc[c] = "idle"
    /\ submits' = [submits EXCEPT ![c] = 1]
    /\ Goto(c, "begin")
    /\ UNCHANGED <<rowVars, lock, req, attempt, workVars, errVars, answer,
                   committed>>

\* A client that cannot tell what became of its request, or that was told to
\* try again, sends the same request again.
Resubmit(c) ==
    /\ pc[c] = "answered"
    /\ \/ answer[c] \in {"500", "lost"}
       \/ answer[c] = "409" /\ dbErr[c] = "lock_timeout"
    /\ submits[c] < MaxSubmits
    /\ submits' = [submits EXCEPT ![c] = @ + 1]
    /\ attempt' = [attempt EXCEPT ![c] = 0]
    /\ idx' = [idx EXCEPT ![c] = 1]
    /\ target' = [target EXCEPT ![c] = None]
    /\ commitErr' = [commitErr EXCEPT ![c] = "none"]
    /\ dbErr' = [dbErr EXCEPT ![c] = "none"]
    /\ aborted' = [aborted EXCEPT ![c] = FALSE]
    /\ answer' = [answer EXCEPT ![c] = "none"]
    /\ committed' = [committed EXCEPT ![c] = FALSE]
    /\ Goto(c, "begin")
    /\ UNCHANGED <<rowVars, lock, req, seen>>

----------------------------------------------------------------------------
(***************************************************************************)
(* WithLock, executeWithLock and the function they run                     *)
(***************************************************************************)

\* BEGIN; SET LOCAL lock_timeout.
Begin(c) ==
    /\ pc[c] = "begin" /\ Locking(c)
    /\ idx' = [idx EXCEPT ![c] = 1]
    /\ Goto(c, "query")
    /\ UNCHANGED <<rowVars, lock, clientVars, attempt, target, seen, errVars,
                   committed>>

\* SELECT ... FOR UPDATE takes its snapshot: the row with that name, or
\* ErrNoRows, which ends the function with a business error.
Query(c) ==
    /\ pc[c] = "query"
    /\ \/ \E r \in RowsNamed(Cur(c).name) :
             /\ target' = [target EXCEPT ![c] = r]
             /\ Goto(c, "wait")
             /\ UNCHANGED commitErr
       \/ /\ RowsNamed(Cur(c).name) = {}
          /\ commitErr' = [commitErr EXCEPT ![c] = "not_found"]
          /\ Goto(c, "commit")
          /\ UNCHANGED target
    /\ UNCHANGED <<rowVars, lock, clientVars, attempt, idx, seen, dbErr,
                   aborted, committed>>

\* The lock is granted, but the row was deleted or renamed since the
\* statement's snapshot: READ COMMITTED re-evaluates it and drops it.
AcquireGone(c) ==
    /\ pc[c] = "wait" /\ LockGranted(c)
    /\ ~StillNamed(c)
    /\ lock' = IF rowName[target[c]] = None THEN lock
               ELSE [lock EXCEPT ![target[c]] = c]
    /\ commitErr' = [commitErr EXCEPT ![c] = "not_found"]
    /\ Goto(c, "commit")
    /\ UNCHANGED <<rowVars, clientVars, attempt, workVars, dbErr, aborted,
                   committed>>

\* The lock is granted and the latest row is read; a requirement or, in
\* CommitTable, an update fails: a business error, not retried.
AcquireRejected(c) ==
    /\ pc[c] = "wait" /\ LockGranted(c)
    /\ StillNamed(c)
    /\ lock' = [lock EXCEPT ![target[c]] = c]
    /\ LET m == meta[target[c]]
           ok == RequirementsHold(Cur(c), target[c], m)
       IN  \/ /\ ~ok
              /\ commitErr' = [commitErr EXCEPT ![c] = "requirement_failed"]
           \/ /\ ok /\ Kind(c) = "commit" /\ UpdateFails(c, m)
              /\ commitErr' = [commitErr EXCEPT ![c] = "update_failed"]
    /\ Goto(c, "commit")
    /\ UNCHANGED <<rowVars, clientVars, attempt, workVars, dbErr, aborted,
                   committed>>

\* CommitTable has the lock, the latest metadata and no objection.
AcquireTable(c) ==
    /\ pc[c] = "wait" /\ Kind(c) = "commit" /\ LockGranted(c)
    /\ StillNamed(c)
    /\ RequirementsHold(Cur(c), target[c], meta[target[c]])
    /\ ~UpdateFails(c, meta[target[c]])
    /\ lock' = [lock EXCEPT ![target[c]] = c]
    /\ seen' = [seen EXCEPT ![c] = meta[target[c]]]
    /\ Goto(c, "update")
    /\ UNCHANGED <<rowVars, clientVars, attempt, idx, target, errVars, committed>>

\* commitTableInTx returns the current state of the table: the updates of
\* the change are not applied.  The loop goes on with the next change.
AcquireInTx(c) ==
    /\ pc[c] = "wait" /\ Kind(c) = "txn" /\ LockGranted(c)
    /\ StillNamed(c)
    /\ RequirementsHold(Cur(c), target[c], meta[target[c]])
    /\ lock' = [lock EXCEPT ![target[c]] = c]
    /\ \/ /\ idx[c] < Len(req[c].changes)
          /\ idx' = [idx EXCEPT ![c] = @ + 1]
          /\ Goto(c, "query")
       \/ /\ idx[c] = Len(req[c].changes)
          /\ Goto(c, "commit")
          /\ UNCHANGED idx
    /\ UNCHANGED <<rowVars, clientVars, attempt, target, seen, errVars, committed>>

\* lock_timeout expires in CommitTable (55P03): the transaction is rolled
\* back; WithLock tries again unless this was the last attempt.
LockTimesOut(c) ==
    /\ pc[c] = "wait" /\ Kind(c) = "commit" /\ ~LockGranted(c)
    /\ Release(c)
    /\ \/ /\ MayRetry(c)
          /\ attempt' = [attempt EXCEPT ![c] = @ + 1]
          /\ Goto(c, "retry")
          /\ UNCHANGED dbErr
       \/ /\ ~MayRetry(c)
          /\ dbErr' = [dbErr EXCEPT ![c] = "lock_timeout"]
          /\ Goto(c, "reply")
          /\ UNCHANGED attempt
    /\ UNCHANGED <<rowVars, clientVars, workVars, commitErr, aborted, committed>>

\* lock_timeout expires in CommitTransaction, or PostgreSQL picks it as the
\* victim of a deadlock: commitTableInTx wraps the error in a fiber.Error,
\* which CommitTransaction takes for a business error.
LockTimesOutInTx(c) ==
    /\ pc[c] = "wait" /\ Kind(c) = "txn" /\ ~LockGranted(c)
    /\ Release(c)
    /\ aborted' = [aborted EXCEPT ![c] = TRUE]
    /\ commitErr' = [commitErr EXCEPT ![c] = "lock_timeout"]
    /\ Goto(c, "commit")
    /\ UNCHANGED <<rowVars, clientVars, attempt, workVars, dbErr, committed>>

\* time.After(RetryInterval) ends the wait before the next attempt.
RetryElapsed(c) ==
    /\ pc[c] = "retry"
    /\ Goto(c, "begin")
    /\ UNCHANGED <<rowVars, lock, clientVars, attempt, workVars, errVars, committed>>

\* ctx.Done() ends it instead: the server shuts down.
RetryCancelled(c) ==
    /\ pc[c] = "retry"
    /\ dbErr' = [dbErr EXCEPT ![c] = "cancelled"]
    /\ Goto(c, "reply")
    /\ UNCHANGED <<rowVars, lock, clientVars, attempt, workVars, commitErr,
                   aborted, committed>>

\* UPDATE tables SET metadata_location, metadata: uncommitted, and invisible
\* to others, until COMMIT.
UpdateRow(c) ==
    /\ pc[c] = "update"
    /\ Goto(c, "log")
    /\ UNCHANGED <<rowVars, lock, clientVars, attempt, workVars, errVars, committed>>

\* INSERT INTO commit_log; its error is dropped by the handler, but not by
\* PostgreSQL, which aborts the transaction.
InsertLog(c) ==
    /\ pc[c] = "log"
    /\ Goto(c, "commit")
    /\ UNCHANGED <<rowVars, lock, clientVars, attempt, workVars, errVars, committed>>

InsertLogFails(c) ==
    /\ pc[c] = "log"
    /\ Release(c)
    /\ aborted' = [aborted EXCEPT ![c] = TRUE]
    /\ Goto(c, "commit")
    /\ UNCHANGED <<rowVars, clientVars, attempt, workVars, commitErr, dbErr, committed>>

\* The commit_log entry.  "nth" is its place among the entries of its table:
\* their ids come from a sequence and are drawn under the row lock.  "by" and
\* "on" (the snapshot the commit replaced as main) are history fields.
LogEntryOldLocation(c, t) ==
    [row |-> target[c], nth |-> seen[c].commits + 1, location |-> seen[c].location,
     by |-> c, on |-> seen[c].main]

LogEntry(c, t) ==
    [row |-> target[c], nth |-> seen[c].commits + 1, location |-> t,
     by |-> c, on |-> seen[c].main]

\* What COMMIT makes durable, of a commit whose handler read its clock as t.
Install(c, t) ==
    /\ committed' = [committed EXCEPT ![c] = (commitErr[c] = "none")]
    /\ IF Kind(c) = "commit" /\ commitErr[c] = "none"
       THEN /\ meta' = [meta EXCEPT ![target[c]] = Updated(c, seen[c], t)]
            /\ commitLog' = commitLog \cup {LogEntry(c, t)}
       ELSE UNCHANGED <<meta, commitLog>>

\* COMMIT succeeds.  If the acknowledgement is lost the handler sees an error
\* although the transaction is durable.
Commit(c) ==
    /\ pc[c] = "commit" /\ ~aborted[c]
    /\ \E t \in Stamps : Install(c, t)
    /\ Release(c)
    /\ \/ UNCHANGED dbErr
       \/ dbErr' = [dbErr EXCEPT ![c] = "system"]
    /\ Goto(c, "reply")
    /\ UNCHANGED <<rowName, born, clientVars, attempt, workVars, commitErr, aborted>>

\* COMMIT of an aborted transaction is a ROLLBACK, which pgx reports as an
\* error.
CommitAborted(c) ==
    /\ pc[c] = "commit" /\ aborted[c]
    /\ dbErr' = [dbErr EXCEPT ![c] = "rolled_back"]
    /\ Goto(c, "reply")
    /\ UNCHANGED <<rowVars, lock, clientVars, attempt, workVars, commitErr,
                   aborted, committed>>

\* COMMIT fails and PostgreSQL rolls back.
CommitFails(c) ==
    /\ pc[c] = "commit" /\ ~aborted[c]
    /\ Release(c)
    /\ dbErr' = [dbErr EXCEPT ![c] = "system"]
    /\ Goto(c, "reply")
    /\ UNCHANGED <<rowVars, clientVars, attempt, workVars, commitErr, aborted, committed>>

\* Any other statement fails.  CommitTable returns the error through WithLock,
\* CommitTransaction keeps it as a business error and goes on to COMMIT.
StatementFails(c) ==
    /\ pc[c] \in {"begin", "query", "wait", "update", "stmt"}
    /\ Release(c)
    /\ \/ /\ Kind(c) = "txn" /\ pc[c] \in {"query", "wait"}
          /\ aborted' = [aborted EXCEPT ![c] = TRUE]
          /\ commitErr' = [commitErr EXCEPT ![c] = "system"]
          /\ Goto(c, "commit")
          /\ UNCHANGED dbErr
       \/ /\ Kind(c) # "txn" \/ pc[c] = "begin"
          /\ dbErr' = [dbErr EXCEPT ![c] = "system"]
          /\ Goto(c, "reply")
          /\ UNCHANGED <<aborted, commitErr>>
    /\ UNCHANGED <<rowVars, clientVars, attempt, workVars, committed>>

----------------------------------------------------------------------------
(***************************************************************************)
(* The handlers that are one statement: no WithLock, no lock_timeout.      *)
(***************************************************************************)

\* DELETE and UPDATE look the row up in their snapshot, then wait for it.
StartStatement(c) ==
    /\ pc[c] = "begin" /\ Kind(c) \in {"drop", "rename"}
    /\ \/ \E r \in RowsNamed(Cur(c).name) :
             /\ target' = [target EXCEPT ![c] = r]
             /\ Goto(c, "stmt")
             /\ UNCHANGED commitErr
       \/ /\ RowsNamed(Cur(c).name) = {}
          /\ commitErr' = [commitErr EXCEPT ![c] = "not_found"]
          /\ Goto(c, "reply")
          /\ UNCHANGED target
    /\ UNCHANGED <<rowVars, lock, clientVars, attempt, idx, seen, dbErr, aborted,
                   committed>>

\* RowsAffected() = 0: the row changed its name or went away meanwhile.
StatementGone(c) ==
    /\ pc[c] = "stmt" /\ LockGranted(c)
    /\ ~StillNamed(c)
    /\ commitErr' = [commitErr EXCEPT ![c] = "not_found"]
    /\ Goto(c, "reply")
    /\ UNCHANGED <<rowVars, lock, clientVars, attempt, workVars, dbErr, aborted,
                   committed>>

\* DELETE FROM tables; commit_log and scan_plans go with it (ON DELETE CASCADE).
DropTable(c) ==
    /\ pc[c] = "stmt" /\ Kind(c) = "drop" /\ LockGranted(c)
    /\ StillNamed(c)
    /\ rowName' = [rowName EXCEPT ![target[c]] = None]
    /\ commitLog' = {e \in commitLog : e.row # target[c]}
    /\ committed' = [committed EXCEPT ![c] = TRUE]
    /\ Goto(c, "reply")
    /\ UNCHANGED <<born, meta, lock, clientVars, attempt, workVars, errVars>>

\* UPDATE tables SET name; UNIQUE(namespace_id, name) may refuse it.
RenameTable(c) ==
    /\ pc[c] = "stmt" /\ Kind(c) = "rename" /\ LockGranted(c)
    /\ StillNamed(c)
    /\ \/ /\ NameFree(req[c].to, {target[c]})
          /\ rowName' = [rowName EXCEPT ![target[c]] = req[c].to]
          /\ committed' = [committed EXCEPT ![c] = TRUE]
          /\ UNCHANGED commitErr
       \/ /\ ~NameFree(req[c].to, {target[c]})
          /\ commitErr' = [commitErr EXCEPT ![c] = "already_exists"]
          /\ UNCHANGED <<rowName, committed>>
    /\ Goto(c, "reply")
    /\ UNCHANGED <<born, meta, commitLog, lock, clientVars, attempt, workVars,
                   dbErr, aborted>>

\* INSERT INTO tables, with a fresh uuid.
CreateTable(c) ==
    /\ pc[c] = "begin" /\ Kind(c) = "create"
    /\ \/ /\ NameFree(Cur(c).name, {})
          /\ \E r \in Rows \ born :
                /\ rowName' = [rowName EXCEPT ![r] = Cur(c).name]
                /\ born' = born \cup {r}
                /\ meta' = [meta EXCEPT ![r] = NewMetadata]
                /\ target' = [target EXCEPT ![c] = r]
          /\ committed' = [committed EXCEPT ![c] = TRUE]
          /\ UNCHANGED commitErr
       \/ /\ ~NameFree(Cur(c).name, {})
          /\ commitErr' = [commitErr EXCEPT ![c] = "already_exists"]
          /\ UNCHANGED <<rowName, born, meta, target, committed>>
    /\ Goto(c, "reply")
    /\ UNCHANGED <<commitLog, lock, clientVars, attempt, idx, seen, dbErr, aborted>>

----------------------------------------------------------------------------
(***************************************************************************)
(* The answer, and the end of the process                                  *)
(***************************************************************************)

\* The status code of a handler whose WithLock (or statement) has returned;
\* "200" stands for every 2xx.
StatusOf(c) ==
    IF dbErr[c] # "none"
    THEN IF dbErr[c] = "lock_timeout" THEN "409" ELSE "500"
    ELSE CASE commitErr[c] = "none"          -> "200"
           [] commitErr[c] = "not_found"     -> "404"
           [] commitErr[c] = "update_failed" -> "400"
           [] commitErr[c] \in {"requirement_failed", "already_exists"} -> "409"
           [] commitErr[c] \in {"lock_timeout", "system"} -> "500"

Reply(c) ==
    /\ pc[c] = "reply"
    /\ answer' = [answer EXCEPT ![c] = StatusOf(c)]
    /\ Goto(c, "answered")
    /\ UNCHANGED <<rowVars, lock, req, submits, attempt, workVars, errVars, committed>>

\* The handler's process dies, or its answer never reaches the client.
\* PostgreSQL rolls back what was not committed.  A DELETE or UPDATE that
\* waits for its row outlives the process: PostgreSQL executes it when it gets
\* the row.  That is this action taken after the statement instead, since
\* nobody but the client learns of the loss; what is left out is a client that
\* sends its request again while the statement of the first is still waiting.
Crash(c) ==
    /\ pc[c] \notin {"idle", "answered"}
    /\ Release(c)
    /\ answer' = [answer EXCEPT ![c] = "lost"]
    /\ Goto(c, "answered")
    /\ UNCHANGED <<rowVars, req, submits, attempt, workVars, errVars, committed>>

----------------------------------------------------------------------------
\* The steps a running handler takes by itself, lock timeouts included.
Step(c) ==
    \/ Begin(c) \/ Query(c)
    \/ AcquireGone(c) \/ AcquireRejected(c) \/ AcquireTable(c) \/ AcquireInTx(c)
    \/ LockTimesOut(c) \/ LockTimesOutInTx(c) \/ RetryElapsed(c)
    \/ UpdateRow(c) \/ InsertLog(c) \/ Commit(c) \/ CommitAborted(c)
    \/ StartStatement(c) \/ StatementGone(c)
    \/ DropTable(c) \/ RenameTable(c) \/ CreateTable(c)
    \/ Reply(c)

\* What may go wrong under it.
Fault(c) ==
    \/ InsertLogFails(c) \/ CommitFails(c) \/ StatementFails(c)
    \/ RetryCancelled(c) \/ Crash(c)

Next == \E c \in Clients : Submit(c) \/ Resubmit(c) \/ Step(c) \/ Fault(c)

\* A handler is a goroutine: the scheduler runs it, PostgreSQL answers its
\* statements, and its timers fire.
Fairness == \A c \in Clients : WF_vars(Step(c))

Spec == Init /\ [][Next]_vars

FairSpec == Spec /\ Fairness

----------------------------------------------------------------------------
(***************************************************************************)
(* Properties                                                              *)
(***************************************************************************)
Labels == {"idle", "begin", "query", "wait", "retry", "update", "log",
           "commit", "stmt", "reply", "answered"}
CommitErrors == {"none", "not_found", "requirement_failed", "update_failed",
                 "already_exists", "lock_timeout", "system"}
DbErrors == {"none", "lock_timeout", "cancelled", "rolled_back", "system"}
Answers == {"none", "200", "400", "404", "409", "500", "lost"}
LogEntries == [row : Rows, nth : Nat, location : Stamps, by : Clients, on : Snapshots]

\* The types of the rows PostgreSQL holds and of the handlers' local variables.
TypeOK ==
    /\ rowName \in [Rows -> Names \cup {None}]
    /\ born \subseteq Rows
    /\ meta \in [Rows -> Metadata]
    /\ commitLog \subseteq LogEntries
    /\ lock \in [Rows -> Clients \cup {None}]
    /\ pc \in [Clients -> Labels]
    /\ req \in [Clients -> Requests]
    /\ submits \in [Clients -> 0..MaxSubmits]
    /\ attempt \in [Clients -> 0..MaxRetries]
    /\ idx \in [Clients -> Nat \ {0}]
    /\ \A c \in Clients : idx[c] <= Len(req[c].changes)
    /\ target \in [Clients -> Rows \cup {None}]
    /\ seen \in [Clients -> Metadata]
    /\ commitErr \in [Clients -> CommitErrors]
    /\ dbErr \in [Clients -> DbErrors]
    /\ aborted \in [Clients -> BOOLEAN]
    /\ answer \in [Clients -> Answers]
    /\ committed \in [Clients -> BOOLEAN]

\* CommitTable is between having validated the row and COMMIT.
Validated(c) ==
    \/ pc[c] \in {"update", "log"}
    \/ /\ pc[c] = "commit" /\ Kind(c) = "commit"
       /\ commitErr[c] = "none" /\ ~aborted[c]

\* CommitTable writes the metadata it read before validating.  From the moment
\* it has the row lock until COMMIT, what it read is still what the row holds,
\* under the name and with the requirements it validated.
ValidatedStateIsCurrent ==
    \A c \in Clients :
        Validated(c)
        => /\ lock[target[c]] = c
           /\ seen[c] = meta[target[c]]
           /\ rowName[target[c]] = Cur(c).name
           /\ RequirementsHold(Cur(c), target[c], meta[target[c]])

\* A commit to the table of e took the snapshots out after e.
Expired(e) ==
    \E x \in commitLog : x.row = e.row /\ e.nth < x.nth /\ req[x.by].update = "expire"

\* A commit that is sent again after an answer that did not tell its outcome
\* (500, no answer) is refused by its snapshot id as long as the snapshot is
\* there: it is applied a second time only if the snapshot was expired between
\* the two.
ReappliedOnlyAfterExpiry ==
    \A d, e \in commitLog :
        d.row = e.row /\ d.by = e.by /\ req[d.by].update = "append" /\ d # e
        => \E x \in commitLog :
              /\ x.row = d.row /\ req[x.by].update = "expire"
              /\ \/ d.nth < x.nth /\ x.nth < e.nth
                 \/ e.nth < x.nth /\ x.nth < d.nth

\* commit_log has one entry for each commit of a live table, in the order of
\* the commits, and the last of them names the metadata location of the row.
\* (Two entries may name one location, and none names that of CreateTable.)
LogIsComplete ==
    \A r \in Rows : rowName[r] # None =>
        /\ {e.nth : e \in {d \in commitLog : d.row = r}} = 1..meta[r].commits
        /\ \A d, e \in commitLog : d.row = r /\ e.row = r /\ d.nth = e.nth => d = e
        /\ \A e \in commitLog : e.row = r /\ e.nth = meta[r].commits
                                => e.location = meta[r].location

\* No lost update: a commit answered with 200 stays in the log as long as its
\* table exists, and its snapshot stays in the table until a later commit
\* expires it.
AcknowledgedCommitsSurvive ==
    \A c \in Clients :
        answer[c] = "200" /\ Kind(c) = "commit" /\ rowName[target[c]] # None
        => /\ \E e \in commitLog : e.row = target[c] /\ e.by = c
           /\ req[c].update = "append" /\ c \notin meta[target[c]].snapshots
              => \A e \in commitLog : e.row = target[c] /\ e.by = c => Expired(e)

\* No handler keeps a row lock once WithLock has returned, between two attempts
\* or while it has a failed transaction: a lock is held only inside one.
NoLeakedLocks ==
    \A r \in Rows : lock[r] # None =>
        /\ pc[lock[r]] \in {"query", "wait", "update", "log", "commit"}
        /\ ~aborted[lock[r]]

\* Names are unique, whatever creates, renames and drops run at once.
NamesAreUnique ==
    \A r, s \in Rows : rowName[r] = rowName[s] /\ rowName[r] # None => r = s

\* A step that changes the metadata of a table that exists.
CompareAndSetStep ==
    \A r \in Rows : r \in born /\ meta'[r] # meta[r] =>
       \E c \in Clients :
          /\ Kind(c) = "commit" /\ rowName[r] = Cur(c).name
          /\ RequirementsHold(Cur(c), r, meta[r])
          /\ meta'[r].commits = meta[r].commits + 1
          /\ \/ /\ req[c].update = "append" /\ c \notin meta[r].snapshots
                /\ meta'[r].snapshots = meta[r].snapshots \cup {c} /\ meta'[r].main = c
             \/ /\ req[c].update = "expire"
                /\ meta'[r].snapshots = {} /\ meta'[r].main = None
             \/ /\ req[c].update = "touch"
                /\ meta'[r].snapshots = meta[r].snapshots /\ meta'[r].main = meta[r].main

\* Every change of a table's metadata is one commit's compare-and-set: the
\* requirements hold in the state it replaces, its table exists under its name,
\* and it adds its own snapshot, or expires them all, or leaves them alone.
CommitIsCompareAndSet == [][CompareAndSetStep]_vars

\* A step and the tables that have been dropped.
DroppedStep ==
    \A r \in born : rowName[r] = None =>
       /\ rowName'[r] = None
       /\ meta'[r] = meta[r]
       /\ \A e \in commitLog' : e.row # r

\* A dropped table never comes back: neither a commit that was waiting for its
\* lock nor a rename revives or changes it.
DroppedStaysDropped == [][DroppedStep]_vars

\* Every request is answered or its process dies: WithLock's retries are
\* bounded, transactions that lock in opposite orders do not wait for each
\* other for ever, and a DELETE without lock_timeout gets its row.
EveryRequestAnswered ==
    \A c \in Clients : pc[c] = "begin" ~> pc[c] = "answered"

(***************************************************************************)
(* The inductive invariant behind the safety properties                    *)
(***************************************************************************)

\* Which handler can be where, and what it has recorded by then.
ControlState ==
    \A c \in Clients :
        /\ pc[c] \in {"query", "wait", "retry", "commit"} => Locking(c)
        /\ pc[c] \in {"update", "log"} => Kind(c) = "commit"
        /\ pc[c] = "stmt" => Kind(c) \in {"drop", "rename"}
        /\ pc[c] \in {"wait", "stmt"} \/ Validated(c) => target[c] \in Rows
        /\ pc[c] \notin {"commit", "reply", "answered"} => commitErr[c] = "none" /\ ~aborted[c]
        /\ pc[c] \notin {"reply", "answered"} =>
              dbErr[c] = "none" /\ answer[c] = "none" /\ ~committed[c]

\* A row that was never inserted has no name and no history.
UnbornRows ==
    \A r \in Rows \ born : rowName[r] = None /\ meta[r] = NewMetadata

\* commit_log speaks of tables that exist.
LogOfLiveRows == \A e \in commitLog : rowName[e.row] # None

\* CommitTable would not fail on what it has read.
UpdatesApply == \A c \in Clients : Validated(c) => ~UpdateFails(c, seen[c])

IndInv ==
    /\ TypeOK
    /\ ControlState
    /\ UnbornRows
    /\ NamesAreUnique
    /\ NoLeakedLocks
    /\ ValidatedStateIsCurrent
    /\ UpdatesApply
    /\ LogOfLiveRows

(***************************************************************************)
(* What the repository says and the code does not do                       *)
(***************************************************************************)

\* table.go, "Log the commit (best effort, don't fail on logging error)":
\* only a failing INSERT INTO commit_log aborts CommitTable's transaction, and
\* it does not fail the commit.
LogFailureIsHarmless ==
    \A c \in Clients : Kind(c) = "commit" /\ aborted[c] => answer[c] # "500"
=============================================================================
