# Bingsan in TLA+

Bingsan is an Apache Iceberg REST catalog in Go: HTTP handlers (Fiber) over
PostgreSQL, which is the only shared state between the nodes, and an in-memory
event broker in each node. This directory holds a model of its core, TLC
configurations that check it on small instances, and TLAPS proofs of the
properties that matter most for every size of the system.

## The system

| Part | State | Operations | Meets others through |
|---|---|---|---|
| Commit path (`db/lock.go`, `handlers/table.go`, `handlers/transaction.go`) | rows of `tables` and `commit_log`, row locks; in a handler: attempt, what it read, its errors | `WithLock`, `CommitTable`, `CommitTransaction` | row locks, unique constraints |
| Update processor (`handlers/updates`) | a deep copy of the metadata | `Apply`: 23 kinds of updates in `processingOrder` | called by `CommitTable` under the row lock |
| Namespaces, tables, views (`handlers/namespace.go`, `table.go`, `view.go`) | rows of `namespaces`, `tables`, `views` | create, drop, rename, replace, properties | foreign keys with ON DELETE CASCADE; no locks |
| Listings (the same files) | none: a page token is a name | `ListNamespaces`, `ListTables`, `ListViews` | one query per page |
| Event broker, streams (`events/broker.go`, `events/types.go`, `handlers/events.go`) | subscriber map, channels, `closed` | `Subscribe`, `Unsubscribe`, `Publish`, `Close`; the WebSocket handler | RWMutex, buffered channels |
| API keys, OAuth, authorization (`handlers/apikeys.go`, `oauth.go`, `events.go`, `middleware`) | rows of `api_keys`, `oauth_tokens`, `namespace_permissions` | create, rotate, delete, exchange, `Auth`, `Authz`, `authenticateWebSocket` | the rows; clocks |
| Leader election, background tasks (`leader`, `background`) | advisory lock of a session, `locks` map | `TryAcquire`, `Release`, `Start`, `Stop`, the task loop | PostgreSQL sessions of a pool; the rows that tasks delete |
| Scan plans (`handlers/scan.go`) | rows of `scan_plans` | submit, poll, cancel, fetch | foreign key to `tables`; the cleanup task |
| Buffer pool (`pool`) | `sync.Pool` | get, put | used by every encoder |
| Configuration, credentials, Polaris answers, metrics, telemetry, health | read-only or write-only | | |

What is hard in it: any two statements of two handlers may interleave, on one
node or on several; a statement may fail, a COMMIT may take effect without its
acknowledgement, a process may die between any two statements; a lock wait times
out and is retried; a transaction may lock tables in an order that deadlocks; ids
that one statement read are used by the next; updates are applied in another
order than they were sent; channels are closed while publishers send to them; a
key is rotated between the two statements that look for it; a node goes on
leading after the session that has its lock has ended.
`PROJECT.json` lists these hazards at their lines.

What makes each part correct:

* commit path: no lost update, requirements that hold
  in the state that is replaced, truthful answers, no leaked lock, an answer for
  every request;
* update processor: no ref, current snapshot, current schema, spec or order that
  dangles, unique ids, nothing that goes backwards, refusals only for a reason;
* namespaces, tables, views: unique names, nothing outside of a namespace,
  answers that were right at some moment;
* listings: every name that stayed is seen, once and in order, and a namespace
  that is said to be empty was so;
* broker: no panic, no blocked publisher, no leaked subscription, each event
  once and to every match, and an end at shutdown;
* access: whoever is let in had a right to it at some moment of the request,
  whoever had it all the while is not refused, a deleted key never works again;
* election and tasks: a leader has the lock unless its session has ended, what
  has expired is deleted in the end, `Stop` returns;
* scan plans: a plan that was announced is found until it expires or its table
  is dropped, a cancellation is final.

## Modules

| Module | Models | Notes |
|---|---|---|
| `TableCommit` | commit path | one action per statement of a handler |
| `AtomicCatalog` | what the commit path promises | one atomic step per request |
| `TableCommitRefinement` | `TableCommit` implements `AtomicCatalog` | refinement mapping |
| `TableCommitProofs` | | theorems about `TableCommit` |
| `TableCommitRefinementProofs` | | `TableCommit` implements `AtomicCatalog` |
| `UpdateProcessor` | update processor | one action per update applied or refused |
| `UpdateProcessorProofs` | | theorems about `UpdateProcessor` |
| `Catalog` | namespaces, tables, views | one action per statement |
| `CatalogProofs` | | theorems about `Catalog` |
| `Listing` | listings | one action per page |
| `ListingProofs` | | theorems about `Listing` |
| `EventBroker` | broker and streams | one action per critical section or channel operation |
| `EventBrokerProofs` | | theorems about `EventBroker` |
| `Access` | API keys, tokens, authentication, authorization | one action per statement of a request |
| `AccessProofs` | | theorems about `Access` |
| `LeaderElection` | elector and runner | one action per statement; sessions end |
| `ScanPlans` | scan plans | one action per statement |
| `Housekeeping` | `LeaderElection` composed with `ScanPlans` | the runner's task is the cleanup of plans |
| `HousekeepingProofs` | | theorems about `Housekeeping` |
| `MC...` | | instances for TLC |

In front of some definitions stands a variant that nothing uses (`LockGrantedNoForUpdate`
before `LockGranted`): the same code with a plausible mistake, which the property
that `PROJECT.json` names for it must catch.

### TableCommit

Each client has one request and a handler with a program counter `pc`. For
`CommitTable`: `begin` (BEGIN, SET LOCAL lock_timeout), `query` (the SELECT ...
FOR UPDATE finds a row), `wait` (it waits for the row lock; when it gets it,
PostgreSQL evaluates WHERE again on the current version of the row, then the
requirements and the update processor run), `update`, `log`, `commit`, `reply`,
`answered`. A lock timeout goes to `retry` while attempts are left. `DropTable`
and `RenameTable` are one statement that waits for the lock like any other
writer, but without a lock timeout; `CreateTable` is one INSERT. Business errors
(`commitErr`) end the transaction with a COMMIT of nothing, as in the code.

Faults are actions: `StatementFails`, `InsertLogFails` (PostgreSQL then refuses
everything until ROLLBACK, which the ignored error hides), `CommitFails` (with
and without effect), `Crash` (the process dies, PostgreSQL rolls back),
`RetryCancelled` (the context ends), and the client sends its request again when
it cannot know what became of it (`Resubmit`).

A snapshot id is the client that adds it, and the metadata is the set of
snapshots, the `main` ref and the metadata location: all that requirements and
updates can tell apart here. An update appends a snapshot, expires all of them,
leaves them alone or is invalid. The name of a location is `00001`, the
millisecond of the commit and eight digits of the uuid, as `getMetadataVersion`
always returns 0; so a location is a reading of a clock (`Stamps`), two commits
may write the same one, and only the history field `commits` counts them. The
locations that `CreateTable` writes are not logged, by the code either. Of the
requirements, `assert-table-uuid` and the one on `main` stand for those that
compare a field; those that the code accepts always (`assert-create`,
`assert-last-assigned-partition-id`, unknown ones) are no requirements. A DELETE
or UPDATE that waits for its row when its process dies is executed by PostgreSQL
all the same: to everybody but its client that is the statement followed by a
crash. Left out is that the client sends its request again while the first
statement still waits. PostgreSQL's READ COMMITTED, row locks and rollback are
modelled from how the code uses them, and marked external in the map.

`AtomicCatalog` has no locks, transactions or retries: a request is open, takes
effect in one step in which all of its requirements hold, and is answered
truthfully (200 only if it took effect; 400, 404 and 409 only if it did not; 500
or nothing in either case). That `CommitTransaction` has no effect on metadata is part of it.

### UpdateProcessor

The metadata of one table and a sequence of batches. `Receive` takes a batch,
refuses one with an unknown action, and makes the deep copy; `ApplyUpdate` and
`RejectUpdate` take the next update in `processingOrder`; `Finish` installs the
copy; `Return` answers, and the table is ready for the next batch. The updates of
one action keep the order of the request. Schemas, partition specs and sort orders are three kinds of one thing, as
the code for them differs only in what it protects and whether items can be
removed. Numbers that pass through `map[string]any` are rounded as a float64
does (`Float`); `Exact` stands for 2^53.

### Catalog

Handlers of requests that change namespaces and what is in them, statement by
statement, each a transaction of its own. `possible` collects, for each request
in flight, the answers that would have been right at some moment since it came;
`cascaded` remembers what ON DELETE CASCADE took. A drop that finds nothing asks
whether the namespace exists and ignores the error of that query, so that a
failure is answered as a missing namespace (`"presumed"`). `ReplaceView` holds a
row lock from its SELECT to its UPDATE, which are one step; the new
`metadata_location` that it writes is left out, as nothing but an answer reads it.
Its look at the namespace is a second step; there a failing query has aborted the
transaction, which answers 500.

### Listing

A client lists namespaces (under a parent or not), or the tables or views of a
namespace, page by page, while others create and delete. As the server sends no
token, the model also has a client that goes on from the last name that it saw.
Any query may break off: the handlers do not ask `rows.Err()`, so what arrived is
the page (`broken` remembers it). A query may also be refused, and then it is 500
(`Fail`). An empty page of a namespace is followed by the query for the namespace
(`CheckNamespace`), before which the namespace may go and come back.
`ORDER BY name` is defined by rank: the i-th row is the one that i - 1 rows are before.

### EventBroker

`Subscribe`, `Unsubscribe` and `Close` are short critical sections under the
write lock, and one step each. `Publish` holds the read lock while it sends, one
channel per step, so that receivers, disconnections and other publishers run in
between. A stream's handler subscribes, confirms, forwards events, and
unsubscribes in its `defer`. Its client may stop reading and start again
(`Stall`), during which the handler is in a write without a deadline. Topics are
joined strings as in the code (`Join`): that of table `b` in namespace `a` is that
of a namespace `a/b`.

### Access

A caller presents one of the secrets that were ever handed out, of a key or of a
token, current or not. Its request goes through `Auth` (one lookup for a token,
two for a key: as the current one, then as the previous one of a rotation less
than 24 hours ago; then the expiry) and through `Authz` (up to three statements,
then the default permission), or through the two lookups of a WebSocket. In
between keys are created, rotated in two statements, deleted and cleaned up,
tokens are issued and permissions change. Any lookup may fail, which the code
takes for an empty result (and answers 401), a failing permission check is 403.
Time passes in hours through a few instants, so that the very instant of an
expiry and of the end of a grace period are reached. Every reading of a clock, of
a node or of PostgreSQL, may be up to `MaxSkew` fast (`Clock`). `ParseDuration` wraps around
as 64 bits of nanoseconds do. A call has the segments of its path, from which
`NamespaceOf` takes the namespace as `extractNamespace` does: where it finds none,
because there is none, because the namespace is called `tables`, `views` or
`properties`, or because the path spells `namespaces` in another case (which Fiber
routes all the same), `Authz` checks nothing. The module is about servers with
`auth.enabled`; without it `server.go` installs neither middleware. `ever` and `always` collect what spoke for a
request at some moment and at every moment of it. What speaks for it is defined
from the point of view of those who were given the secret (`owner`, `promise`,
`deleted`), not from what the tables happen to hold.

### LeaderElection, ScanPlans and Housekeeping

A node believes that it leads (`locks` of its elector), a session of it has the
lock (`holder`), and the two drift apart: when the pool closes the connection
(`Retire`), and when `Release` runs on another connection than the one with the
lock, which leaves it taken. Of the connections only the one that has the lock
is told apart. The goroutine of a task waits for its ticker, runs, or has left;
`Stop` cancels the context and waits for all. `ScanPlans` has `SubmitScanPlan`
in its three statements, cancellation, and the tables under the plans. The error of
its UPDATE is ignored, and if only the connection broke PostgreSQL may execute it
after the answer (`UpdateLate`). Sessions are those of PostgreSQL: behind
PgBouncer in transaction mode, as scalability.mdx:76-88 suggests, the advisory
lock of a session would belong to whoever uses the server connection, and nothing
here would hold; the model assumes direct connections.
`Housekeeping` composes the two: `Run` of the cleanup task is the DELETE on
`scan_plans`.

## Runs

| Run | Shows |
|---|---|
| `commit_race` | two clients, any two of nine requests, an expiry of snapshots and transactions over two tables in both orders among them, one retry, one resubmission, all faults; every request is answered |
| `recreate_race` | three clients: a table is dropped and its name taken again while a commit waits for its row; two readings of the clocks in any order |
| `snapshots_and_refs` | two batches of up to three updates of snapshots, refs, statistics |
| `schemas_specs_orders` | three batches of up to two of all other updates, on created and registered tables |
| `namespace_race` | three clients, fifteen requests on two namespaces with tables and views |
| `event_streams` | two streams of different topics, two publishers of three kinds of events (of table `b` in `a`, of a namespace `a/b` that shares its topic, of a namespace named `*`), clients that stop reading, the shutdown; liveness |
| `listing_pages` | all subsets of five namespaces or four tables, three changes, all page sizes, queries that break off anywhere |
| `access` | one caller, one key and its rotations by two requests, a token, two instants a day apart and clocks an hour apart, seven kinds of calls |
| `housekeeping` | two nodes, two tasks each, a plan of a table with two possible names; liveness |
| `log_failure_fails_commit` | violation, see below |
| `namespace_delete_cascades` | violation, see below |
| `next_page_token_never_set` | violation, see below |

Bounds. Two clients are enough for every pair of statements to interleave; a
dropped and recreated name under a waiting commit takes a third. One retry and
one resubmission reach both sides of the retry loop's bound and, with a client
that expires, the second application of a commit. One reading of the clocks makes
all locations of `commit_race` the same one, two in `recreate_race` make some
differ. Batches of two updates have every pair of updates in both orders; three
are what it takes to set a ref twice and remove a snapshot, and two batches of
three to add, refer to and expire one. Channels have one place instead of 16, so
that they fill. `MaxPageSize` is 3 instead of 1000, with sizes below, at and
above. Ids and rows are bounded by the number of requests (`MaxIds`) and never run out.
Callers of `Access` only read, so that one is as good as many; three secrets are
a key and two overlapping or successive rotations, or a key, a rotation and a
token; the instants 0 and 24, shown by clocks as 0 or 1 and as 24 or 25, are before, at
and after the expiry of a key of a day, of a token and of a grace period that
begins at 0. Rotators are
interchangeable (symmetry; the run has no liveness property). In `Housekeeping`
one fault (a failing task, a stop, a crash or a release) meets any number of
sessions that end and of restarts; a session takes the lock up to twice
(`MaxHolds`), which is what a released lock that stays taken leads to. Table ids are never used twice, so
that a table in place of a dropped one has nothing to do with its plans; one id
is enough.
`CHECK_DEADLOCK` is off everywhere: once all requests are answered the models stop.

Fairness. `commit_race` assumes weak fairness of each handler's steps: a goroutine
with a statement to send sends it, PostgreSQL answers, a lock wait ends by the
lock or by `lock_timeout`. It assumes nothing of clients, and no fairness of
faults. `event_streams` assumes weak fairness of handlers and
publishers, and that a write to a client ends if the client reads or is gone; while
it does not read (`stalled`), the code sets no deadline and nothing is assumed, and
`ShutdownEndsStreams` says nothing of a client that stops reading for good. It
assumes strong fairness of
`Unsubscribe`, since a waiting writer of a Go RWMutex keeps new readers out.
Nothing is assumed of the shutdown or of new subscriptions. `housekeeping`
assumes that tickers fire and statements end (weak fairness of each goroutine),
that a `select` with a cancelled context and a ticker chooses the context in the
end (strong fairness of `Leave`: Go chooses at random), that a process whose
`Stop` has returned ends, and that a connection reaches its maximal lifetime. It
assumes nothing of restarts and requests.

## Where the repository says something else

Three disagreements are kept as runs in which TLC finds a counterexample:

* `log_failure_fails_commit`: table.go:452 says of the commit log "best effort,
  don't fail on logging error", but a failing INSERT aborts the PostgreSQL
  transaction, and the COMMIT that follows rolls the commit back: the request
  fails with 500.
* `namespace_delete_cascades`: namespace.go:211 says "DeleteNamespace deletes an
  empty namespace"; a table created between the emptiness check and the DELETE
  is deleted with it.
* `next_page_token_never_set`: namespace.go:90 says "We have more, will set next
  page token"; the loop has consumed the row by which the code would know.

Others were met while modelling. The modules do what the code does:

* `CommitTransaction` applies no updates and answers 200 (transaction.go:155;
  SPEC.md:88 "Atomic multi-table commit" is ticked).
* An append without a requirement that is sent again, after its first application
  was not acknowledged and another commit has expired its snapshot, is applied a
  second time: `add-snapshot` compares ids with the snapshots that are there
  (snapshot.go:36). `ReappliedOnlyAfterExpiry` says that this is the only way.
* Locations have the version `00001` for ever (table.go:785 returns 0), so that two
  commits in one millisecond have the same location (the contract and Iceberg
  take it for the name of one file).
* A lock timeout in a transaction is a `fiber.Error` and is not retried
  (transaction.go:78 "Retry on lock/system errors").
* A commit may wait for (max_lock_retries + 1) lock timeouts, not for one
  (locking.mdx:71).
* `set-snapshot-ref` moves tags (snapshot.go:67 "tags are immutable").
* Statistics are kept for snapshots that are not there (processor.go:9
  "to ensure referential integrity").
* Updates are not applied in the order of the request (request-flow.mdx:114
  "Updates are applied in order"); `RemovalsWin` says what happens instead.
* Snapshot ids above 2^53 that a float64 cannot hold are stored as another id,
  and a ref to such a snapshot is refused (the API contract says int64).
* Two overlapping `UpdateNamespaceProperties` undo each other (the contract:
  "Properties that are not in the request are not modified").
* A table can be renamed to the name of a view (the contract: 409 if it "already
  exists as a table or view").
* A drop whose look at the namespace fails answers 404 for a namespace that exists
  (table.go:542, view.go:419).
* A query that breaks off is a short page with 200, since nobody asks `rows.Err()`
  (namespace.go:88, table.go:150, view.go:101): a client that takes it for the last one misses the rest.
* `ReplaceView` leaves the metadata as it is (view.go:269 "replaces/updates").
* A listing with a parent has the parent and all of its descendants (the
  contract: its children "only").
* A second rotation within 24 hours, or one that overlaps, makes the first
  secret invalid at once, and in the latter case one of the two secrets that were
  just handed out as well (apikeys.go:157 "The old key remains valid for a grace
  period (24 hours)"). A slow rotation that read an old hash makes it the
  previous key again.
* Rotating a key that is deleted meanwhile answers 200 with a secret that never
  works (the number of updated rows is not looked at).
* A key in its grace period is a principal of type `api_key_rotated`, which no
  row of `namespace_permissions` names (000002_namespace_acl.up.sql:8 "'api_key'
  or 'oauth2'"): under ACL it authenticates and may do nothing.
* An event stream does not take a previous key at all.
* With OAuth enabled an API key sent as a bearer token is refused (auth.go:64
  "Some clients send API keys as Bearer tokens").
* `expires_in` of 293 years and more overflows (a key of 300 years has expired).
* Permissions are matched with the first level of a namespace only
  (authz.go:92): a grant for `a.b` counts for `a`, and a path with several levels
  matches none; `check_namespace_permission` of the migration, which compares whole names, is
  never called (authz.go:87 says that it is).
* Namespaces called `tables`, `views` or `properties` (authz.go:74), and paths that
  spell `namespaces` in another case (server.go:48 leaves Fiber's routing
  insensitive to it), are not checked by `Authz` at all (authz.go:41 "Non-namespaced
  routes pass through").
* A permission that is exchanged for another one that would do as well, between
  two of the statements of `checkPermission`, may be missed by all of them; only
  one that is held all the while is sure to be found.
* A failing database is answered 401 "invalid API key".
* `IsLeader` stays true after the session of the lock has ended, so that two
  nodes lead (election.go:103 "returns true if this node holds the specified
  lock"); the tasks are single DELETEs and bear it. `Release` on another
  connection of the pool leaves the lock taken.
* A stream whose client is connected and does not read survives the shutdown of
  the broker, in a write without a deadline (events.go:91).
* A plan whose completing UPDATE fails stays pending (or is completed later, even
  after a cancellation, if only the connection broke); one that is completed, as
  all others are, cannot be cancelled (404); expired plans are served until the
  cleanup runs, which `main.go` never starts.
* An event of no namespace has the topic `*`, and so has one of a namespace that
  is named `*`: `Publish` sends either twice to those who subscribed to
  everything (broker.go:103 collects three groups of channels without comparing them).
  Who subscribes to `a/b` gets the events of the table `b` in `a` and of a namespace
  of that name (types.go:95).

## Proofs

Every safety invariant and every action property that a passing run checks is
also a theorem, and so is the refinement. The theorems hold for every value of the
constants that satisfies the named assumptions of the modules: any number of
clients, rows, names, requests, retries, updates, batches, streams, keys, nodes.
The assumptions give the constants their types, tell `None` apart from values, and
say of requests what routing and decoding guarantee (only a view can be replaced, a
ref update names a ref). A theorem `TypeCorrect` comes first in every module but
`ListingProofs`, where it is a conjunct.

An invariant is rarely inductive as it stands. What each needs:

**`TableCommitProofs`.** `IndInv` is behind `ValidatedStateStaysCurrent`,
`LocksAreReleased`, `NamesStayUnique`, `CommitsCompareAndSet` and
`DroppedTablesStayDropped`. What a commit validated is current when it commits
because the validating client holds the lock of its row (part of the property),
locks are only held inside transactions (`NoLeakedLocks`), handlers are where
their kind of request can be (`ControlState`), a row that was never inserted has
no name (`UnbornRows`), and the updates which were found to apply still do
(`UpdatesApply`). The core is the lemma `RowLockProtects`: no step of any client
but the acquisition itself disturbs the row that another client has validated.
`HistoryInv` adds what relates the rows to `commit_log` and to the answers, for
`CommitsReapplyOnlyAfterExpiry`, `LogStaysComplete` and `AcknowledgedCommitsAreKept`:
an append that is in the log is in the metadata unless a later entry expired it
(`SnapshotsAreLogged`), a commit that took effect is in the log (`DurableIsLogged`),
and a handler that is about to answer knows its outcome unless the COMMIT itself
failed (`OutcomeIsKnown`). A commit that is sent again is refused for its snapshot
id as long as the snapshot is there, and that is why an expiry must lie between two
applications. Nothing is assumed of the locations: the proofs hold for any
readings of the clocks.

**`TableCommitRefinementProofs`.** `CommitPathIsAtomic`: each initial state maps
to one of `AtomicCatalog`, each step to one of its steps or to a stutter. The
difficult step is the COMMIT of a transaction over several tables, at which all
of its requirements must hold together; they do because the locks of the tables
that were checked first are held while the others are waited for
(`CheckedStateIsCurrent`, added to `HistoryInv`).

**`UpdateProcessorProofs`.** `MetadataStaysSound` gives `PointersNeverDangle`,
`ItemIdsStayUnique`, `CurrentIdsNeverDangle`, `MetadataAdvances`: the table and the
working copy are both sound and the copy has only advanced from the table.
Soundness includes that stored snapshot ids are exact (`Float(s) = s`): without it
a ref that was looked up would not be the ref that is stored. `BatchesAreInOrder`
adds what a batch has achieved so far (`Progress`): the updates applied so far are
those before all others in processing order (updates of one action in that of the
request), and each removal, added snapshot, ref
and current id among them shows in the working copy. From it follow
`RefusalsAreJustified`, `RemovalsHaveTheLastWord` and `MinusOneIsTheLastAdded`. `Itemized` (ids of
items bounded, their numbers of arrival distinct) makes `maxIntInSlice` and
"the last added" mean what their names say.

**`CatalogProofs`.** `UniqueNames`, `NoOrphanRows` and `SuccessesAreAtomic` rest on
`IndInv`: an id that a handler has looked up still means the namespace that the
request names, or nothing (`LookedUp`), as ids are not used again and namespaces
not renamed; and on where handlers can be (`ControlState`). `TruthfulAnswers` needs
the history: what was right at some moment stays in `possible` (`Remembered`), and
a handler decides once (`Undecided`); of a presumed 404 it is the missing table or
view that is remembered.

**`ListingProofs`.** The order of text arrays is shown to be strict and total
(`LessIrreflexive`, `LessTransitive`, `LessTotal`), from which ranks are distinct,
every rank is taken (a counting argument) and `OrderedIsSorted` follows. A page is then
the first rows after the token (`PageIsFirstRows`). `ListingInv` says that the
cursor is the last listed name and that every name up to it that stayed is listed,
wherever queries broke off. `ListingsAreComplete` and `EmptyAnswersAreTrue` follow, the
latter because a namespace that comes back has no tables yet (`VacancyIsNoticed`); `NoPageHasAToken` says of the
disagreement that `next_page_token_never_set` shows that it is not an accident of
the instance: no contents and no page size lead to a token.

**`EventBrokerProofs`.** `NoPanic` and `EndedStreamsAreReleased`: a channel is registered
exactly while it is open (`Registered`), and what a publisher has collected stays
registered as long as it holds the read lock (`Collected`). `SeenOnce` and
`EveryMatchIsReached` need to know where a message can be (`DeliveryInv`): every
matching channel has it ahead in one of the three groups of the publisher, or
delivered, or lost, and none of them twice.

**`AccessProofs`.** `IndInv` has one part about the rows (`KeyInv`: whom a secret
was given to never changes; what a key row, a token row and a rotation under way hold
belongs to one owner; a key outlives what was promised for it unless it is
deleted) and one for each stage of a request (`CallerInv`: what the lookups so far
found was true at some moment by some clock, and what they missed was not true all
the while by every clock; what is good by a clock is so by a slower one,
`WhatIsTrueNow`).
`EveryAccessIsJustified` and `EveryAccessIsReliable` are about the step that
answers.

**`HousekeepingProofs`.** The invariants of the election and of the scan plans are
proved for each component and carried through the composition, where the only
step of both is the cleanup task: `LeadersAreLockHolders`, from it `OneLiveLeader`,
`PlansAreServed`, `CancellationIsFinal`.

Two proofs failed because the model was wrong, and it was corrected: events of a
namespace named `*` (above; `SeenOnceByTopic` excepted fewer events than `Publish`
sends twice), and `maxIntInSlice`, whose maximum begins at 0, so that the next id
after negative ones is 1. The instances of TLC had neither.

Data defined by recursion would call for induction, which the provers cannot
instantiate; the two places that need it (a highest id, the first difference of two
names) use the least element of a set of numbers instead (`LeastNat`).

Only model-checked: liveness (`EveryRequestAnswered`, `PublishReturns`,
`ShutdownEndsStreams`, `StopReturns`, `ExpiredPlansGo`), which needs ENABLED, and
the three counterexamples.

`TypeCorrect` and `NamesStayUnique` of `TableCommit`, `ItemIdsStayUnique`,
`OneLiveLeader` and `NoPageHasAToken` are not repeated by a run.

## Not modelled

The buffer pool: a buffer is taken and given back within one call, by a `defer`
that follows the statement which reads it, so that no state outlives a call; what
is left is `sync.Pool`. The audit log: one INSERT, and no handler calls it.
Configuration, credential vending and Polaris answers are functions of constants.
Nothing depends on metrics, telemetry, health and logging. Migrations, connection
set-up and routing are I/O, but for the order of the shutdown (`EventBroker`) and
the permission of a method (`Access`). Reads of one row (`LoadTable`,
`GetNamespace`, `ListAPIKeys`, ...) are one query and change nothing. Wall-clock
time is modelled in `Access` only: elsewhere timeouts and expiries may happen
whenever their condition allows it.

## Plan

What remains is liveness, which stays with TLC. Next: the hazards that have no
property yet (`PROJECT.json` says why of each), more safety theorems that no run
states (the fate of a rotated key, the answers of `CommitTransaction`), and the
liveness runs with three clients.
