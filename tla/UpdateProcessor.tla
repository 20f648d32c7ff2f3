-------------------------- MODULE UpdateProcessor --------------------------
(***************************************************************************)
(* internal/api/handlers/updates: the processor that applies the updates   *)
(* of a commit to the metadata of a table.  The updates are parsed and     *)
(* grouped by action, and the groups are applied to a deep copy of the     *)
(* metadata in the order of processingOrder, whatever their order in the   *)
(* request; the first update that fails discards the copy.  CommitTable    *)
(* holds the row lock meanwhile, so that one batch runs after another.     *)
(*                                                                         *)
(* Abstractions.  Schemas, partition specs and sort orders are three kinds *)
(* of versioned items, of which the processor only looks at the id and at  *)
(* the highest field id.  A list of items is the set of its entries, each  *)
(* with the ordinal of its addition.  A property or an encryption key is   *)
(* its key, a statistics file the snapshot it is about.  Every number that *)
(* passes through a map[string]any becomes a float64: snapshot ids are     *)
(* rounded above Exact, 2^53 in the code; typed fields are int64.          *)
(***************************************************************************)
EXTENDS Integers, Sequences, FiniteSets

CONSTANTS
    Updates,      \* the updates that a batch may hold
    MaxBatch,     \* how many of them
    MaxBatches,   \* how many batches a table gets
    InitialIds,   \* the ids of the first schema, spec and order of a new table
    FirstField,   \* the highest field id of its schema
    Exact,        \* the integers up to here are exact as a float64
    RefNames,     \* names of branches and tags, "main" among them
    Null          \* an absent value

Kinds == {"schema", "spec", "order"}

\* An update: its action, whether the fields that its handler requires are
\* there, and its data.  A name is a ref, a uuid, a location, a key; num is the
\* highest field id of a schema or spec, or the sequence number of a snapshot.
\* The id -1 stands for no id in add-schema, add-spec and add-sort-order.
Update == [action : STRING, valid : BOOLEAN, name : STRING,
           type : {"branch", "tag", "other"}, id : Int, ids : SUBSET Int, num : Nat]

Batches == UNION {[1..n -> Updates] : n \in 1..MaxBatch}

ASSUME UpdatesAssumption == Updates \subseteq Update

ASSUME UpdateNames ==
    \A u \in Updates : u.action \in {"set-snapshot-ref", "remove-snapshot-ref"} => u.name \in RefNames

ASSUME NullAssumption == Null \notin Int /\ Null \notin [type : {"branch", "tag"}, id : Int]

ASSUME BoundsAssumption ==
    /\ MaxBatch \in Nat \ {0} /\ MaxBatches \in Nat /\ FirstField \in Nat
    /\ Exact \in Nat /\ Exact % 4 = 0
    /\ "main" \in RefNames

ASSUME InitialAssumption == InitialIds \subseteq [Kinds -> Int \cup {Null}]

VARIABLES
    table,    \* the metadata of the table
    work,     \* the processor's copy of it
    batch,    \* the updates of the request
    todo,     \* the positions of those not applied yet
    pc,       \* "idle" or "applying"
    outcome,  \* of the last batch: "none", "ok", "failed" or "unparsed"
    failed,   \* the position of the update that failed, 0 if none did
    batches   \* how many batches have been received

vars == <<table, work, batch, todo, pc, outcome, failed, batches>>

\* An int64 as a float64, read back: above Exact, and up to twice that, only the
\* even numbers are left, and the odd ones go to the nearest multiple of 4.
Float(n) ==
    IF n <= Exact \/ n % 2 = 0 THEN n ELSE IF n % 4 = 1 THEN n - 1 ELSE n + 1

----------------------------------------------------------------------------
(***************************************************************************)
(* The metadata that CreateTable and RegisterTable write                   *)
(***************************************************************************)
Entry(id, at) == [id |-> id, at |-> at]

Blank == [uuid |-> "uuid", version |-> 2, location |-> "location",
          items |-> [k \in Kinds |-> {}], adds |-> 0,
          current |-> [k \in Kinds |-> Null], lastField |-> [k \in Kinds |-> 0],
          snapshots |-> {}, snapshotLog |-> {}, lastSequence |-> 0,
          refs |-> [n \in RefNames |-> Null], currentSnapshot |-> Null,
          statistics |-> {}, partitionStatistics |-> {}, keys |-> {}, properties |-> {}]

\* RegisterTable does not read the metadata file: its placeholder has no items.
Registered == Blank

\* CreateTable takes the schema, the spec and the order as they come: their ids
\* may be missing (Null), while the current ids are 0.
Created(ids) ==
    [Blank EXCEPT !.items = [k \in Kinds |-> {Entry(ids[k], 0)}],
                  !.current = [k \in Kinds |-> 0],
                  !.lastField = [@ EXCEPT !["schema"] = FirstField]]

InitialTables == {Registered} \cup {Created(ids) : ids \in InitialIds}

----------------------------------------------------------------------------
(***************************************************************************)
(* Versioned items: schemas, partition specs and sort orders               *)
(***************************************************************************)
KindOf(u) ==
    CASE u.action \in {"add-schema", "set-current-schema", "remove-schemas"} -> "schema"
      [] u.action \in {"add-spec", "set-default-spec", "remove-partition-specs"} -> "spec"
      [] u.action \in {"add-sort-order", "set-default-sort-order"} -> "order"

Ids(m, k) == {e.id : e \in m.items[k]} \ {Null}

\* maxIntInSlice, 0 if all are negative.
MaxId(m, k) == CHOOSE i \in Ids(m, k) \cup {0} : \A j \in Ids(m, k) \cup {0} : j <= i

\* The id of an item that is added: its own, or the next one.
NewId(m, k, u) == IF u.id # -1 THEN u.id ELSE MaxId(m, k) + 1

\* The entry of the list that was added last.
Latest(m, k) == CHOOSE e \in m.items[k] : \A f \in m.items[k] : f.at <= e.at

\* -1 stands for the item added last; an item without an id leaves it at -1.
TargetId(m, k, u) ==
    IF u.id = -1 /\ Latest(m, k).id # Null THEN Latest(m, k).id ELSE u.id

\* getInt of an absent current id is 0.
ProtectedId(m, k) == IF m.current[k] = Null THEN 0 ELSE m.current[k]

AddItemFails(m, u) == NewId(m, KindOf(u), u) \in Ids(m, KindOf(u))

AddItem(m, u) ==
    LET k == KindOf(u) IN
    [m EXCEPT !.items[k] = @ \cup {Entry(NewId(m, k, u), m.adds + 1)},
              !.adds = @ + 1,
              !.lastField[k] = IF k # "order" /\ u.num > @ THEN u.num ELSE @]

SetCurrentFails(m, u) ==
    LET k == KindOf(u) IN
    ~(m.items[k] # {} /\ TargetId(m, k, u) \in Ids(m, k))

SetCurrent(m, u) == [m EXCEPT !.current[KindOf(u)] = TargetId(m, KindOf(u), u)]

\* removeItemsByID: the entries that stay.
Remaining(m, k, u) == {e \in m.items[k] : e.id \notin u.ids}

RemoveItemsFailsUnprotected(m, u) ==
    /\ u.ids # {} /\ m.items[KindOf(u)] # {}
    /\ Remaining(m, KindOf(u), u) = {}

RemoveItemsFails(m, u) ==
    LET k == KindOf(u) IN
    /\ u.ids # {} /\ m.items[k] # {}
    /\ ProtectedId(m, k) \in u.ids \/ Remaining(m, k, u) = {}

RemoveItems(m, u) == [m EXCEPT !.items[KindOf(u)] = Remaining(m, KindOf(u), u)]

----------------------------------------------------------------------------
(***************************************************************************)
(* Snapshots and refs                                                      *)
(***************************************************************************)
AddSnapshot(m, u) ==
    [m EXCEPT !.snapshots = @ \cup {Float(u.id)},
              !.snapshotLog = @ \cup {Float(u.id)},
              !.lastSequence = IF u.num > @ THEN u.num ELSE @]

\* A negative id is not looked up.
SetSnapshotRefFails(m, u) ==
    u.type = "other" \/ (u.id >= 0 /\ u.id \notin m.snapshots)

SetSnapshotRef(m, u) ==
    [m EXCEPT !.refs[u.name] = [type |-> u.type, id |-> u.id],
              !.currentSnapshot = IF u.name = "main" /\ u.type = "branch" THEN u.id ELSE @]

RemoveSnapshotRef(m, u) ==
    [m EXCEPT !.refs[u.name] = Null,
              !.currentSnapshot = IF /\ u.name = "main" /\ m.refs["main"] # Null
                                     /\ m.refs["main"].type = "branch"
                                  THEN Null ELSE @]

Referenced(m) == {m.refs[n].id : n \in {x \in RefNames : m.refs[x] # Null}}

RemoveSnapshotsFailsRefsOnly(m, u) ==
    /\ u.ids # {} /\ m.snapshots # {}
    /\ Referenced(m) \cap u.ids # {}

RemoveSnapshotsFails(m, u) ==
    /\ u.ids # {} /\ m.snapshots # {}
    /\ Referenced(m) \cap u.ids # {} \/ m.currentSnapshot \in u.ids

RemoveSnapshots(m, u) == [m EXCEPT !.snapshots = @ \ u.ids]

----------------------------------------------------------------------------
(***************************************************************************)
(* Statistics, identity, properties and keys                               *)
(***************************************************************************)
\* Statistics replace those of the same snapshot; whether the table has it is
\* not asked.
SetStatistics(m, u) == [m EXCEPT !.statistics = @ \cup {Float(u.id)}]
RemoveStatistics(m, u) == [m EXCEPT !.statistics = @ \ {u.id}]

SetPartitionStatistics(m, u) == [m EXCEPT !.partitionStatistics = @ \cup {Float(u.id)}]
RemovePartitionStatistics(m, u) == [m EXCEPT !.partitionStatistics = @ \ {u.id}]

AssignUUIDFails(m, u) == m.uuid # u.name
AssignUUID(m, u) == [m EXCEPT !.uuid = u.name]

SetLocation(m, u) == [m EXCEPT !.location = u.name]

SetProperties(m, u) == [m EXCEPT !.properties = @ \cup {u.name}]
RemoveProperties(m, u) == [m EXCEPT !.properties = @ \ {u.name}]

AddEncryptionKeyFails(m, u) == u.name \in m.keys
AddEncryptionKey(m, u) == [m EXCEPT !.keys = @ \cup {u.name}]
RemoveEncryptionKey(m, u) == [m EXCEPT !.keys = @ \ {u.name}]

UpgradeFailsAcceptsDowngrade(m, u) == u.id \notin 1..3

UpgradeFails(m, u) == u.id \notin 1..3 \/ u.id < m.version

UpgradeFormatVersion(m, u) == [m EXCEPT !.version = u.id]

----------------------------------------------------------------------------
(***************************************************************************)
(* applyUpdate                                                             *)
(***************************************************************************)

Fails(m, u) ==
    \/ ~u.valid
    \/ u.action = "assign-uuid" /\ AssignUUIDFails(m, u)
    \/ u.action = "upgrade-format-version" /\ UpgradeFails(m, u)
    \/ u.action \in {"add-schema", "add-spec", "add-sort-order"} /\ AddItemFails(m, u)
    \/ u.action \in {"set-current-schema", "set-default-spec", "set-default-sort-order"}
       /\ SetCurrentFails(m, u)
    \/ u.action \in {"remove-partition-specs", "remove-schemas"} /\ RemoveItemsFails(m, u)
    \/ u.action = "add-snapshot" /\ Float(u.id) \in m.snapshots
    \/ u.action = "set-snapshot-ref" /\ SetSnapshotRefFails(m, u)
    \/ u.action = "remove-snapshots" /\ RemoveSnapshotsFails(m, u)
    \/ u.action = "add-encryption-key" /\ AddEncryptionKeyFails(m, u)

Effect(m, u) ==
    CASE u.action = "assign-uuid" -> AssignUUID(m, u)
      [] u.action = "upgrade-format-version" -> UpgradeFormatVersion(m, u)
      [] u.action = "set-location" -> SetLocation(m, u)
      [] u.action \in {"add-schema", "add-spec", "add-sort-order"} -> AddItem(m, u)
      [] u.action \in {"set-current-schema", "set-default-spec", "set-default-sort-order"}
            -> SetCurrent(m, u)
      [] u.action = "add-snapshot" -> AddSnapshot(m, u)
      [] u.action = "set-snapshot-ref" -> SetSnapshotRef(m, u)
      [] u.action = "set-statistics" -> SetStatistics(m, u)
      [] u.action = "set-partition-statistics" -> SetPartitionStatistics(m, u)
      [] u.action = "set-properties" -> SetProperties(m, u)
      [] u.action = "remove-properties" -> RemoveProperties(m, u)
      [] u.action = "remove-statistics" -> RemoveStatistics(m, u)
      [] u.action = "remove-partition-statistics" -> RemovePartitionStatistics(m, u)
      [] u.action = "remove-snapshot-ref" -> RemoveSnapshotRef(m, u)
      [] u.action = "remove-snapshots" -> RemoveSnapshots(m, u)
      [] u.action \in {"remove-partition-specs", "remove-schemas"} -> RemoveItems(m, u)
      [] u.action = "add-encryption-key" -> AddEncryptionKey(m, u)
      [] u.action = "remove-encryption-key" -> RemoveEncryptionKey(m, u)

----------------------------------------------------------------------------
(***************************************************************************)
(* Processor.Apply                                                         *)
(***************************************************************************)
ProcessingOrderRefsFirst ==
    <<"assign-uuid", "upgrade-format-version", "set-location", "add-schema",
      "set-current-schema", "add-spec", "set-default-spec", "add-sort-order",
      "set-default-sort-order", "set-snapshot-ref", "add-snapshot", "set-statistics",
      "set-partition-statistics", "set-properties", "remove-properties",
      "remove-statistics", "remove-partition-statistics", "remove-snapshot-ref",
      "remove-snapshots", "remove-partition-specs", "remove-schemas",
      "add-encryption-key", "remove-encryption-key">>

ProcessingOrderSetFirst ==
    <<"assign-uuid", "upgrade-format-version", "set-location", "set-current-schema",
      "add-schema", "add-spec", "set-default-spec", "add-sort-order",
      "set-default-sort-order", "add-snapshot", "set-snapshot-ref", "set-statistics",
      "set-partition-statistics", "set-properties", "remove-properties",
      "remove-statistics", "remove-partition-statistics", "remove-snapshot-ref",
      "remove-snapshots", "remove-partition-specs", "remove-schemas",
      "add-encryption-key", "remove-encryption-key">>

ProcessingOrderRemovalsFirst ==
    <<"assign-uuid", "upgrade-format-version", "set-location", "add-schema",
      "set-current-schema", "add-spec", "set-default-spec", "add-sort-order",
      "set-default-sort-order", "remove-statistics", "remove-partition-statistics",
      "remove-snapshot-ref", "remove-snapshots", "add-snapshot", "set-snapshot-ref",
      "set-statistics", "set-partition-statistics", "remove-properties", "set-properties",
      "remove-partition-specs", "remove-schemas",
      "add-encryption-key", "remove-encryption-key">>

ProcessingOrder ==
    <<"assign-uuid", "upgrade-format-version", "set-location", "add-schema",
      "set-current-schema", "add-spec", "set-default-spec", "add-sort-order",
      "set-default-sort-order", "add-snapshot", "set-snapshot-ref", "set-statistics",
      "set-partition-statistics", "set-properties", "remove-properties",
      "remove-statistics", "remove-partition-statistics", "remove-snapshot-ref",
      "remove-snapshots", "remove-partition-specs", "remove-schemas",
      "add-encryption-key", "remove-encryption-key">>

Known(u) == \E k \in DOMAIN ProcessingOrder : ProcessingOrder[k] = u.action

Rank(i) == CHOOSE k \in DOMAIN ProcessingOrder : ProcessingOrder[k] = batch[i].action

\* The update that is applied next: of the first group in processingOrder that
\* has one left, the first in the request.
IsNext(i) ==
    /\ i \in todo
    /\ \A j \in todo : Rank(i) < Rank(j) \/ (Rank(i) = Rank(j) /\ i <= j)

\* The JSON round trip of the metadata from the row and through deepCopyMap.
DeepCopy(m) ==
    [m EXCEPT !.refs = [n \in RefNames |->
                          IF m.refs[n] = Null THEN Null
                          ELSE [m.refs[n] EXCEPT !.id = Float(@)]],
              !.currentSnapshot = IF @ = Null THEN Null ELSE Float(@)]

Init ==
    /\ table \in InitialTables
    /\ work = table
    /\ batch = <<>>
    /\ todo = {}
    /\ pc = "idle"
    /\ outcome = "none"
    /\ failed = 0
    /\ batches = 0

\* NewProcessor and parseUpdates: an update that has an unknown action, or does
\* not fit its action's type, fails the batch before any is applied.
Receive(b) ==
    /\ pc = "idle" /\ outcome = "none" /\ batches < MaxBatches
    /\ batches' = batches + 1
    /\ batch' = b
    /\ work' = DeepCopy(table)
    /\ failed' = 0
    /\ \/ /\ \A i \in DOMAIN b : Known(b[i])
          /\ todo' = DOMAIN b
          /\ pc' = "applying"
          /\ outcome' = "none"
       \/ /\ \E i \in DOMAIN b : ~Known(b[i])
          /\ todo' = {}
          /\ outcome' = "unparsed"
          /\ UNCHANGED pc
    /\ UNCHANGED table

ApplyUpdate(i) ==
    /\ pc = "applying" /\ IsNext(i) /\ ~Fails(work, batch[i])
    /\ work' = Effect(work, batch[i])
    /\ todo' = todo \ {i}
    /\ UNCHANGED <<table, batch, pc, outcome, failed, batches>>

\* The first error is returned: the rest of the batch is not tried, and the copy
\* is dropped.
RejectUpdateForgetsPosition(i) ==
    /\ pc = "applying" /\ IsNext(i) /\ Fails(work, batch[i])
    /\ outcome' = "failed"
    /\ pc' = "idle"
    /\ UNCHANGED <<table, work, batch, todo, failed, batches>>

RejectUpdate(i) ==
    /\ pc = "applying" /\ IsNext(i) /\ Fails(work, batch[i])
    /\ outcome' = "failed" /\ failed' = i
    /\ pc' = "idle"
    /\ UNCHANGED <<table, work, batch, todo, batches>>

\* Result, which CommitTable writes to the row.
Finish ==
    /\ pc = "applying" /\ todo = {}
    /\ table' = work
    /\ outcome' = "ok"
    /\ pc' = "idle"
    /\ UNCHANGED <<work, batch, todo, failed, batches>>

\* CommitTable returns: the processor of the request is gone.
Return ==
    /\ pc = "idle" /\ outcome # "none"
    /\ work' = table
    /\ batch' = <<>>
    /\ todo' = {}
    /\ outcome' = "none"
    /\ failed' = 0
    /\ UNCHANGED <<table, pc, batches>>

Next ==
    \/ pc = "idle" /\ outcome = "none" /\ \E b \in Batches : Receive(b)
    \/ \E i \in todo : ApplyUpdate(i) \/ RejectUpdate(i)
    \/ Finish
    \/ Return

Spec == Init /\ [][Next]_vars

----------------------------------------------------------------------------
(***************************************************************************)
(* Properties                                                              *)
(***************************************************************************)
Ref == [type : {"branch", "tag"}, id : Int]

\* The uuids, locations and keys that the requests carry.
GivenNames == {u.name : u \in Updates}

Metadata == [uuid : {"uuid"} \cup GivenNames, version : Int, location : {"location"} \cup GivenNames,
             items : [Kinds -> SUBSET [id : Int \cup {Null}, at : Nat]], adds : Nat,
             current : [Kinds -> Int \cup {Null}], lastField : [Kinds -> Nat],
             snapshots : SUBSET Int, snapshotLog : SUBSET Int, lastSequence : Nat,
             refs : [RefNames -> Ref \cup {Null}], currentSnapshot : Int \cup {Null},
             statistics : SUBSET Int, partitionStatistics : SUBSET Int,
             keys : SUBSET GivenNames, properties : SUBSET GivenNames]

\* The metadata keeps its shape through every update; a batch is applied or
\* refused as a whole, and a refusal names one of its updates.
TypeOK ==
    /\ table \in Metadata /\ work \in Metadata
    /\ batch \in Seq(Updates) /\ todo \subseteq DOMAIN batch
    /\ pc \in {"idle", "applying"}
    /\ outcome \in {"none", "ok", "failed", "unparsed"}
    /\ failed \in DOMAIN batch \cup {0}
    /\ (outcome = "failed") <=> (failed # 0)
    /\ batches \in 0..MaxBatches

\* A branch or a tag points to a snapshot of the table, ...
RefsResolveIn(m) ==
    \A n \in RefNames : m.refs[n] # Null => m.refs[n].id \in m.snapshots \/ m.refs[n].id < 0

\* ... the current snapshot is one of them, ...
CurrentResolvesIn(m) ==
    m.currentSnapshot # Null => m.currentSnapshot \in m.snapshots \/ m.currentSnapshot < 0

\* ... and it is that of main as long as main is a branch.
MainAgreesIn(m) ==
    m.refs["main"] # Null /\ m.refs["main"].type = "branch" => m.currentSnapshot = m.refs["main"].id

\* What set-snapshot-ref checks, remove-snapshots of the same or of any later
\* batch does not undo: refs and the current snapshot, even where no ref leads to
\* it any more because main became a tag, are snapshots that the table holds, and
\* the copy of main that applySetSnapshotRef and applyRemoveSnapshotRef keep in
\* current-snapshot-id agrees with it.  A negative id, which is not looked up, is
\* the exception.
SnapshotPointersResolve == RefsResolveIn(table) /\ CurrentResolvesIn(table) /\ MainAgreesIn(table)

\* No two schemas, specs or orders of a table have the same id, whether the
\* client or the processor chose it and whatever was removed in between.
UniqueIn(m) ==
    \A k \in Kinds : \A e, f \in m.items[k] : e.id = f.id /\ e.id # Null => e = f

ItemIdsAreUnique == UniqueIn(table)

\* A set-snapshot-ref is refused for want of its snapshot only when neither the
\* table nor the batch has it: where the request has the ref before the
\* snapshot, the processing order puts it right.  An id that is not exact as a
\* float64 is the exception: its snapshot is stored under another id.
RefusedRefIsMissing ==
    /\ outcome = "failed"
    /\ batch[failed].action = "set-snapshot-ref"
    /\ Float(batch[failed].id) = batch[failed].id
    /\ batch[failed].valid /\ batch[failed].type # "other"
    => /\ batch[failed].id \notin table.snapshots
       /\ \A i \in DOMAIN batch :
            batch[i].action = "add-snapshot" => batch[i].id # batch[failed].id

SetsRef(i, n) == batch[i].action = "set-snapshot-ref" /\ batch[i].name = n
RemovesRef(i, n) == batch[i].action = "remove-snapshot-ref" /\ batch[i].name = n
SetsMain(i) == SetsRef(i, "main") /\ batch[i].type = "branch"

LastOf(S) == CHOOSE i \in S : \A j \in S : j <= i

\* The ref n, and the current snapshot, after those of the updates at the
\* positions D that set them: of several, the last in the request counts.
RefSet(n, D) ==
    LET S == {i \in D : SetsRef(i, n)}
    IN  IF S = {} THEN table.refs[n] ELSE [type |-> batch[LastOf(S)].type, id |-> batch[LastOf(S)].id]

CurrentSet(D) ==
    LET S == {i \in D : SetsMain(i)}
    IN  IF S = {} THEN table.currentSnapshot ELSE batch[LastOf(S)].id

\* The same after the removals of refs, which come last wherever they are in the
\* request.  Without a branch main there is no current snapshot to clear.
RefAfter(n, D) == IF \E i \in D : RemovesRef(i, n) THEN Null ELSE RefSet(n, D)

CurrentAfter(D) ==
    LET main == RefSet("main", D)
    IN  IF (\E i \in D : RemovesRef(i, "main")) /\ main # Null /\ main.type = "branch"
        THEN Null ELSE CurrentSet(D)

\* A remove-snapshots is refused only for a snapshot that a ref, or the current
\* snapshot, holds once all that the batch says of them is done: a ref that the
\* batch removes, or moves elsewhere, does not hold it, even where the request
\* has that after the remove-snapshots.
RefusedRemovalIsPinned ==
    /\ outcome = "failed"
    /\ batch[failed].action = "remove-snapshots"
    /\ batch[failed].valid
    => \/ CurrentAfter(DOMAIN batch) \in batch[failed].ids
       \/ \E n \in RefNames : /\ RefAfter(n, DOMAIN batch) # Null
                              /\ RefAfter(n, DOMAIN batch).id \in batch[failed].ids

\* Process refuses no ref and no removal of snapshots because the request has it
\* before the update of another action that it needs.  (Updates of one action keep
\* the order of the request: of two that set a ref, which one comes last matters.)
RefusalsHaveReasons == RefusedRefIsMissing /\ RefusedRemovalIsPinned

\* Whatever their order in the request, the removals of a batch that is applied
\* have the last word: nothing that it removes is there afterwards.
RemovalsWin ==
    outcome = "ok" =>
      \A i \in DOMAIN batch :
        CASE batch[i].action = "remove-properties" -> batch[i].name \notin table.properties
          [] batch[i].action = "remove-encryption-key" -> batch[i].name \notin table.keys
          [] batch[i].action = "remove-statistics" -> batch[i].id \notin table.statistics
          [] batch[i].action = "remove-partition-statistics" -> batch[i].id \notin table.partitionStatistics
          [] batch[i].action = "remove-snapshot-ref" -> table.refs[batch[i].name] = Null
          [] batch[i].action = "remove-snapshots" -> batch[i].ids \cap table.snapshots = {}
          [] OTHER -> TRUE

SetsCurrent(i, k) ==
    /\ batch[i].action \in {"set-current-schema", "set-default-spec", "set-default-sort-order"}
    /\ KindOf(batch[i]) = k

\* "-1 means use the last added": a batch that ends with it leaves the newest
\* item current, the one that the batch itself adds included.
LastAddedBecomesCurrent ==
    outcome = "ok" =>
      \A i \in DOMAIN batch : \A k \in Kinds :
        /\ SetsCurrent(i, k) /\ batch[i].id = -1
        /\ \A j \in DOMAIN batch : SetsCurrent(j, k) => j <= i
        /\ \A j \in DOMAIN batch : batch[j].action \notin {"remove-schemas", "remove-partition-specs"}
        => table.current[k] = Latest(table, k).id

\* Once the current schema, spec or order is one that the table has, it stays
\* so: removals spare it.  CreateTable may begin with an id that is not there.
StaysResolved(m, n) ==
    \A k \in Kinds : m.current[k] \in Ids(m, k) => n.current[k] \in Ids(n, k)

CurrentIdsStayResolved == [][StaysResolved(table, table')]_vars

\* No commit takes a table back: its uuid stays, and neither the format version
\* nor the last column, partition field and sequence numbers ever decrease.
Advances(m, n) ==
    /\ n.uuid = m.uuid /\ n.version >= m.version
    /\ n.lastSequence >= m.lastSequence
    /\ \A k \in Kinds : n.lastField[k] >= m.lastField[k]

MetadataNeverRegresses == [][Advances(table, table')]_vars

----------------------------------------------------------------------------
(***************************************************************************)
(* The inductive invariant: both copies of the metadata are sound, and the *)
(* working copy follows the table that the batch began with.  Snapshot ids *)
(* are floats, so that the round trip of a ref does not lose its snapshot. *)
(***************************************************************************)
Fields == {"uuid", "version", "location", "items", "adds", "current", "lastField",
           "snapshots", "snapshotLog", "lastSequence", "refs", "currentSnapshot",
           "statistics", "partitionStatistics", "keys", "properties"}

Shape(m) ==
    /\ DOMAIN m = Fields
    /\ DOMAIN m.items = Kinds /\ DOMAIN m.current = Kinds /\ m.lastField \in [Kinds -> Nat]
    /\ m.version \in Int /\ m.lastSequence \in Nat
    /\ m.snapshots \subseteq Int /\ m.refs \in [RefNames -> Ref \cup {Null}]
    /\ m.currentSnapshot \in Int \cup {Null}

Sound(m) ==
    /\ Shape(m)
    /\ \A s \in m.snapshots : Float(s) = s
    /\ RefsResolveIn(m) /\ CurrentResolvesIn(m) /\ MainAgreesIn(m)
    /\ UniqueIn(m)

Follows(m, n) == StaysResolved(m, n) /\ Advances(m, n)

BatchIsKnown ==
    /\ batch \in Seq(Updates) /\ todo \subseteq DOMAIN batch
    /\ pc = "applying" => \A i \in DOMAIN batch : Known(batch[i])

IndInv ==
    /\ Sound(table) /\ Sound(work)
    /\ BatchIsKnown
    /\ pc = "applying" => Follows(table, work)
=============================================================================
