----------------------- MODULE UpdateProcessorProofs -----------------------
(***************************************************************************)
(* Proofs about UpdateProcessor: whatever the updates and however many of  *)
(* them, the metadata stays sound.                                         *)
(***************************************************************************)
EXTENDS UpdateProcessor, WellFoundedInduction, TLAPS

----------------------------------------------------------------------------
(***************************************************************************)
(* Operators                                                               *)
(***************************************************************************)
\* What has been a float64 once is not rounded again, and small or negative ids
\* are not rounded at all.
LEMMA FloatIdempotent ==
    ASSUME NEW n \in Int
    PROVE  Float(n) \in Int /\ Float(Float(n)) = Float(n) /\ (n < 0 => Float(n) = n)
BY BoundsAssumption DEF Float

\* The data of an update has its type.
LEMMA UpdateType ==
    ASSUME NEW u \in Updates
    PROVE  /\ u.id \in Int /\ u.ids \subseteq Int /\ u.num \in Nat
           /\ u.type \in {"branch", "tag", "other"}
BY UpdatesAssumption DEF Update

\* parseUpdate knows the actions of processingOrder and no other.
LEMMA KnownActions ==
    ASSUME NEW u, Known(u)
    PROVE  u.action \in
             {"assign-uuid", "upgrade-format-version", "set-location", "add-schema",
              "set-current-schema", "add-spec", "set-default-spec", "add-sort-order",
              "set-default-sort-order", "add-snapshot", "set-snapshot-ref", "set-statistics",
              "set-partition-statistics", "set-properties", "remove-properties",
              "remove-statistics", "remove-partition-statistics", "remove-snapshot-ref",
              "remove-snapshots", "remove-partition-specs", "remove-schemas",
              "add-encryption-key", "remove-encryption-key"}
BY DEF Known, ProcessingOrder

\* Metadata that agrees with sound metadata on snapshots, refs and items is sound.
LEMMA SoundSame ==
    ASSUME NEW m, NEW n, Sound(m), Shape(n), n.snapshots = m.snapshots, n.refs = m.refs,
           n.currentSnapshot = m.currentSnapshot, UniqueIn(n)
    PROVE  Sound(n)
BY DEF Sound, RefsResolveIn, CurrentResolvesIn, MainAgreesIn

\* Metadata that agrees on the items keeps their ids unique and resolved.
LEMMA ItemsSame ==
    ASSUME NEW m, NEW n, n.items = m.items
    PROVE  /\ UniqueIn(m) => UniqueIn(n)
           /\ n.current = m.current => StaysResolved(m, n)
BY DEF UniqueIn, StaysResolved, Ids

\* Following is transitive.
LEMMA FollowsTransitive ==
    ASSUME NEW l, NEW m, NEW n, Shape(l), Shape(m), Shape(n), Follows(l, m), Follows(m, n)
    PROVE  Follows(l, n)
<1>1. StaysResolved(l, n)
  BY DEF Follows, StaysResolved
<1>2. Advances(l, n)
  BY DEF Follows, Advances, Shape
<1> QED
  BY <1>1, <1>2 DEF Follows

----------------------------------------------------------------------------
(***************************************************************************)
(* Each update keeps the metadata sound                                    *)
(***************************************************************************)
\* applyAddSchema, applyAddSpec and applyAddSortOrder: the id is a new one.
LEMMA AddItemSound ==
    ASSUME NEW m, Sound(m), NEW u \in Updates, KindOf(u) \in Kinds, ~AddItemFails(m, u)
    PROVE  Sound(AddItem(m, u)) /\ Follows(m, AddItem(m, u))
<1> DEFINE k == KindOf(u)
           n == AddItem(m, u)
           new == Entry(NewId(m, k, u), m.adds + 1)
<1>1. /\ Shape(n) /\ n.snapshots = m.snapshots /\ n.refs = m.refs
      /\ n.currentSnapshot = m.currentSnapshot /\ n.current = m.current
      /\ n.uuid = m.uuid /\ n.version = m.version /\ n.lastSequence = m.lastSequence
      /\ \A j \in Kinds : n.lastField[j] >= m.lastField[j]
      /\ n.items[k] = m.items[k] \cup {new}
      /\ \A j \in Kinds \ {k} : n.items[j] = m.items[j]
  BY UpdateType DEF AddItem, Sound, Shape, Fields
<1>2. UniqueIn(n)
  <2> SUFFICES ASSUME NEW j \in Kinds, NEW e \in n.items[j], NEW f \in n.items[j],
                      e.id = f.id, e.id # Null
               PROVE  e = f
    BY DEF UniqueIn
  <2>1. CASE e \in m.items[j] /\ f \in m.items[j]
    BY <2>1 DEF Sound, UniqueIn
  <2>2. new.id \notin Ids(m, k)
    BY DEF AddItemFails, Entry
  <2>3. \A g \in m.items[k] : g.id # Null => g.id \in Ids(m, k)
    BY DEF Ids
  <2> QED
    BY <1>1, <2>1, <2>2, <2>3
<1>3. StaysResolved(m, n)
  BY <1>1 DEF StaysResolved, Ids
<1>4. Sound(n)
  BY <1>1, <1>2, SoundSame
<1> QED
  BY <1>1, <1>3, <1>4 DEF Follows, Advances, Sound, Shape

\* applySetCurrentSchema, applySetDefaultSpec and applySetDefaultSortOrder: the
\* new current id is one of the items'.
LEMMA SetCurrentSound ==
    ASSUME NEW m, Sound(m), NEW u \in Updates, KindOf(u) \in Kinds, ~SetCurrentFails(m, u)
    PROVE  Sound(SetCurrent(m, u)) /\ Follows(m, SetCurrent(m, u))
<1> DEFINE n == SetCurrent(m, u)
<1>1. /\ Shape(n) /\ n.snapshots = m.snapshots /\ n.refs = m.refs
      /\ n.currentSnapshot = m.currentSnapshot /\ n.items = m.items
      /\ n.uuid = m.uuid /\ n.version = m.version /\ n.lastSequence = m.lastSequence
      /\ n.lastField = m.lastField
      /\ n.current[KindOf(u)] = TargetId(m, KindOf(u), u)
      /\ \A j \in Kinds \ {KindOf(u)} : n.current[j] = m.current[j]
  BY DEF SetCurrent, Sound, Shape, Fields
<1>2. StaysResolved(m, n)
  BY <1>1 DEF StaysResolved, Ids, SetCurrentFails
<1>3. Sound(n)
  BY <1>1, SoundSame, ItemsSame DEF Sound
<1> QED
  BY <1>1, <1>2, <1>3 DEF Follows, Advances, Sound, Shape

\* applyRemoveSchemas and applyRemovePartitionSpecs: the protected item stays.
LEMMA RemoveItemsSound ==
    ASSUME NEW m, Sound(m), NEW u \in Updates, KindOf(u) \in Kinds, ~RemoveItemsFails(m, u)
    PROVE  Sound(RemoveItems(m, u)) /\ Follows(m, RemoveItems(m, u))
<1> DEFINE k == KindOf(u)
           n == RemoveItems(m, u)
<1>1. /\ Shape(n) /\ n.snapshots = m.snapshots /\ n.refs = m.refs
      /\ n.currentSnapshot = m.currentSnapshot /\ n.current = m.current
      /\ n.uuid = m.uuid /\ n.version = m.version /\ n.lastSequence = m.lastSequence
      /\ n.lastField = m.lastField
      /\ n.items[k] = Remaining(m, k, u)
      /\ \A j \in Kinds \ {k} : n.items[j] = m.items[j]
  BY DEF RemoveItems, Sound, Shape, Fields
<1>2. UniqueIn(n)
  BY <1>1 DEF UniqueIn, Remaining, Sound
<1>3. StaysResolved(m, n)
  <2> SUFFICES ASSUME NEW j \in Kinds, m.current[j] \in Ids(m, j)
               PROVE  n.current[j] \in Ids(n, j)
    BY DEF StaysResolved
  <2>1. CASE j # k
    BY <1>1, <2>1 DEF Ids
  <2>2. CASE j = k
    <3>1. PICK e \in m.items[k] : e.id = m.current[k] /\ e.id # Null
      BY <2>2 DEF Ids
    <3>2. e.id \notin u.ids
      BY <3>1 DEF RemoveItemsFails, ProtectedId
    <3>3. e \in n.items[k]
      BY <1>1, <3>1, <3>2 DEF Remaining
    <3> QED
      BY <1>1, <2>2, <3>1, <3>3 DEF Ids
  <2> QED
    BY <2>1, <2>2
<1>4. Sound(n)
  BY <1>1, <1>2, SoundSame
<1> QED
  BY <1>1, <1>3, <1>4 DEF Follows, Advances, Sound, Shape

\* applyAddSnapshot: refs and the current snapshot keep what they point to.
LEMMA AddSnapshotSound ==
    ASSUME NEW m, Sound(m), NEW u \in Updates
    PROVE  Sound(AddSnapshot(m, u)) /\ Follows(m, AddSnapshot(m, u))
<1> DEFINE n == AddSnapshot(m, u)
<1>0. u.id \in Int /\ u.num \in Nat
  BY UpdateType
<1>1. Float(u.id) \in Int /\ Float(Float(u.id)) = Float(u.id)
  BY <1>0, FloatIdempotent
<1>2. /\ Shape(n) /\ n.snapshots = m.snapshots \cup {Float(u.id)}
      /\ n.refs = m.refs /\ n.currentSnapshot = m.currentSnapshot
      /\ n.items = m.items /\ n.current = m.current /\ n.lastField = m.lastField
      /\ n.uuid = m.uuid /\ n.version = m.version /\ n.lastSequence >= m.lastSequence
  BY <1>0, <1>1 DEF AddSnapshot, Sound, Shape, Fields
<1>3. Sound(n)
  BY <1>1, <1>2, ItemsSame DEF Sound, RefsResolveIn, CurrentResolvesIn, MainAgreesIn
<1> QED
  BY <1>2, <1>3, ItemsSame DEF Follows, Advances, Sound, Shape

\* applySetSnapshotRef: the ref points to a snapshot that was looked up.
LEMMA SetSnapshotRefSound ==
    ASSUME NEW m, Sound(m), NEW u \in Updates, u.name \in RefNames, ~SetSnapshotRefFails(m, u)
    PROVE  Sound(SetSnapshotRef(m, u)) /\ Follows(m, SetSnapshotRef(m, u))
<1> DEFINE n == SetSnapshotRef(m, u)
           r == [type |-> u.type, id |-> u.id]
<1>0. u.id \in Int /\ u.type \in {"branch", "tag"} /\ (u.id \in m.snapshots \/ u.id < 0)
  BY UpdateType DEF SetSnapshotRefFails
<1>1. r \in Ref /\ r # Null
  BY <1>0, NullAssumption DEF Ref
<1>2. /\ n.snapshots = m.snapshots /\ n.items = m.items
      /\ n.current = m.current /\ n.lastField = m.lastField
      /\ n.uuid = m.uuid /\ n.version = m.version /\ n.lastSequence = m.lastSequence
      /\ n.refs = [m.refs EXCEPT ![u.name] = r]
      /\ n.currentSnapshot = IF u.name = "main" /\ u.type = "branch" THEN u.id ELSE m.currentSnapshot
      /\ DOMAIN n = Fields
  BY DEF SetSnapshotRef, Sound, Shape, Fields
<1>3. Shape(n)
  BY <1>0, <1>1, <1>2 DEF Sound, Shape
<1>4. RefsResolveIn(n)
  BY <1>0, <1>2 DEF RefsResolveIn, Sound, Shape
<1>5. CurrentResolvesIn(n)
  BY <1>0, <1>2 DEF CurrentResolvesIn, Sound
<1>6. MainAgreesIn(n)
  BY <1>0, <1>2, BoundsAssumption DEF MainAgreesIn, Sound, Shape
<1>7. Sound(n)
  BY <1>2, <1>3, <1>4, <1>5, <1>6, ItemsSame DEF Sound
<1> QED
  BY <1>2, <1>7, ItemsSame DEF Follows, Advances, Sound, Shape

\* applyRemoveSnapshotRef: without main there is no current snapshot to agree with.
LEMMA RemoveSnapshotRefSound ==
    ASSUME NEW m, Sound(m), NEW u \in Updates, u.name \in RefNames
    PROVE  Sound(RemoveSnapshotRef(m, u)) /\ Follows(m, RemoveSnapshotRef(m, u))
<1> DEFINE n == RemoveSnapshotRef(m, u)
<1>1. /\ n.snapshots = m.snapshots /\ n.items = m.items
      /\ n.current = m.current /\ n.lastField = m.lastField
      /\ n.uuid = m.uuid /\ n.version = m.version /\ n.lastSequence = m.lastSequence
      /\ n.refs = [m.refs EXCEPT ![u.name] = Null]
      /\ n.currentSnapshot \in {m.currentSnapshot, Null}
      /\ u.name # "main" => n.currentSnapshot = m.currentSnapshot
      /\ DOMAIN n = Fields
  BY DEF RemoveSnapshotRef, Sound, Shape, Fields
<1>2. Shape(n)
  BY <1>1 DEF Sound, Shape
<1>3. RefsResolveIn(n) /\ CurrentResolvesIn(n)
  BY <1>1 DEF RefsResolveIn, CurrentResolvesIn, Sound, Shape
<1>4. MainAgreesIn(n)
  BY <1>1, BoundsAssumption DEF MainAgreesIn, Sound, Shape
<1>5. Sound(n)
  BY <1>1, <1>2, <1>3, <1>4, ItemsSame DEF Sound
<1> QED
  BY <1>1, <1>5, ItemsSame DEF Follows, Advances, Sound, Shape

\* applyRemoveSnapshots: nothing that a ref or the current snapshot needs goes.
LEMMA RemoveSnapshotsSound ==
    ASSUME NEW m, Sound(m), NEW u \in Updates, ~RemoveSnapshotsFails(m, u)
    PROVE  Sound(RemoveSnapshots(m, u)) /\ Follows(m, RemoveSnapshots(m, u))
<1> DEFINE n == RemoveSnapshots(m, u)
<1>1. /\ Shape(n) /\ n.snapshots = m.snapshots \ u.ids
      /\ n.refs = m.refs /\ n.currentSnapshot = m.currentSnapshot
      /\ n.items = m.items /\ n.current = m.current /\ n.lastField = m.lastField
      /\ n.uuid = m.uuid /\ n.version = m.version /\ n.lastSequence = m.lastSequence
  BY DEF RemoveSnapshots, Sound, Shape, Fields
<1>2. RefsResolveIn(n)
  BY <1>1 DEF RefsResolveIn, Sound, RemoveSnapshotsFails, Referenced
<1>3. CurrentResolvesIn(n)
  BY <1>1 DEF CurrentResolvesIn, Sound, RemoveSnapshotsFails
<1>4. Sound(n)
  BY <1>1, <1>2, <1>3, ItemsSame DEF Sound, MainAgreesIn
<1> QED
  BY <1>1, <1>4, ItemsSame DEF Follows, Advances, Sound, Shape

\* Every other update: what it changes is neither a snapshot, a ref nor an item.
LEMMA OtherSound ==
    ASSUME NEW m, Sound(m), NEW n, DOMAIN n = Fields, n.items = m.items, n.current = m.current,
           n.lastField = m.lastField, n.snapshots = m.snapshots, n.refs = m.refs,
           n.currentSnapshot = m.currentSnapshot, n.lastSequence = m.lastSequence,
           n.uuid = m.uuid, n.version \in Int, n.version >= m.version
    PROVE  Sound(n) /\ Follows(m, n)
<1>1. Shape(n)
  BY DEF Sound, Shape
<1>2. Sound(n)
  BY <1>1, SoundSame, ItemsSame DEF Sound
<1> QED
  BY <1>2, ItemsSame DEF Follows, Advances, Sound, Shape

\* applyUpdate: an update that is accepted keeps the metadata sound.
LEMMA EffectSound ==
    ASSUME NEW m, Sound(m), NEW u \in Updates, Known(u), ~Fails(m, u)
    PROVE  Sound(Effect(m, u)) /\ Follows(m, Effect(m, u))
<1>1. CASE u.action \in {"add-schema", "add-spec", "add-sort-order"}
  <2>1. KindOf(u) \in Kinds /\ ~AddItemFails(m, u) /\ Effect(m, u) = AddItem(m, u)
    BY <1>1 DEF KindOf, Kinds, Fails, Effect
  <2> QED
    BY <2>1, AddItemSound
<1>2. CASE u.action \in {"set-current-schema", "set-default-spec", "set-default-sort-order"}
  <2>1. KindOf(u) \in Kinds /\ ~SetCurrentFails(m, u) /\ Effect(m, u) = SetCurrent(m, u)
    BY <1>2 DEF KindOf, Kinds, Fails, Effect
  <2> QED
    BY <2>1, SetCurrentSound
<1>3. CASE u.action \in {"remove-partition-specs", "remove-schemas"}
  <2>1. KindOf(u) \in Kinds /\ ~RemoveItemsFails(m, u) /\ Effect(m, u) = RemoveItems(m, u)
    BY <1>3 DEF KindOf, Kinds, Fails, Effect
  <2> QED
    BY <2>1, RemoveItemsSound
<1>4. CASE u.action = "add-snapshot"
  <2>1. Effect(m, u) = AddSnapshot(m, u)
    BY <1>4 DEF Effect
  <2> QED
    BY <2>1, AddSnapshotSound
<1>5. CASE u.action = "set-snapshot-ref"
  <2>1. u.name \in RefNames /\ ~SetSnapshotRefFails(m, u) /\ Effect(m, u) = SetSnapshotRef(m, u)
    BY <1>5, UpdateNames DEF Effect, Fails
  <2> QED
    BY <2>1, SetSnapshotRefSound
<1>6. CASE u.action = "remove-snapshot-ref"
  <2>1. u.name \in RefNames /\ Effect(m, u) = RemoveSnapshotRef(m, u)
    BY <1>6, UpdateNames DEF Effect
  <2> QED
    BY <2>1, RemoveSnapshotRefSound
<1>7. CASE u.action = "remove-snapshots"
  <2>1. ~RemoveSnapshotsFails(m, u) /\ Effect(m, u) = RemoveSnapshots(m, u)
    BY <1>7 DEF Effect, Fails
  <2> QED
    BY <2>1, RemoveSnapshotsSound
<1>8. CASE u.action = "assign-uuid"
  <2>1. Effect(m, u) = [m EXCEPT !.uuid = u.name] /\ u.name = m.uuid
    BY <1>8 DEF Effect, Fails, AssignUUID, AssignUUIDFails
  <2> QED
    BY <2>1, OtherSound DEF Sound, Shape, Fields
<1>9. CASE u.action = "upgrade-format-version"
  <2>1. Effect(m, u) = [m EXCEPT !.version = u.id] /\ ~(u.id < m.version) /\ u.id \in Int
    BY <1>9, UpdateType DEF Effect, Fails, UpgradeFails, UpgradeFormatVersion
  <2> QED
    BY <2>1, OtherSound DEF Sound, Shape, Fields
<1>10. CASE u.action \in {"set-location", "set-statistics", "set-partition-statistics",
                          "set-properties", "remove-properties", "remove-statistics",
                          "remove-partition-statistics", "add-encryption-key",
                          "remove-encryption-key"}
  <2> DEFINE n == Effect(m, u)
  <2>1. /\ DOMAIN n = Fields /\ n.items = m.items /\ n.current = m.current
        /\ n.lastField = m.lastField /\ n.snapshots = m.snapshots /\ n.refs = m.refs
        /\ n.currentSnapshot = m.currentSnapshot /\ n.lastSequence = m.lastSequence
        /\ n.uuid = m.uuid /\ n.version = m.version
    BY <1>10 DEF Effect, Sound, Shape, Fields, SetLocation, SetStatistics, RemoveStatistics,
       SetPartitionStatistics, RemovePartitionStatistics, SetProperties, RemoveProperties,
       AddEncryptionKey, RemoveEncryptionKey
  <2>2. m.version \in Int
    BY DEF Sound, Shape
  <2> HIDE DEF n
  <2>3. Sound(n) /\ Follows(m, n)
    BY <2>1, <2>2, OtherSound
  <2> QED
    BY <2>3 DEF n
<1> QED
  BY <1>1, <1>2, <1>3, <1>4, <1>5, <1>6, <1>7, <1>8, <1>9, <1>10, KnownActions

\* The JSON round trip keeps the metadata sound: no ref loses its snapshot.
LEMMA DeepCopySound ==
    ASSUME NEW m, Sound(m)
    PROVE  Sound(DeepCopy(m)) /\ Follows(m, DeepCopy(m))
<1> DEFINE n == DeepCopy(m)
<1>1. \A x \in Int : Float(x) \in Int /\ (x < 0 => Float(x) = x)
  BY FloatIdempotent
<1>2. \A x \in Int : x \in m.snapshots \/ x < 0 => Float(x) = x
  BY <1>1 DEF Sound
<1>3. ASSUME NEW x \in RefNames, m.refs[x] # Null
      PROVE  [m.refs[x] EXCEPT !.id = Float(@)] = m.refs[x]
  <2>1. m.refs[x] \in Ref /\ (m.refs[x].id \in m.snapshots \/ m.refs[x].id < 0)
    BY <1>3 DEF Sound, Shape, RefsResolveIn
  <2>2. Float(m.refs[x].id) = m.refs[x].id
    BY <2>1, <1>2 DEF Ref
  <2> QED
    BY <2>1, <2>2 DEF Ref
<1>4. m.currentSnapshot # Null => Float(m.currentSnapshot) = m.currentSnapshot
  BY <1>2 DEF Sound, Shape, CurrentResolvesIn
<1>5. n.refs = m.refs
  <2>1. n.refs = [x \in RefNames |-> IF m.refs[x] = Null THEN Null
                                     ELSE [m.refs[x] EXCEPT !.id = Float(@)]]
    BY DEF DeepCopy, Sound, Shape, Fields
  <2>2. m.refs = [x \in RefNames |-> m.refs[x]]
    BY DEF Sound, Shape
  <2> QED
    BY <2>1, <2>2, <1>3
<1>6. /\ DOMAIN n = Fields /\ n.items = m.items /\ n.current = m.current
      /\ n.lastField = m.lastField /\ n.snapshots = m.snapshots
      /\ n.currentSnapshot = m.currentSnapshot /\ n.lastSequence = m.lastSequence
      /\ n.uuid = m.uuid /\ n.version = m.version /\ m.version \in Int
  BY <1>4 DEF DeepCopy, Sound, Shape, Fields
<1> HIDE DEF n
<1>7. Sound(n) /\ Follows(m, n)
  BY <1>5, <1>6, OtherSound
<1> QED
  BY <1>7 DEF n

----------------------------------------------------------------------------
(***************************************************************************)
(* The inductive invariant                                                 *)
(***************************************************************************)
\* CreateTable and RegisterTable write sound metadata.
LEMMA InitialSound ==
    ASSUME NEW m \in InitialTables
    PROVE  Sound(m)
<1> USE NullAssumption, BoundsAssumption
<1>1. CASE m = Registered
  <2>1. Shape(m)
    BY <1>1 DEF Registered, Blank, Shape, Fields, Kinds
  <2>2. m.snapshots = {} /\ m.currentSnapshot = Null /\ m.refs = [n \in RefNames |-> Null]
        /\ m.items = [k \in Kinds |-> {}]
    BY <1>1 DEF Registered, Blank
  <2> QED
    BY <2>1, <2>2 DEF Sound, RefsResolveIn, CurrentResolvesIn, MainAgreesIn, UniqueIn
<1>2. CASE \E ids \in InitialIds : m = Created(ids)
  <2>1. PICK ids \in InitialIds : m = Created(ids)
    BY <1>2
  <2>2. Shape(m)
    BY <2>1 DEF Created, Blank, Shape, Fields, Kinds
  <2>3. m.snapshots = {} /\ m.currentSnapshot = Null /\ m.refs = [n \in RefNames |-> Null]
        /\ m.items = [k \in Kinds |-> {Entry(ids[k], 0)}]
    BY <2>1 DEF Created, Blank
  <2> QED
    BY <2>2, <2>3 DEF Sound, RefsResolveIn, CurrentResolvesIn, MainAgreesIn, UniqueIn
<1> QED
  BY <1>1, <1>2 DEF InitialTables

\* It holds at first.
LEMMA IndInvInit == Init => IndInv
<1> SUFFICES ASSUME Init PROVE IndInv
  OBVIOUS
<1>1. Sound(table) /\ Sound(work)
  BY InitialSound DEF Init
<1>2. BatchIsKnown
  BY DEF Init, BatchIsKnown
<1> QED
  BY <1>1, <1>2 DEF IndInv, Init

\* Receiving a batch, applying or refusing one of its updates, and finishing it
\* preserve it.
LEMMA IndInvStep == IndInv /\ [Next]_vars => IndInv'
<1> SUFFICES ASSUME IndInv, [Next]_vars PROVE IndInv'
  OBVIOUS
<1>1. ASSUME NEW b \in Batches, Receive(b) PROVE IndInv'
  <2>1. Sound(table)' /\ Sound(work)' /\ Follows(table, work)'
    BY <1>1, DeepCopySound DEF Receive, IndInv
  <2>2. b \in Seq(Updates)
    BY BoundsAssumption DEF Batches
  <2>3. BatchIsKnown'
    BY <1>1, <2>2 DEF Receive, BatchIsKnown, Known
  <2> QED
    BY <2>1, <2>3 DEF IndInv
<1>2. ASSUME NEW i \in todo, ApplyUpdate(i) PROVE IndInv'
  <2>1. batch[i] \in Updates /\ Known(batch[i]) /\ ~Fails(work, batch[i])
    BY <1>2 DEF IndInv, BatchIsKnown, ApplyUpdate
  <2>2. work' = Effect(work, batch[i]) /\ table' = table /\ pc' = pc /\ pc = "applying"
        /\ batch' = batch /\ todo' \subseteq todo
    BY <1>2 DEF ApplyUpdate
  <2>3. Sound(Effect(work, batch[i])) /\ Follows(work, Effect(work, batch[i]))
    BY <2>1, EffectSound DEF IndInv
  <2>4. Follows(table, Effect(work, batch[i]))
    BY <2>2, <2>3, FollowsTransitive DEF IndInv, Sound
  <2>5. BatchIsKnown'
    BY <2>2 DEF IndInv, BatchIsKnown, Known
  <2>6. Sound(table)' /\ Sound(work)' /\ Follows(table, work)'
    BY <2>2, <2>3, <2>4 DEF IndInv
  <2> QED
    BY <2>5, <2>6 DEF IndInv
<1>3. ASSUME NEW i \in todo, RejectUpdate(i) PROVE IndInv'
  <2>1. table' = table /\ work' = work /\ batch' = batch /\ todo' = todo /\ pc' = "idle"
    BY <1>3 DEF RejectUpdate
  <2> QED
    BY <2>1 DEF IndInv, BatchIsKnown
<1>4. CASE Finish
  <2>1. table' = work /\ work' = work /\ batch' = batch /\ todo' = todo /\ pc' = "idle"
    BY <1>4 DEF Finish
  <2> QED
    BY <2>1 DEF IndInv, BatchIsKnown
<1>5. CASE UNCHANGED vars
  <2>1. table' = table /\ work' = work /\ batch' = batch /\ todo' = todo /\ pc' = pc
    BY <1>5 DEF vars
  <2> QED
    BY <2>1 DEF IndInv, BatchIsKnown, Known
<1>6. CASE Return
  <2>1. table' = table /\ work' = table /\ batch' = <<>> /\ todo' = {} /\ pc' = "idle"
    BY <1>6 DEF Return
  <2> QED
    BY <2>1 DEF IndInv, BatchIsKnown
<1> QED
  BY <1>1, <1>2, <1>3, <1>4, <1>5, <1>6 DEF Next

\* Both copies of the metadata are sound in every reachable state.
THEOREM MetadataStaysSound == Spec => []IndInv
BY IndInvInit, IndInvStep, PTL DEF Spec

----------------------------------------------------------------------------
(***************************************************************************)
(* What it gives                                                           *)
(***************************************************************************)
\* No sequence of batches leaves a ref or the current snapshot without its
\* snapshot, or current-snapshot-id at odds with main.
THEOREM PointersNeverDangle == Spec => []SnapshotPointersResolve
<1>1. IndInv => SnapshotPointersResolve
  BY DEF IndInv, Sound, SnapshotPointersResolve
<1> QED
  BY <1>1, MetadataStaysSound, PTL

\* Ids of schemas, specs and orders are never used twice at a time.
THEOREM ItemIdsStayUnique == Spec => []ItemIdsAreUnique
<1>1. IndInv => ItemIdsAreUnique
  BY DEF IndInv, Sound, ItemIdsAreUnique
<1> QED
  BY <1>1, MetadataStaysSound, PTL

\* The table only changes when a batch is finished, to a copy that follows it.
LEMMA TableFollows ==
    IndInv /\ [Next]_vars => UNCHANGED table \/ Follows(table, table')
<1> SUFFICES ASSUME IndInv, [Next]_vars PROVE UNCHANGED table \/ Follows(table, table')
  OBVIOUS
<1>1. CASE Finish
  BY <1>1 DEF Finish, IndInv
<1> QED
  BY <1>1 DEF Next, vars, Receive, ApplyUpdate, RejectUpdate, Return

\* Removals never take away the current schema, the default spec or the default
\* order, whatever else their batch does.
THEOREM CurrentIdsNeverDangle == Spec => CurrentIdsStayResolved
<1>1. IndInv /\ [Next]_vars => [StaysResolved(table, table')]_vars
  BY TableFollows DEF Follows, StaysResolved, Ids
<1> QED
  BY <1>1, MetadataStaysSound, PTL DEF Spec, CurrentIdsStayResolved

\* No commit takes the uuid, the format version or a counter back.
THEOREM MetadataAdvances == Spec => MetadataNeverRegresses
<1>1. IndInv /\ [Next]_vars => [Advances(table, table')]_vars
  <2> SUFFICES ASSUME IndInv, [Next]_vars PROVE Advances(table, table')
    OBVIOUS
  <2>1. CASE UNCHANGED table
    BY <2>1 DEF Advances, IndInv, Sound, Shape
  <2> QED
    BY <2>1, TableFollows DEF Follows
<1> QED
  BY <1>1, MetadataStaysSound, PTL DEF Spec, MetadataNeverRegresses

----------------------------------------------------------------------------
(***************************************************************************)
(* The invariant about the order of a batch.  The groups are applied in    *)
(* the order of processingOrder, so that what one group has established,   *)
(* no later one undoes; a refusal comes when all that could have prevented *)
(* it has been applied.                                                    *)
(***************************************************************************)
Applied == DOMAIN batch \ todo

\* The entries of a list have ids and ordinals of their own, of which there is a
\* highest one; only what CreateTable wrote may lack an id or have the id -1.
Itemized(m) ==
    /\ \A k \in Kinds : \E b \in Nat : \A i \in Ids(m, k) : i <= b
    /\ \A k \in Kinds : \A e \in m.items[k] :
         e.at <= m.adds /\ (e.id = Null \/ e.id = -1 => e.at = 0)
    /\ \A k \in Kinds : \A e, f \in m.items[k] : e.at = f.at => e = f

\* What was applied comes before what is left.
InOrder == \A i \in Applied : \A j \in todo : Rank(i) < Rank(j) \/ (Rank(i) = Rank(j) /\ i < j)

\* What the update u removes is not in m.
RemovedIn(m, u) ==
    /\ u.action = "remove-properties" => u.name \notin m.properties
    /\ u.action = "remove-encryption-key" => u.name \notin m.keys
    /\ u.action = "remove-statistics" => u.id \notin m.statistics
    /\ u.action = "remove-partition-statistics" => u.id \notin m.partitionStatistics
    /\ u.action = "remove-snapshot-ref" => m.refs[u.name] = Null
    /\ u.action = "remove-snapshots" => u.ids \cap m.snapshots = {}

RemovedSoFar == \A i \in Applied : RemovedIn(work, batch[i])

\* Until the first remove-snapshots, no snapshot is missing.
SnapshotsSoFar ==
    (\A i \in Applied : batch[i].action # "remove-snapshots") =>
      /\ table.snapshots \subseteq work.snapshots
      /\ \A i \in Applied : batch[i].action = "add-snapshot" => Float(batch[i].id) \in work.snapshots

\* The refs and the current snapshot are those that the updates applied so far
\* come to.
RefsSoFar ==
    /\ \A n \in RefNames : work.refs[n] = RefAfter(n, Applied)
    /\ work.currentSnapshot = CurrentAfter(Applied)

\* The last update that asks for the item added last has got it.
CurrentSoFar ==
    (\A j \in DOMAIN batch : batch[j].action \notin {"remove-schemas", "remove-partition-specs"}) =>
      \A i \in Applied : \A k \in Kinds :
        SetsCurrent(i, k) /\ batch[i].id = -1 /\ (\A j \in Applied : SetsCurrent(j, k) => j <= i)
        => work.current[k] = Latest(work, k).id

Progress == /\ outcome = "none" /\ failed = 0 /\ InOrder
            /\ RemovedSoFar /\ SnapshotsSoFar /\ RefsSoFar /\ CurrentSoFar

BatchInv ==
    /\ IndInv /\ TypeOK /\ Itemized(table) /\ Itemized(work)
    /\ pc = "applying" => Progress
    /\ RefusalsHaveReasons /\ RemovalsWin /\ LastAddedBecomesCurrent

----------------------------------------------------------------------------
(***************************************************************************)
(* The highest of some numbers                                             *)
(***************************************************************************)
\* The least-number principle, for a set.
LEMMA LeastNat ==
    ASSUME NEW T, T \subseteq Nat, T # {}
    PROVE  \E x \in T : \A y \in T : x <= y
<1> DEFINE R == OpToRel(<, Nat)
<1>1. IsWellFoundedOn(R, Nat)
  BY NatLessThanWellFounded
<1>2. \A x, y \in Nat : x < y => <<x, y>> \in R
  BY DEF OpToRel
<1> HIDE DEF R
<1>3. PICK x \in T : \A y \in T : ~(<<y, x>> \in R)
  BY <1>1, WFMin
<1>4. \A y \in T : x \in Nat /\ y \in Nat /\ ~(y < x)
  BY <1>2, <1>3
<1>5. \A y \in T : x <= y
  BY <1>4
<1> QED
  BY <1>5

\* Integers that are bounded have a highest one, if 0 is among them.
LEMMA HighestInt ==
    ASSUME NEW S, S \subseteq Int, NEW b \in Nat, \A i \in S : i <= b
    PROVE  \E x \in S \cup {0} : x \in Nat /\ \A y \in S \cup {0} : y <= x
<1> DEFINE T == {n \in Nat : \A j \in S : j <= n}
<1>1. b \in T
  OBVIOUS
<1>2. PICK n \in T : \A y \in T : n <= y
  BY <1>1, LeastNat
<1>3. n \in Nat /\ \A j \in S : j \in Int /\ j <= n
  BY <1>2
<1>4. n \in S \cup {0}
  <2> SUFFICES ASSUME n \notin S, n # 0 PROVE FALSE
    OBVIOUS
  <2>1. n - 1 \in Nat
    BY <1>3
  <2>2. n - 1 \in T
    BY <1>3, <2>1
  <2> QED
    BY <1>2, <1>3, <2>2
<1>5. \A y \in S \cup {0} : y <= n
  BY <1>3
<1> QED
  BY <1>3, <1>4, <1>5

\* maxIntInSlice finds the highest id.
LEMMA MaxIdIsHighest ==
    ASSUME NEW m \in Metadata, Itemized(m), NEW k \in Kinds
    PROVE  MaxId(m, k) \in Nat /\ \A j \in Ids(m, k) : j <= MaxId(m, k)
<1>1. Ids(m, k) \subseteq Int
  BY DEF Metadata, Ids
<1>2. PICK b \in Nat : \A i \in Ids(m, k) : i <= b
  BY DEF Itemized
<1>3. PICK x \in Ids(m, k) \cup {0} : x \in Nat /\ \A y \in Ids(m, k) \cup {0} : y <= x
  BY <1>1, <1>2, HighestInt
<1>4. /\ MaxId(m, k) \in Ids(m, k) \cup {0}
      /\ \A j \in Ids(m, k) \cup {0} : j <= MaxId(m, k)
  BY <1>3 DEF MaxId
<1>5. MaxId(m, k) \in Int /\ 0 <= MaxId(m, k)
  BY <1>1, <1>4
<1> QED
  BY <1>4, <1>5

\* A list that is not empty has an entry that was added last.
LEMMA LatestIsEntry ==
    ASSUME NEW m \in Metadata, Itemized(m), NEW k \in Kinds, m.items[k] # {}
    PROVE  Latest(m, k) \in m.items[k]
<1> DEFINE S == {e.at : e \in m.items[k]}
<1>1. \A e \in m.items[k] : e.at \in Nat
  BY DEF Metadata
<1>2. m.adds \in Nat /\ \A e \in m.items[k] : e.at <= m.adds
  BY DEF Metadata, Itemized
<1>3. S \subseteq Int /\ \A i \in S : i <= m.adds
  BY <1>1, <1>2
<1>4. PICK x \in S \cup {0} : x \in Nat /\ \A y \in S \cup {0} : y <= x
  BY <1>2, <1>3, HighestInt
<1>5. \E e \in m.items[k] : \A f \in m.items[k] : f.at <= e.at
  <2>1. CASE x \in S
    BY <1>4, <2>1
  <2>2. CASE x = 0
    <3>1. \A f \in m.items[k] : f.at \in S
      OBVIOUS
    <3> HIDE DEF S
    <3>2. \A f \in m.items[k] : f.at = 0
      BY <1>1, <1>4, <2>2, <3>1
    <3> QED
      BY <3>2
  <2> QED
    BY <1>4, <2>1, <2>2
<1> QED
  BY <1>5 DEF Latest

\* An item that is added gets an id that is a number, and not -1.
LEMMA NewIdIsProper ==
    ASSUME NEW m \in Metadata, Itemized(m), NEW k \in Kinds, NEW u \in Updates
    PROVE  NewId(m, k, u) \in Int /\ NewId(m, k, u) # -1 /\ NewId(m, k, u) # Null
<1>1. u.id \in Int
  BY UpdateType
<1>2. MaxId(m, k) \in Nat
  BY MaxIdIsHighest
<1>3. MaxId(m, k) + 1 \in Int /\ MaxId(m, k) + 1 # -1
  BY <1>2
<1> QED
  BY <1>1, <1>3, NullAssumption DEF NewId

----------------------------------------------------------------------------
(***************************************************************************)
(* What an update leaves alone                                             *)
(***************************************************************************)
\* Properties, keys and statistics come with one action each and go with another.
LEMMA EffectOnSets ==
    ASSUME NEW m, DOMAIN m = Fields, NEW u, Known(u)
    PROVE  LET n == Effect(m, u) IN
           /\ u.action # "set-properties" => n.properties \subseteq m.properties
           /\ u.action = "remove-properties" => u.name \notin n.properties
           /\ u.action # "add-encryption-key" => n.keys \subseteq m.keys
           /\ u.action = "remove-encryption-key" => u.name \notin n.keys
           /\ u.action # "set-statistics" => n.statistics \subseteq m.statistics
           /\ u.action = "remove-statistics" => u.id \notin n.statistics
           /\ u.action # "set-partition-statistics" => n.partitionStatistics \subseteq m.partitionStatistics
           /\ u.action = "remove-partition-statistics" => u.id \notin n.partitionStatistics
<1> DEFINE n == Effect(m, u)
<1>1. CASE u.action \in {"set-properties", "remove-properties", "add-encryption-key", "remove-encryption-key",
                         "set-statistics", "remove-statistics", "set-partition-statistics",
                         "remove-partition-statistics"}
  BY <1>1 DEF Effect, Fields, SetProperties, RemoveProperties, AddEncryptionKey, RemoveEncryptionKey,
     SetStatistics, RemoveStatistics, SetPartitionStatistics, RemovePartitionStatistics
<1>2. CASE u.action \in {"assign-uuid", "upgrade-format-version", "set-location", "add-snapshot",
                         "set-snapshot-ref", "remove-snapshot-ref", "remove-snapshots"}
  BY <1>2 DEF Effect, Fields, AssignUUID, UpgradeFormatVersion, SetLocation, AddSnapshot, SetSnapshotRef,
     RemoveSnapshotRef, RemoveSnapshots
<1>3. CASE u.action \in {"add-schema", "add-spec", "add-sort-order", "set-current-schema", "set-default-spec",
                         "set-default-sort-order", "remove-partition-specs", "remove-schemas"}
  BY <1>3 DEF Effect, Fields, AddItem, SetCurrent, RemoveItems
<1> QED
  BY <1>1, <1>2, <1>3, KnownActions

\* Snapshots and refs.
LEMMA EffectOnSnapshots ==
    ASSUME NEW m, DOMAIN m = Fields, DOMAIN m.refs = RefNames, NEW u \in Updates, Known(u)
    PROVE  LET n == Effect(m, u) IN
           /\ u.action # "add-snapshot" => n.snapshots \subseteq m.snapshots
           /\ u.action # "remove-snapshots" => m.snapshots \subseteq n.snapshots
           /\ u.action = "add-snapshot" => Float(u.id) \in n.snapshots
           /\ u.action = "remove-snapshots" => u.ids \cap n.snapshots = {}
           /\ u.action # "set-snapshot-ref" => \A x \in RefNames : n.refs[x] = m.refs[x] \/ n.refs[x] = Null
           /\ u.action = "remove-snapshot-ref" => n.refs[u.name] = Null
           /\ u.action \notin {"set-snapshot-ref", "remove-snapshot-ref"} =>
                n.refs = m.refs /\ n.currentSnapshot = m.currentSnapshot
           /\ u.action = "remove-snapshot-ref" =>
                /\ \A x \in RefNames : n.refs[x] = IF x = u.name THEN Null ELSE m.refs[x]
                /\ n.currentSnapshot = IF /\ u.name = "main" /\ m.refs["main"] # Null
                                          /\ m.refs["main"].type = "branch"
                                       THEN Null ELSE m.currentSnapshot
           /\ u.action = "set-snapshot-ref" =>
                /\ \A x \in RefNames : n.refs[x] = IF x = u.name THEN [type |-> u.type, id |-> u.id] ELSE m.refs[x]
                /\ n.currentSnapshot = IF u.name = "main" /\ u.type = "branch" THEN u.id ELSE m.currentSnapshot
<1> DEFINE n == Effect(m, u)
<1>1. CASE u.action \in {"add-snapshot", "remove-snapshots"}
  BY <1>1 DEF Effect, Fields, AddSnapshot, RemoveSnapshots
<1>2. CASE u.action \in {"set-snapshot-ref", "remove-snapshot-ref"}
  <2>1. u.name \in RefNames
    BY <1>2, UpdateNames
  <2> QED
    BY <1>2, <2>1 DEF Effect, Fields, SetSnapshotRef, RemoveSnapshotRef
<1>3. CASE u.action \in {"set-properties", "remove-properties", "add-encryption-key", "remove-encryption-key",
                         "set-statistics", "remove-statistics", "set-partition-statistics",
                         "remove-partition-statistics", "assign-uuid", "upgrade-format-version", "set-location"}
  BY <1>3 DEF Effect, Fields, SetProperties, RemoveProperties, AddEncryptionKey, RemoveEncryptionKey,
     SetStatistics, RemoveStatistics, SetPartitionStatistics, RemovePartitionStatistics, AssignUUID,
     UpgradeFormatVersion, SetLocation
<1>4. CASE u.action \in {"add-schema", "add-spec", "add-sort-order", "set-current-schema", "set-default-spec",
                         "set-default-sort-order", "remove-partition-specs", "remove-schemas"}
  BY <1>4 DEF Effect, Fields, AddItem, SetCurrent, RemoveItems
<1> QED
  BY <1>1, <1>2, <1>3, <1>4, KnownActions

Adds(u) == u.action \in {"add-schema", "add-spec", "add-sort-order"}
Sets(u) == u.action \in {"set-current-schema", "set-default-spec", "set-default-sort-order"}
Removes(u) == u.action \in {"remove-partition-specs", "remove-schemas"}

\* Versioned items.
LEMMA EffectOnItems ==
    ASSUME NEW m, DOMAIN m = Fields, DOMAIN m.items = Kinds, DOMAIN m.current = Kinds, NEW u, Known(u)
    PROVE  LET n == Effect(m, u) IN
           /\ ~Adds(u) => n.adds = m.adds
           /\ ~Adds(u) /\ ~Removes(u) => n.items = m.items
           /\ ~Sets(u) => n.current = m.current
           /\ Adds(u) => /\ n.adds = m.adds + 1
                         /\ \A k \in Kinds : n.items[k] =
                              IF k = KindOf(u) THEN m.items[k] \cup {Entry(NewId(m, k, u), m.adds + 1)}
                              ELSE m.items[k]
           /\ Removes(u) => \A k \in Kinds : n.items[k] \subseteq m.items[k]
           /\ Sets(u) => \A k \in Kinds : n.current[k] =
                           IF k = KindOf(u) THEN TargetId(m, k, u) ELSE m.current[k]
<1> DEFINE n == Effect(m, u)
<1>1. CASE Adds(u)
  BY <1>1 DEF Effect, Fields, AddItem, Adds, Removes, Sets
<1>2. CASE Sets(u)
  BY <1>2 DEF Effect, Fields, SetCurrent, Adds, Removes, Sets
<1>3. CASE Removes(u)
  BY <1>3 DEF Effect, Fields, RemoveItems, Remaining, Adds, Removes, Sets
<1>4. CASE u.action \in {"set-properties", "remove-properties", "add-encryption-key", "remove-encryption-key",
                         "set-statistics", "remove-statistics", "set-partition-statistics",
                         "remove-partition-statistics"}
  BY <1>4 DEF Effect, Fields, SetProperties, RemoveProperties, AddEncryptionKey, RemoveEncryptionKey,
     SetStatistics, RemoveStatistics, SetPartitionStatistics, RemovePartitionStatistics, Adds, Removes, Sets
<1>5. CASE u.action \in {"assign-uuid", "upgrade-format-version", "set-location", "add-snapshot",
                         "set-snapshot-ref", "remove-snapshot-ref", "remove-snapshots"}
  BY <1>5 DEF Effect, Fields, AssignUUID, UpgradeFormatVersion, SetLocation, AddSnapshot, SetSnapshotRef,
     RemoveSnapshotRef, RemoveSnapshots, Adds, Removes, Sets
<1> QED
  BY <1>1, <1>2, <1>3, <1>4, <1>5, KnownActions DEF Adds, Removes, Sets

\* Every update keeps the type of the metadata.
LEMMA EffectType ==
    ASSUME NEW m \in Metadata, Itemized(m), NEW u \in Updates, Known(u), ~Fails(m, u)
    PROVE  Effect(m, u) \in Metadata
<1>1. /\ u.name \in GivenNames /\ u.id \in Int /\ u.ids \subseteq Int /\ u.num \in Nat
      /\ u.type \in {"branch", "tag", "other"}
  BY UpdatesAssumption DEF Update, GivenNames
<1>2. Float(u.id) \in Int
  BY <1>1, FloatIdempotent
<1>3. CASE u.action \in {"set-properties", "remove-properties", "add-encryption-key", "remove-encryption-key"}
  BY <1>1, <1>3, ZenonT(60) DEF Effect, Metadata, SetProperties, RemoveProperties, AddEncryptionKey, RemoveEncryptionKey
<1>4. CASE u.action \in {"set-statistics", "remove-statistics", "set-partition-statistics",
                         "remove-partition-statistics"}
  BY <1>1, <1>2, <1>4, ZenonT(60) DEF Effect, Metadata, SetStatistics, RemoveStatistics, SetPartitionStatistics,
     RemovePartitionStatistics
<1>5. CASE u.action \in {"assign-uuid", "upgrade-format-version", "set-location"}
  BY <1>1, <1>5 DEF Effect, Metadata, AssignUUID, UpgradeFormatVersion, SetLocation
<1>6. CASE u.action \in {"add-snapshot", "remove-snapshots"}
  BY <1>1, <1>2, <1>6, ZenonT(60) DEF Effect, Metadata, AddSnapshot, RemoveSnapshots
<1>7. CASE u.action = "set-snapshot-ref"
  <2>1. u.name \in RefNames /\ u.type \in {"branch", "tag"}
    BY <1>1, <1>7, UpdateNames DEF Fails, SetSnapshotRefFails
  <2>2. [type |-> u.type, id |-> u.id] \in Ref
    BY <1>1, <2>1 DEF Ref
  <2>3. [m.refs EXCEPT ![u.name] = [type |-> u.type, id |-> u.id]] \in [RefNames -> Ref \cup {Null}]
    BY <2>1, <2>2 DEF Metadata
  <2> QED
    BY <1>1, <1>7, <2>3 DEF Effect, Metadata, SetSnapshotRef
<1>8. CASE u.action = "remove-snapshot-ref"
  <2>1. [m.refs EXCEPT ![u.name] = Null] \in [RefNames -> Ref \cup {Null}]
    BY DEF Metadata
  <2> QED
    BY <1>8, <2>1 DEF Effect, Metadata, RemoveSnapshotRef
<1>9. CASE Adds(u)
  <2> DEFINE k == KindOf(u)
             e == Entry(NewId(m, k, u), m.adds + 1)
             its == [m.items EXCEPT ![k] = @ \cup {e}]
             lf == [m.lastField EXCEPT ![k] = IF k # "order" /\ u.num > @ THEN u.num ELSE @]
  <2>1. k \in Kinds
    BY <1>9 DEF Adds, KindOf, Kinds
  <2>2. NewId(m, k, u) \in Int /\ m.adds + 1 \in Nat
    BY <2>1, NewIdIsProper DEF Metadata
  <2>3. e \in [id : Int \cup {Null}, at : Nat]
    BY <2>2 DEF Entry
  <2> HIDE DEF e
  <2>4. its \in [Kinds -> SUBSET [id : Int \cup {Null}, at : Nat]]
    BY <2>1, <2>3 DEF Metadata
  <2>5. lf \in [Kinds -> Nat]
    BY <1>1, <2>1 DEF Metadata
  <2>6. Effect(m, u) = [m EXCEPT !.items = its, !.adds = m.adds + 1, !.lastField = lf]
    BY <1>9 DEF Adds, Effect, AddItem, Metadata, e
  <2> HIDE DEF its, lf
  <2> QED
    BY <2>2, <2>4, <2>5, <2>6, ZenonT(60) DEF Metadata
<1>10. CASE Sets(u)
  <2> DEFINE k == KindOf(u)
  <2>1. k \in Kinds /\ ~SetCurrentFails(m, u) /\ Effect(m, u) = SetCurrent(m, u)
    BY <1>10 DEF Sets, KindOf, Kinds, Fails, Effect
  <2>2. TargetId(m, k, u) \in Int
    BY <2>1 DEF SetCurrentFails, Ids, Metadata
  <2>3. [m.current EXCEPT ![k] = TargetId(m, k, u)] \in [Kinds -> Int \cup {Null}]
    BY <2>1, <2>2 DEF Metadata
  <2>4. Effect(m, u) = [m EXCEPT !.current = [m.current EXCEPT ![k] = TargetId(m, k, u)]]
    BY <2>1 DEF SetCurrent, Metadata
  <2> QED
    BY <2>3, <2>4 DEF Metadata
<1>11. CASE Removes(u)
  <2> DEFINE k == KindOf(u)
  <2>1. k \in Kinds /\ Effect(m, u) = RemoveItems(m, u)
    BY <1>11 DEF Removes, KindOf, Kinds, Effect
  <2>2. [m.items EXCEPT ![k] = Remaining(m, k, u)] \in [Kinds -> SUBSET [id : Int \cup {Null}, at : Nat]]
    BY <2>1 DEF Metadata, Remaining
  <2>3. Effect(m, u) = [m EXCEPT !.items = [m.items EXCEPT ![k] = Remaining(m, k, u)]]
    BY <2>1 DEF RemoveItems, Metadata
  <2> QED
    BY <2>2, <2>3 DEF Metadata
<1> QED
  BY <1>3, <1>4, <1>5, <1>6, <1>7, <1>8, <1>9, <1>10, <1>11, KnownActions DEF Adds, Sets, Removes

\* Metadata has the fields that the other lemmas speak of.
LEMMA MetadataFields ==
    ASSUME NEW m \in Metadata
    PROVE  /\ DOMAIN m = Fields /\ DOMAIN m.items = Kinds /\ DOMAIN m.current = Kinds /\ DOMAIN m.refs = RefNames
           /\ m.adds \in Nat /\ \A k \in Kinds : \A e \in m.items[k] : e.at \in Nat /\ e.id \in Int \cup {Null}
BY DEF Metadata, Fields

\* Every update keeps ids and ordinals apart.
LEMMA EffectItemized ==
    ASSUME NEW m \in Metadata, Itemized(m), NEW u \in Updates, Known(u)
    PROVE  Itemized(Effect(m, u))
<1> DEFINE n == Effect(m, u)
<1>1. /\ ~Adds(u) => n.adds = m.adds
      /\ ~Adds(u) /\ ~Removes(u) => n.items = m.items
      /\ Adds(u) => /\ n.adds = m.adds + 1
                    /\ \A k \in Kinds : n.items[k] =
                         IF k = KindOf(u) THEN m.items[k] \cup {Entry(NewId(m, k, u), m.adds + 1)}
                         ELSE m.items[k]
      /\ Removes(u) => \A k \in Kinds : n.items[k] \subseteq m.items[k]
  BY MetadataFields, EffectOnItems
<1>2. m.adds \in Nat /\ \A k \in Kinds : \A e \in m.items[k] : e.at \in Nat
  BY MetadataFields
<1> HIDE DEF n
<1>3. CASE ~Adds(u)
  <2>1. n.adds = m.adds /\ \A k \in Kinds : n.items[k] \subseteq m.items[k]
    BY <1>1, <1>3
  <2>2. \A k \in Kinds : Ids(n, k) \subseteq Ids(m, k)
    BY <2>1 DEF Ids
  <2>3. Itemized(n)
    BY <2>1, <2>2 DEF Itemized
  <2> QED
    BY <2>3 DEF n
<1>4. CASE Adds(u)
  <2>1. ASSUME NEW k \in Kinds
        PROVE  /\ \E b \in Nat : \A i \in Ids(n, k) : i <= b
               /\ \A e \in n.items[k] : e.at <= n.adds /\ (e.id = Null \/ e.id = -1 => e.at = 0)
               /\ \A e, f \in n.items[k] : e.at = f.at => e = f
    <3> DEFINE new == Entry(NewId(m, k, u), m.adds + 1)
    <3>1. /\ new.id = NewId(m, k, u) /\ new.at = m.adds + 1
          /\ new.id \in Int /\ new.id # -1 /\ new.id # Null
      BY NewIdIsProper DEF Entry
    <3> HIDE DEF new
    <3>2. n.items[k] \subseteq m.items[k] \cup {new} /\ n.adds = m.adds + 1
      BY <1>1, <1>4 DEF new
    <3>3. \A e \in n.items[k] : e.at <= n.adds /\ (e.id = Null \/ e.id = -1 => e.at = 0)
      BY <1>2, <3>1, <3>2 DEF Itemized
    <3>4. \A e, f \in n.items[k] : e.at = f.at => e = f
      <4>1. \A e \in m.items[k] : e.at # new.at
        BY <1>2, <3>1 DEF Itemized
      <4> QED
        BY <3>2, <4>1 DEF Itemized
    <3>5. \E b \in Nat : \A i \in Ids(n, k) : i <= b
      <4>1. PICK b \in Nat : \A i \in Ids(m, k) : i <= b
        BY DEF Itemized
      <4>2. \A i \in Ids(n, k) : i \in Ids(m, k) \/ i = new.id
        BY <3>2 DEF Ids
      <4>3. \A i \in Ids(m, k) : i \in Int
        BY MetadataFields DEF Ids
      <4>4. CASE new.id <= b
        BY <4>1, <4>2, <4>4
      <4>5. CASE new.id > b
        <5>1. new.id \in Nat /\ \A i \in Ids(n, k) : i <= new.id
          BY <3>1, <4>1, <4>2, <4>3, <4>5
        <5> QED
          BY <5>1
      <4> QED
        BY <3>1, <4>1, <4>4, <4>5
    <3> QED
      BY <3>3, <3>4, <3>5
  <2>2. Itemized(n)
    BY <2>1 DEF Itemized
  <2> QED
    BY <2>2 DEF n
<1> QED
  BY <1>3, <1>4

\* The JSON round trip does not change sound metadata.
LEMMA DeepCopySame ==
    ASSUME NEW m \in Metadata, Sound(m)
    PROVE  DeepCopy(m) = m
<1>1. \A x \in Int : x \in m.snapshots \/ x < 0 => Float(x) = x
  BY FloatIdempotent DEF Sound
<1>2. ASSUME NEW x \in RefNames, m.refs[x] # Null
      PROVE  [m.refs[x] EXCEPT !.id = Float(@)] = m.refs[x]
  <2>1. m.refs[x] \in Ref /\ (m.refs[x].id \in m.snapshots \/ m.refs[x].id < 0)
    BY <1>2 DEF Sound, Shape, RefsResolveIn
  <2>2. Float(m.refs[x].id) = m.refs[x].id
    BY <1>1, <2>1 DEF Ref
  <2> QED
    BY <2>1, <2>2 DEF Ref
<1> DEFINE rs == [n \in RefNames |-> IF m.refs[n] = Null THEN Null ELSE [m.refs[n] EXCEPT !.id = Float(@)]]
           cs == IF m.currentSnapshot = Null THEN Null ELSE Float(m.currentSnapshot)
<1>3. rs = m.refs
  <2>1. m.refs = [n \in RefNames |-> m.refs[n]]
    BY DEF Sound, Shape
  <2> QED
    BY <1>2, <2>1
<1>4. cs = m.currentSnapshot
  BY <1>1 DEF Sound, Shape, CurrentResolvesIn
<1>5. DeepCopy(m) = [m EXCEPT !.refs = rs, !.currentSnapshot = cs]
  BY DEF DeepCopy, Metadata
<1> HIDE DEF rs, cs
<1> QED
  BY <1>3, <1>4, <1>5 DEF Metadata

----------------------------------------------------------------------------
(***************************************************************************)
(* The order of the groups                                                 *)
(***************************************************************************)
\* Rank finds the action in processingOrder.
LEMMA Ranks ==
    ASSUME NEW i, Known(batch[i])
    PROVE  /\ Rank(i) \in 1..23 /\ ProcessingOrder[Rank(i)] = batch[i].action
<1>1. DOMAIN ProcessingOrder = 1..23
  BY DEF ProcessingOrder
<1> QED
  BY <1>1 DEF Rank, Known

\* Additions come before what refers to them, and removals after both.
LEMMA RankNumbers ==
    ASSUME NEW i, Known(batch[i])
    PROVE  LET a == batch[i].action IN
           /\ Rank(i) \in Nat
           /\ Adds(batch[i]) => Rank(i) = CASE KindOf(batch[i]) = "schema" -> 4
                                            [] KindOf(batch[i]) = "spec" -> 6
                                            [] KindOf(batch[i]) = "order" -> 8
           /\ Sets(batch[i]) => Rank(i) = CASE KindOf(batch[i]) = "schema" -> 5
                                            [] KindOf(batch[i]) = "spec" -> 7
                                            [] KindOf(batch[i]) = "order" -> 9
           /\ a = "add-snapshot" => Rank(i) = 10
           /\ a = "set-snapshot-ref" => Rank(i) = 11
           /\ a = "set-statistics" => Rank(i) = 12
           /\ a = "set-partition-statistics" => Rank(i) = 13
           /\ a = "set-properties" => Rank(i) = 14
           /\ a = "remove-properties" => Rank(i) = 15
           /\ a = "remove-statistics" => Rank(i) = 16
           /\ a = "remove-partition-statistics" => Rank(i) = 17
           /\ a = "remove-snapshot-ref" => Rank(i) = 18
           /\ a = "remove-snapshots" => Rank(i) = 19
           /\ a = "add-encryption-key" => Rank(i) = 22
           /\ a = "remove-encryption-key" => Rank(i) = 23
<1> DEFINE a == batch[i].action
           r == Rank(i)
<1>1. r \in 1..23 /\ ProcessingOrder[r] = a
  BY Ranks
<1> HIDE DEF r
<1>2. /\ a = "add-schema" => r = 4
      /\ a = "add-spec" => r = 6
      /\ a = "add-sort-order" => r = 8
      /\ a = "set-current-schema" => r = 5
      /\ a = "set-default-spec" => r = 7
      /\ a = "set-default-sort-order" => r = 9
  BY <1>1 DEF ProcessingOrder
<1>3. /\ a = "add-snapshot" => r = 10
      /\ a = "set-snapshot-ref" => r = 11
      /\ a = "set-statistics" => r = 12
      /\ a = "set-partition-statistics" => r = 13
      /\ a = "set-properties" => r = 14
      /\ a = "remove-properties" => r = 15
      /\ a = "remove-statistics" => r = 16
      /\ a = "remove-partition-statistics" => r = 17
      /\ a = "remove-snapshot-ref" => r = 18
      /\ a = "remove-snapshots" => r = 19
      /\ a = "add-encryption-key" => r = 22
      /\ a = "remove-encryption-key" => r = 23
  BY <1>1 DEF ProcessingOrder
<1>4. Adds(batch[i]) => r = CASE KindOf(batch[i]) = "schema" -> 4
                              [] KindOf(batch[i]) = "spec" -> 6
                              [] KindOf(batch[i]) = "order" -> 8
  BY <1>2 DEF Adds, KindOf
<1>5. Sets(batch[i]) => r = CASE KindOf(batch[i]) = "schema" -> 5
                              [] KindOf(batch[i]) = "spec" -> 7
                              [] KindOf(batch[i]) = "order" -> 9
  BY <1>2 DEF Sets, KindOf
<1>6. r \in Nat
  BY <1>1
<1> QED
  BY <1>3, <1>4, <1>5, <1>6 DEF r

\* What a batch has removed, no update that comes later brings back.
LEMMA StaysRemoved ==
    ASSUME NEW m \in Metadata, NEW i, NEW x, Known(batch[i]), Known(batch[x]), Rank(i) <= Rank(x),
           batch[i] \in Updates, batch[x] \in Updates, RemovedIn(m, batch[i])
    PROVE  RemovedIn(Effect(m, batch[x]), batch[i])
<1> DEFINE n == Effect(m, batch[x])
           a == batch[i].action
           z == batch[x].action
<1>1. /\ a = "remove-properties" => z # "set-properties"
      /\ a = "remove-encryption-key" => z # "add-encryption-key"
      /\ a = "remove-statistics" => z # "set-statistics"
      /\ a = "remove-partition-statistics" => z # "set-partition-statistics"
      /\ a = "remove-snapshot-ref" => z # "set-snapshot-ref"
      /\ a = "remove-snapshots" => z # "add-snapshot"
  BY RankNumbers
<1>2. /\ z # "set-properties" => n.properties \subseteq m.properties
      /\ z # "add-encryption-key" => n.keys \subseteq m.keys
      /\ z # "set-statistics" => n.statistics \subseteq m.statistics
      /\ z # "set-partition-statistics" => n.partitionStatistics \subseteq m.partitionStatistics
  BY MetadataFields, EffectOnSets
<1>3. /\ z # "add-snapshot" => n.snapshots \subseteq m.snapshots
      /\ z # "set-snapshot-ref" => \A y \in RefNames : n.refs[y] = m.refs[y] \/ n.refs[y] = Null
  BY MetadataFields, EffectOnSnapshots, ZenonT(60)
<1>4. a = "remove-snapshot-ref" => batch[i].name \in RefNames
  BY UpdateNames
<1> HIDE DEF n
<1>5. RemovedIn(n, batch[i])
  BY <1>1, <1>2, <1>3, <1>4 DEF RemovedIn
<1> QED
  BY <1>5 DEF n

\* What an update removes is gone.
LEMMA IsRemoved ==
    ASSUME NEW m \in Metadata, NEW u \in Updates, Known(u)
    PROVE  RemovedIn(Effect(m, u), u)
<1> DEFINE n == Effect(m, u)
<1>1. /\ u.action = "remove-properties" => u.name \notin n.properties
      /\ u.action = "remove-encryption-key" => u.name \notin n.keys
      /\ u.action = "remove-statistics" => u.id \notin n.statistics
      /\ u.action = "remove-partition-statistics" => u.id \notin n.partitionStatistics
  BY MetadataFields, EffectOnSets
<1>2. /\ u.action = "remove-snapshots" => u.ids \cap n.snapshots = {}
      /\ u.action = "remove-snapshot-ref" => n.refs[u.name] = Null
  BY MetadataFields, EffectOnSnapshots, ZenonT(60)
<1> HIDE DEF n
<1>3. RemovedIn(n, u)
  BY <1>1, <1>2 DEF RemovedIn
<1> QED
  BY <1>3 DEF n

\* -1 finds the item added last: if that has no id, no other item is called -1.
LEMMA LastAddedIsTarget ==
    ASSUME NEW m \in Metadata, Itemized(m), NEW u, KindOf(u) \in Kinds, u.id = -1, ~SetCurrentFails(m, u)
    PROVE  TargetId(m, KindOf(u), u) = Latest(m, KindOf(u)).id
<1> DEFINE k == KindOf(u)
<1>1. m.items[k] # {} /\ TargetId(m, k, u) \in Ids(m, k)
  BY DEF SetCurrentFails
<1>2. Latest(m, k) \in m.items[k]
  BY <1>1, LatestIsEntry
<1>3. ASSUME Latest(m, k).id = Null PROVE FALSE
  <2>1. -1 \in Ids(m, k)
    BY <1>1, <1>3 DEF TargetId
  <2>2. PICK e \in m.items[k] : e.id = -1
    BY <2>1 DEF Ids
  <2>3. e.at = 0 /\ Latest(m, k).at = 0
    BY <1>2, <1>3, <2>2 DEF Itemized
  <2>4. e = Latest(m, k)
    BY <1>2, <2>3 DEF Itemized
  <2> QED
    BY <1>3, <2>2, <2>4, NullAssumption
<1> QED
  BY <1>3 DEF TargetId

----------------------------------------------------------------------------
(***************************************************************************)
(* What one update more does to the refs and the current snapshot          *)
(***************************************************************************)
\* The highest of some positions is the last one.
LEMMA LastIsHighest ==
    ASSUME NEW S, S \subseteq Int, NEW x \in S, \A j \in S : j <= x
    PROVE  LastOf(S) = x
<1>1. LastOf(S) \in S /\ \A j \in S : j <= LastOf(S)
  BY DEF LastOf
<1>2. LastOf(S) \in Int /\ x \in Int /\ x <= LastOf(S) /\ LastOf(S) <= x
  BY <1>1
<1> QED
  BY <1>2

\* An update that neither sets nor removes a ref.
LEMMA AfterOther ==
    ASSUME NEW A, NEW x, ~\E y : SetsRef(x, y) \/ RemovesRef(x, y)
    PROVE  /\ \A y : RefAfter(y, A \cup {x}) = RefAfter(y, A)
           /\ CurrentAfter(A \cup {x}) = CurrentAfter(A)
<1>1. \A y : {i \in A \cup {x} : SetsRef(i, y)} = {i \in A : SetsRef(i, y)}
  OBVIOUS
<1>2. {i \in A \cup {x} : SetsMain(i)} = {i \in A : SetsMain(i)}
  BY DEF SetsMain
<1>3. \A y : RefSet(y, A \cup {x}) = RefSet(y, A)
  BY <1>1 DEF RefSet
<1>4. CurrentSet(A \cup {x}) = CurrentSet(A)
  BY <1>2 DEF CurrentSet
<1> QED
  BY <1>3, <1>4 DEF RefAfter, CurrentAfter

\* An update that removes a ref.
LEMMA AfterRemoval ==
    ASSUME NEW A, NEW x, batch[x].action = "remove-snapshot-ref", \A y : ~SetsRef(x, y)
    PROVE  /\ \A y : RefAfter(y, A \cup {x}) = IF y = batch[x].name THEN Null ELSE RefAfter(y, A)
           /\ CurrentAfter(A \cup {x}) = IF /\ batch[x].name = "main" /\ RefAfter("main", A) # Null
                                            /\ RefAfter("main", A).type = "branch"
                                         THEN Null ELSE CurrentAfter(A)
<1>1. \A y : {i \in A \cup {x} : SetsRef(i, y)} = {i \in A : SetsRef(i, y)}
  OBVIOUS
<1>2. {i \in A \cup {x} : SetsMain(i)} = {i \in A : SetsMain(i)}
  BY DEF SetsMain
<1>3. \A y : RefSet(y, A \cup {x}) = RefSet(y, A)
  BY <1>1 DEF RefSet
<1>4. CurrentSet(A \cup {x}) = CurrentSet(A)
  BY <1>2 DEF CurrentSet
<1>5. \A y : RemovesRef(x, y) <=> y = batch[x].name
  BY DEF RemovesRef
<1> QED
  BY <1>3, <1>4, <1>5 DEF RefAfter, CurrentAfter

\* An update that sets a ref after all others that do, and before any that
\* removes one.
LEMMA AfterSet ==
    ASSUME NEW A, NEW x \in Int, A \subseteq Int, batch[x].action = "set-snapshot-ref",
           \A y : ~RemovesRef(x, y) /\ \A i \in A : ~RemovesRef(i, y) /\ (SetsRef(i, y) => i < x)
    PROVE  /\ \A y : RefAfter(y, A \cup {x}) =
                       IF y = batch[x].name THEN [type |-> batch[x].type, id |-> batch[x].id] ELSE RefAfter(y, A)
           /\ CurrentAfter(A \cup {x}) =
                IF batch[x].name = "main" /\ batch[x].type = "branch" THEN batch[x].id ELSE CurrentAfter(A)
<1> DEFINE B == A \cup {x}
<1>1. \A y : RefAfter(y, B) = RefSet(y, B) /\ RefAfter(y, A) = RefSet(y, A)
  BY DEF RefAfter
<1>2. CurrentAfter(B) = CurrentSet(B) /\ CurrentAfter(A) = CurrentSet(A)
  BY DEF CurrentAfter
<1>3. ASSUME NEW y
      PROVE  RefSet(y, B) = IF y = batch[x].name THEN [type |-> batch[x].type, id |-> batch[x].id] ELSE RefSet(y, A)
  <2> DEFINE S == {i \in B : SetsRef(i, y)}
  <2>1. CASE y = batch[x].name
    <3>1. x \in S /\ S \subseteq Int /\ \A j \in S : j <= x
      <4>1. SetsRef(x, y) /\ x \in B /\ B \subseteq Int
        BY <2>1 DEF SetsRef
      <4>2. \A j \in S : j = x \/ j < x
        OBVIOUS
      <4>3. x \in S /\ S \subseteq Int
        BY <4>1
      <4> HIDE DEF S
      <4> QED
        BY <4>2, <4>3
    <3>2. LastOf(S) = x
      BY <3>1, LastIsHighest
    <3> QED
      BY <2>1, <3>1, <3>2 DEF RefSet
  <2>2. CASE y # batch[x].name
    <3>1. S = {i \in A : SetsRef(i, y)}
      BY <2>2 DEF SetsRef
    <3> QED
      BY <2>2, <3>1 DEF RefSet
  <2> QED
    BY <2>1, <2>2
<1>4. CurrentSet(B) = IF batch[x].name = "main" /\ batch[x].type = "branch" THEN batch[x].id ELSE CurrentSet(A)
  <2> DEFINE S == {i \in B : SetsMain(i)}
  <2>1. CASE SetsMain(x)
    <3>1. x \in S /\ S \subseteq Int /\ \A j \in S : j <= x
      <4>1. x \in S /\ B \subseteq Int
        BY <2>1
      <4>2. \A j \in S : j = x \/ j < x
        BY DEF SetsMain
      <4>3. x \in S /\ S \subseteq Int
        BY <4>1
      <4> HIDE DEF S
      <4> QED
        BY <4>2, <4>3
    <3>2. LastOf(S) = x
      BY <3>1, LastIsHighest
    <3> QED
      BY <2>1, <3>1, <3>2 DEF CurrentSet, SetsMain, SetsRef
  <2>2. CASE ~SetsMain(x)
    <3>1. S = {i \in A : SetsMain(i)}
      BY <2>2
    <3> QED
      BY <2>2, <3>1 DEF CurrentSet, SetsMain, SetsRef
  <2> QED
    BY <2>1, <2>2
<1> QED
  BY <1>1, <1>2, <1>3, <1>4

----------------------------------------------------------------------------
(***************************************************************************)
(* The steps of a batch                                                    *)
(***************************************************************************)
\* An update is applied: what the batch has achieved so far is kept.
LEMMA ApplyProgress ==
    ASSUME BatchInv, NEW x \in todo, ApplyUpdate(x)
    PROVE  Progress' /\ TypeOK' /\ Itemized(work)'
<1> DEFINE u == batch[x]
           n == Effect(work, u)
<1>0. IndInv /\ TypeOK /\ Itemized(work) /\ Progress /\ pc = "applying"
  BY DEF BatchInv, ApplyUpdate
<1>1. /\ IsNext(x) /\ ~Fails(work, u) /\ work' = n /\ todo' = todo \ {x}
      /\ UNCHANGED <<table, batch, pc, outcome, failed, batches>>
  BY DEF ApplyUpdate
<1>2. /\ batch \in Seq(Updates) /\ todo \subseteq DOMAIN batch /\ work \in Metadata /\ table \in Metadata
      /\ \A i \in DOMAIN batch : i \in Nat /\ batch[i] \in Updates /\ Known(batch[i])
  BY <1>0 DEF TypeOK, IndInv, BatchIsKnown
<1>3. /\ x \in DOMAIN batch /\ u \in Updates /\ Known(u) /\ x \notin Applied
      /\ Applied' = Applied \cup {x} /\ Applied \subseteq DOMAIN batch
  BY <1>1, <1>2 DEF Applied
<1>4. n \in Metadata /\ Itemized(n)
  BY <1>0, <1>1, <1>2, <1>3, EffectType, EffectItemized
<1>5. TypeOK' /\ Itemized(work)'
  BY <1>0, <1>1, <1>4 DEF TypeOK
<1>6. \A i \in DOMAIN batch : Rank(i)' = Rank(i) /\ Rank(i) \in Nat
  BY <1>1, <1>2, RankNumbers DEF Rank
<1>7. \A i \in Applied : Rank(i) <= Rank(x) /\ (Rank(i) = Rank(x) => i < x)
  BY <1>0, <1>3, <1>6 DEF Progress, InOrder
<1>8. InOrder'
  <2> SUFFICES ASSUME NEW i \in Applied', NEW j \in todo'
               PROVE  Rank(i) < Rank(j) \/ (Rank(i) = Rank(j) /\ i < j)
    BY <1>1, <1>2, <1>3, <1>6 DEF InOrder
  <2>1. CASE i \in Applied
    BY <1>0, <1>1, <2>1 DEF Progress, InOrder
  <2>2. CASE i = x
    <3>1. j \in todo /\ j # x /\ j \in Nat /\ x \in Nat
      BY <1>1, <1>2, <1>3
    <3> QED
      BY <1>1, <2>2, <3>1 DEF IsNext
  <2> QED
    BY <1>3, <2>1, <2>2
<1>9. RemovedSoFar'
  <2>1. \A i \in Applied : RemovedIn(n, batch[i])
    BY <1>0, <1>2, <1>3, <1>7, StaysRemoved DEF Progress, RemovedSoFar
  <2>2. RemovedIn(n, u)
    BY <1>2, <1>3, IsRemoved
  <2> HIDE DEF n
  <2>3. \A i \in Applied' : RemovedIn(n, batch[i])
    BY <1>3, <2>1, <2>2
  <2> QED
    BY <1>1, <2>3 DEF RemovedSoFar
<1>10. /\ u.action # "remove-snapshots" => work.snapshots \subseteq n.snapshots
       /\ u.action = "add-snapshot" => Float(u.id) \in n.snapshots
       /\ u.action \notin {"set-snapshot-ref", "remove-snapshot-ref"} =>
            n.refs = work.refs /\ n.currentSnapshot = work.currentSnapshot
       /\ u.action = "remove-snapshot-ref" =>
            /\ \A y \in RefNames : n.refs[y] = IF y = u.name THEN Null ELSE work.refs[y]
            /\ n.currentSnapshot = IF /\ u.name = "main" /\ work.refs["main"] # Null
                                      /\ work.refs["main"].type = "branch"
                                   THEN Null ELSE work.currentSnapshot
       /\ u.action = "set-snapshot-ref" =>
            /\ \A y \in RefNames : n.refs[y] = IF y = u.name THEN [type |-> u.type, id |-> u.id] ELSE work.refs[y]
            /\ n.currentSnapshot = IF u.name = "main" /\ u.type = "branch" THEN u.id ELSE work.currentSnapshot
  BY <1>2, <1>3, MetadataFields, EffectOnSnapshots
<1>11. /\ ~Adds(u) /\ ~Removes(u) => n.items = work.items
       /\ ~Sets(u) => n.current = work.current
       /\ Adds(u) => \A k \in Kinds : k # KindOf(u) => n.items[k] = work.items[k]
       /\ Sets(u) => \A k \in Kinds : n.current[k] =
                       IF k = KindOf(u) THEN TargetId(work, k, u) ELSE work.current[k]
  <2>1. DOMAIN work = Fields /\ DOMAIN work.items = Kinds /\ DOMAIN work.current = Kinds
    BY <1>2, MetadataFields
  <2>2. /\ ~Adds(u) /\ ~Removes(u) => n.items = work.items
        /\ ~Sets(u) => n.current = work.current
        /\ Adds(u) => \A k \in Kinds : n.items[k] =
                         IF k = KindOf(u) THEN work.items[k] \cup {Entry(NewId(work, k, u), work.adds + 1)}
                         ELSE work.items[k]
        /\ Sets(u) => \A k \in Kinds : n.current[k] =
                         IF k = KindOf(u) THEN TargetId(work, k, u) ELSE work.current[k]
    BY <1>3, <2>1, EffectOnItems
  <2> HIDE DEF n
  <2> QED
    BY <2>2
<1>12. SnapshotsSoFar'
  <2> SUFFICES ASSUME \A i \in Applied' : batch[i].action # "remove-snapshots"
               PROVE  /\ table.snapshots \subseteq n.snapshots
                      /\ \A i \in Applied' : batch[i].action = "add-snapshot" => Float(batch[i].id) \in n.snapshots
    BY <1>1 DEF SnapshotsSoFar
  <2>1. /\ table.snapshots \subseteq work.snapshots
        /\ \A i \in Applied : batch[i].action = "add-snapshot" => Float(batch[i].id) \in work.snapshots
    BY <1>0, <1>3 DEF Progress, SnapshotsSoFar
  <2>2. u.action # "remove-snapshots"
    BY <1>3
  <2> HIDE DEF n
  <2> QED
    BY <1>3, <1>10, <2>1, <2>2
<1>13. RefsSoFar'
  <2> DEFINE A == Applied
  <2>1. /\ \A y \in RefNames : work.refs[y] = RefAfter(y, A)
        /\ work.currentSnapshot = CurrentAfter(A) /\ "main" \in RefNames
    BY <1>0, BoundsAssumption DEF Progress, RefsSoFar
  <2>2. x \in Int /\ A \subseteq Int
    BY <1>2, <1>3
  <2>3. u.action = "set-snapshot-ref" =>
          \A i \in A : batch[i].action # "remove-snapshot-ref" /\ (batch[i].action = "set-snapshot-ref" => i < x)
    BY <1>2, <1>3, <1>7, RankNumbers
  <2>4. \A y : RefAfter(y, A)' = RefAfter(y, A \cup {x})
    BY <1>1, <1>3 DEF RefAfter, RefSet, SetsRef, RemovesRef
  <2>5. CurrentAfter(A)' = CurrentAfter(A \cup {x})
    BY <1>1, <1>3 DEF CurrentAfter, CurrentSet, RefSet, SetsRef, RemovesRef, SetsMain
  <2> HIDE DEF n, A
  <2>6. CASE u.action \notin {"set-snapshot-ref", "remove-snapshot-ref"}
    <3>1. ~\E y : SetsRef(x, y) \/ RemovesRef(x, y)
      BY <2>6 DEF SetsRef, RemovesRef
    <3>2. (\A y : RefAfter(y, A \cup {x}) = RefAfter(y, A)) /\ CurrentAfter(A \cup {x}) = CurrentAfter(A)
      BY <3>1, AfterOther
    <3> QED
      BY <1>1, <1>10, <2>1, <2>4, <2>5, <2>6, <3>2 DEF RefsSoFar, A
  <2>7. CASE u.action = "set-snapshot-ref"
    <3>1. \A y : ~RemovesRef(x, y) /\ \A i \in A : ~RemovesRef(i, y) /\ (SetsRef(i, y) => i < x)
      BY <2>3, <2>7 DEF SetsRef, RemovesRef
    <3>2. /\ \A y : RefAfter(y, A \cup {x}) = IF y = u.name THEN [type |-> u.type, id |-> u.id] ELSE RefAfter(y, A)
          /\ CurrentAfter(A \cup {x}) = IF u.name = "main" /\ u.type = "branch" THEN u.id ELSE CurrentAfter(A)
      BY <2>2, <2>7, <3>1, AfterSet
    <3> QED
      BY <1>1, <1>10, <2>1, <2>4, <2>5, <2>7, <3>2 DEF RefsSoFar, A
  <2>8. CASE u.action = "remove-snapshot-ref"
    <3>1. \A y : ~SetsRef(x, y)
      BY <2>8 DEF SetsRef
    <3>2. /\ \A y : RefAfter(y, A \cup {x}) = IF y = u.name THEN Null ELSE RefAfter(y, A)
          /\ CurrentAfter(A \cup {x}) = IF /\ u.name = "main" /\ RefAfter("main", A) # Null
                                           /\ RefAfter("main", A).type = "branch"
                                        THEN Null ELSE CurrentAfter(A)
      BY <2>8, <3>1, AfterRemoval
    <3> QED
      BY <1>1, <1>10, <2>1, <2>4, <2>5, <2>8, <3>2 DEF RefsSoFar, A
  <2> QED
    BY <2>6, <2>7, <2>8
<1>14. CurrentSoFar'
  <2> SUFFICES ASSUME \A j \in DOMAIN batch : batch[j].action \notin {"remove-schemas", "remove-partition-specs"},
                      NEW i \in Applied', NEW k \in Kinds, SetsCurrent(i, k), batch[i].id = -1,
                      \A j \in Applied' : SetsCurrent(j, k) => j <= i
               PROVE  n.current[k] = Latest(n, k).id
    BY <1>1 DEF CurrentSoFar, SetsCurrent
  <2>1. ~Removes(u)
    BY <1>3 DEF Removes
  <2>2. \A j \in DOMAIN batch : SetsCurrent(j, k) => Sets(batch[j]) /\ KindOf(batch[j]) = k
    BY DEF SetsCurrent, Sets
  <2>3. CASE i = x
    <3>1. Sets(u) /\ KindOf(u) = k /\ ~Adds(u)
      BY <1>3, <2>2, <2>3 DEF Sets, Adds
    <3>2. ~SetCurrentFails(work, u)
      BY <1>1, <3>1 DEF Fails, Sets
    <3>3. TargetId(work, k, u) = Latest(work, k).id
      BY <1>0, <1>2, <2>3, <3>1, <3>2, LastAddedIsTarget
    <3>4. n.current[k] = TargetId(work, k, u) /\ n.items = work.items
      BY <1>11, <2>1, <3>1
    <3> QED
      BY <3>3, <3>4 DEF Latest
  <2>4. CASE i \in Applied
    <3>1. ~(Sets(u) /\ KindOf(u) = k)
      <4> SUFFICES ASSUME Sets(u), KindOf(u) = k PROVE FALSE
        OBVIOUS
      <4>1. SetsCurrent(x, k)
        BY DEF SetsCurrent, Sets
      <4>2. Sets(batch[i]) /\ KindOf(batch[i]) = k
        BY <1>3, <2>2, <2>4
      <4>3. Rank(i) = Rank(x)
        BY <1>2, <1>3, <2>4, <4>2, RankNumbers
      <4>4. i < x /\ x <= i /\ i \in Nat /\ x \in Nat
        BY <1>2, <1>3, <1>7, <2>4, <4>1, <4>3
      <4> QED
        BY <4>4
    <3>2. ~(Adds(u) /\ KindOf(u) = k)
      <4> SUFFICES ASSUME Adds(u), KindOf(u) = k PROVE FALSE
        OBVIOUS
      <4>1. Sets(batch[i]) /\ KindOf(batch[i]) = k
        BY <1>3, <2>2, <2>4
      <4>2. k \in {"schema", "spec", "order"}
        BY DEF Kinds
      <4>3. Rank(x) = CASE k = "schema" -> 4 [] k = "spec" -> 6 [] k = "order" -> 8
        BY <1>3, RankNumbers
      <4>4. Rank(i) = CASE k = "schema" -> 5 [] k = "spec" -> 7 [] k = "order" -> 9
        BY <1>2, <1>3, <2>4, <4>1, RankNumbers
      <4>5. Rank(x) < Rank(i)
        BY <4>2, <4>3, <4>4
      <4> QED
        BY <1>2, <1>3, <1>6, <1>7, <2>4, <4>5
    <3>3. n.current[k] = work.current[k] /\ n.items[k] = work.items[k]
      BY <1>11, <2>1, <3>1, <3>2
    <3>4. work.current[k] = Latest(work, k).id
      BY <1>0, <1>3, <2>4 DEF Progress, CurrentSoFar
    <3> QED
      BY <3>3, <3>4 DEF Latest
  <2> QED
    BY <1>3, <2>3, <2>4
<1>15. outcome' = "none" /\ failed' = 0
  BY <1>0, <1>1 DEF Progress
<1> QED
  BY <1>5, <1>8, <1>9, <1>12, <1>13, <1>14, <1>15 DEF Progress

\* A refusal comes when all that could have prevented it has been applied.
LEMMA RejectHasReason ==
    ASSUME BatchInv, NEW x \in todo, RejectUpdate(x)
    PROVE  RefusalsHaveReasons'
<1> DEFINE u == batch[x]
<1>0. IndInv /\ TypeOK /\ Progress /\ pc = "applying"
  BY DEF BatchInv, RejectUpdate
<1>1. /\ IsNext(x) /\ Fails(work, u) /\ outcome' = "failed" /\ failed' = x
      /\ UNCHANGED <<table, work, batch, todo>>
  BY DEF RejectUpdate
<1>2. /\ todo \subseteq DOMAIN batch /\ x \in DOMAIN batch
      /\ \A i \in DOMAIN batch : i \in Nat /\ batch[i] \in Updates /\ Known(batch[i]) /\ Rank(i) \in Nat
  BY <1>0, RankNumbers DEF TypeOK, IndInv, BatchIsKnown
<1>3. \A i \in DOMAIN batch : Rank(i) < Rank(x) => i \in Applied
  BY <1>1, <1>2 DEF IsNext, Applied
<1>4. \A i \in Applied : i \in DOMAIN batch /\ Rank(i) <= Rank(x)
  BY <1>0, <1>2 DEF Progress, InOrder, Applied
<1>5. RefusedRefIsMissing'
  <2> SUFFICES ASSUME u.action = "set-snapshot-ref", Float(u.id) = u.id, u.valid, u.type # "other"
               PROVE  /\ u.id \notin table.snapshots
                      /\ \A i \in DOMAIN batch : batch[i].action = "add-snapshot" => batch[i].id # u.id
    BY <1>1 DEF RefusedRefIsMissing
  <2>1. u.id \notin work.snapshots
    BY <1>1 DEF Fails, SetSnapshotRefFails
  <2>2. \A i \in Applied : batch[i].action # "remove-snapshots"
    <3>1. Rank(x) = 11
      BY <1>2, RankNumbers
    <3> QED
      BY <1>2, <1>4, <3>1, RankNumbers
  <2>3. /\ table.snapshots \subseteq work.snapshots
        /\ \A i \in Applied : batch[i].action = "add-snapshot" => Float(batch[i].id) \in work.snapshots
    BY <1>0, <2>2 DEF Progress, SnapshotsSoFar
  <2>4. \A i \in DOMAIN batch : batch[i].action = "add-snapshot" => i \in Applied
    <3>1. Rank(x) = 11
      BY <1>2, RankNumbers
    <3> QED
      BY <1>2, <1>3, <3>1, RankNumbers
  <2> QED
    BY <2>1, <2>3, <2>4
<1>6. RefusedRemovalIsPinned'
  <2> DEFINE A == Applied
             D == DOMAIN batch
  <2> SUFFICES ASSUME u.action = "remove-snapshots", u.valid
               PROVE  \/ CurrentAfter(D) \in u.ids
                      \/ \E n \in RefNames : RefAfter(n, D) # Null /\ RefAfter(n, D).id \in u.ids
    <3>1. CurrentAfter(D)' = CurrentAfter(D) /\ \A n : RefAfter(n, D)' = RefAfter(n, D)
      BY <1>1 DEF CurrentAfter, CurrentSet, RefAfter, RefSet, SetsMain, SetsRef, RemovesRef
    <3> QED
      BY <1>1, <3>1 DEF RefusedRemovalIsPinned
  <2>1. \A i \in D : (\E n : SetsRef(i, n) \/ RemovesRef(i, n)) => i \in A
    <3>1. Rank(x) = 19
      BY <1>2, RankNumbers
    <3> QED
      BY <1>2, <1>3, <3>1, RankNumbers DEF SetsRef, RemovesRef
  <2>2. A \subseteq D
    BY DEF Applied
  <2> HIDE DEF A, D
  <2>3. /\ \A n : {i \in A : SetsRef(i, n)} = {i \in D : SetsRef(i, n)}
        /\ {i \in A : SetsMain(i)} = {i \in D : SetsMain(i)}
        /\ \A n : (\E i \in A : RemovesRef(i, n)) <=> (\E i \in D : RemovesRef(i, n))
    BY <2>1, <2>2 DEF SetsMain
  <2>4. \A n : RefSet(n, A) = RefSet(n, D)
    BY <2>3 DEF RefSet
  <2>5. CurrentAfter(A) = CurrentAfter(D) /\ \A n : RefAfter(n, A) = RefAfter(n, D)
    BY <2>3, <2>4 DEF CurrentAfter, CurrentSet, RefAfter
  <2>6. work.currentSnapshot = CurrentAfter(D) /\ \A n \in RefNames : work.refs[n] = RefAfter(n, D)
    BY <1>0, <2>5 DEF Progress, RefsSoFar, A
  <2>7. Referenced(work) \cap u.ids # {} \/ work.currentSnapshot \in u.ids
    BY <1>1 DEF Fails, RemoveSnapshotsFails
  <2>8. Referenced(work) \cap u.ids # {} =>
          \E n \in RefNames : work.refs[n] # Null /\ work.refs[n].id \in u.ids
    BY DEF Referenced
  <2> QED
    BY <2>6, <2>7, <2>8
<1> QED
  BY <1>5, <1>6 DEF RefusalsHaveReasons

\* CreateTable and RegisterTable write metadata of the type.
LEMMA InitialType ==
    ASSUME NEW m \in InitialTables
    PROVE  m \in Metadata /\ Itemized(m)
<1> USE BoundsAssumption
<1>0. Blank \in Metadata
  <2> DEFINE its == [k \in Kinds |-> {}]
             cur == [k \in Kinds |-> Null]
             lf  == [k \in Kinds |-> 0]
             rf  == [n \in RefNames |-> Null]
  <2>1. its \in [Kinds -> SUBSET [id : Int \cup {Null}, at : Nat]]
    OBVIOUS
  <2>2. cur \in [Kinds -> Int \cup {Null}] /\ lf \in [Kinds -> Nat] /\ rf \in [RefNames -> Ref \cup {Null}]
    OBVIOUS
  <2>3. Blank = [uuid |-> "uuid", version |-> 2, location |-> "location",
                 items |-> its, adds |-> 0, current |-> cur, lastField |-> lf,
                 snapshots |-> {}, snapshotLog |-> {}, lastSequence |-> 0,
                 refs |-> rf, currentSnapshot |-> Null,
                 statistics |-> {}, partitionStatistics |-> {}, keys |-> {}, properties |-> {}]
    BY DEF Blank
  <2> HIDE DEF its, cur, lf, rf
  <2> QED  BY <2>1, <2>2, <2>3 DEF Metadata
<1>1. CASE m = Registered
  <2>1. m \in Metadata
    BY <1>0, <1>1 DEF Registered
  <2>2. \A k \in Kinds : m.items[k] = {}
    BY <1>1 DEF Registered, Blank
  <2>3. \A k \in Kinds : \A i \in Ids(m, k) : i <= 0
    BY <2>2 DEF Ids
  <2> QED
    BY <2>1, <2>2, <2>3 DEF Itemized
<1>2. ASSUME NEW ids \in InitialIds, m = Created(ids) PROVE m \in Metadata /\ Itemized(m)
  <2>1. \A k \in Kinds : ids[k] \in Int \cup {Null}
    BY InitialAssumption
  <2> DEFINE its == [k \in Kinds |-> {Entry(ids[k], 0)}]
             cur == [k \in Kinds |-> 0]
             lf == [Blank.lastField EXCEPT !["schema"] = FirstField]
  <2>2. its \in [Kinds -> SUBSET [id : Int \cup {Null}, at : Nat]]
    BY <2>1 DEF Entry
  <2>3. cur \in [Kinds -> Int \cup {Null}]
    OBVIOUS
  <2>4. lf \in [Kinds -> Nat]
    BY DEF Blank, Kinds
  <2>5. m = [Blank EXCEPT !.items = its, !.current = cur, !.lastField = lf]
    BY <1>0, <1>2 DEF Created, Metadata
  <2>6. m.items = its /\ m.adds = 0
    BY <2>5 DEF Blank
  <2> HIDE DEF cur, lf
  <2>7. m \in Metadata
    BY <1>0, <2>2, <2>3, <2>4, <2>5 DEF Metadata
  <2>8. \A k \in Kinds : m.items[k] = {Entry(ids[k], 0)}
    BY <2>6
  <2>9. ASSUME NEW k \in Kinds PROVE \E b \in Nat : \A i \in Ids(m, k) : i <= b
    <3>1. Ids(m, k) \subseteq {ids[k]} \ {Null}
      BY <2>8 DEF Ids, Entry
    <3>2. CASE ids[k] \in Nat
      BY <3>1, <3>2
    <3>3. CASE ids[k] \notin Nat
      <4>1. \A i \in Ids(m, k) : i <= 0
        BY <2>1, <3>1, <3>3
      <4> QED
        BY <4>1
    <3> QED
      BY <3>2, <3>3
  <2>10. \A k \in Kinds : \A e \in m.items[k] : e.at = 0 /\ e = Entry(ids[k], 0)
    BY <2>8 DEF Entry
  <2> QED
    BY <2>6, <2>7, <2>9, <2>10 DEF Itemized
<1> QED
  BY <1>1, <1>2 DEF InitialTables

\* It holds at first.
LEMMA BatchInvInit == Init => BatchInv
<1> SUFFICES ASSUME Init PROVE BatchInv
  OBVIOUS
<1>1. table \in Metadata /\ work \in Metadata /\ Itemized(table) /\ Itemized(work)
  BY InitialType DEF Init
<1>2. batch = <<>> /\ todo = {} /\ pc = "idle" /\ outcome = "none" /\ failed = 0 /\ batches = 0
  BY DEF Init
<1>3. TypeOK
  BY <1>1, <1>2, BoundsAssumption DEF TypeOK
<1>4. RefusalsHaveReasons /\ RemovalsWin /\ LastAddedBecomesCurrent
  BY <1>2 DEF RefusalsHaveReasons, RefusedRefIsMissing, RefusedRemovalIsPinned, RemovalsWin,
     LastAddedBecomesCurrent
<1> QED
  BY <1>1, <1>2, <1>3, <1>4, IndInvInit DEF BatchInv

\* A batch that is not applied or refused yet has nothing to answer for.
LEMMA NoOutcome ==
    ASSUME outcome' \in {"none", "unparsed"}
    PROVE  RefusalsHaveReasons' /\ RemovalsWin' /\ LastAddedBecomesCurrent'
BY DEF RefusalsHaveReasons, RefusedRefIsMissing, RefusedRemovalIsPinned, RemovalsWin,
   LastAddedBecomesCurrent

\* Every step preserves it.
LEMMA BatchInvStep == BatchInv /\ [Next]_vars => BatchInv'
<1> SUFFICES ASSUME BatchInv, [Next]_vars PROVE BatchInv'
  OBVIOUS
<1>0. /\ IndInv' /\ IndInv /\ TypeOK /\ Itemized(table) /\ Itemized(work)
      /\ table \in Metadata /\ work \in Metadata
  BY IndInvStep DEF BatchInv, TypeOK
<1>1. ASSUME NEW b \in Batches, Receive(b) PROVE BatchInv'
  <2>1. work' = table /\ table' = table
    BY <1>0, <1>1, DeepCopySame DEF Receive, IndInv
  <2>2. b \in Seq(Updates) /\ batch' = b /\ failed' = 0 /\ batches' \in 0..MaxBatches
    BY <1>0, <1>1, BoundsAssumption DEF Receive, Batches, TypeOK
  <2>3. /\ todo' \subseteq DOMAIN b /\ pc' \in {"idle", "applying"} /\ outcome' \in {"none", "unparsed"}
        /\ pc' = "applying" => todo' = DOMAIN b /\ outcome' = "none"
    BY <1>1 DEF Receive
  <2>4. TypeOK'
    BY <1>0, <2>1, <2>2, <2>3 DEF TypeOK
  <2>5. ASSUME pc' = "applying" PROVE Progress'
    <3>1. Applied' = {}
      BY <2>2, <2>3, <2>5 DEF Applied
    <3> QED
      BY <2>1, <2>2, <2>3, <2>5, <3>1 DEF Progress, InOrder, RemovedSoFar, SnapshotsSoFar, RefsSoFar,
         CurrentSoFar, RefAfter, RefSet, CurrentAfter, CurrentSet
  <2>6. Itemized(table)' /\ Itemized(work)'
    BY <1>0, <2>1 DEF Itemized, Ids
  <2> QED
    BY <1>0, <2>3, <2>4, <2>5, <2>6, NoOutcome DEF BatchInv
<1>2. ASSUME NEW i \in todo, ApplyUpdate(i) PROVE BatchInv'
  <2>1. Progress' /\ TypeOK' /\ Itemized(work)' /\ table' = table
    BY <1>2, ApplyProgress DEF ApplyUpdate
  <2>2. outcome' = "none"
    BY <2>1 DEF Progress
  <2>3. Itemized(table)'
    BY <1>0, <2>1 DEF Itemized, Ids
  <2> QED
    BY <1>0, <2>1, <2>2, <2>3, NoOutcome DEF BatchInv
<1>3. ASSUME NEW i \in todo, RejectUpdate(i) PROVE BatchInv'
  <2>1. /\ outcome' = "failed" /\ failed' = i /\ pc' = "idle"
        /\ UNCHANGED <<table, work, batch, todo, batches>>
    BY <1>3 DEF RejectUpdate
  <2>2. i \in DOMAIN batch /\ i # 0
    BY <1>0 DEF TypeOK
  <2>3. TypeOK'
    BY <1>0, <2>1, <2>2 DEF TypeOK
  <2>4. RemovalsWin' /\ LastAddedBecomesCurrent'
    BY <2>1 DEF RemovalsWin, LastAddedBecomesCurrent
  <2>5. Itemized(table)' /\ Itemized(work)'
    BY <1>0, <2>1 DEF Itemized, Ids
  <2> QED
    BY <1>0, <1>3, <2>1, <2>3, <2>4, <2>5, RejectHasReason DEF BatchInv
<1>4. CASE Finish
  <2>1. /\ pc = "applying" /\ todo = {} /\ table' = work /\ work' = work /\ outcome' = "ok" /\ pc' = "idle"
        /\ UNCHANGED <<batch, todo, failed, batches>>
    BY <1>4 DEF Finish
  <2>2. Progress /\ Applied = DOMAIN batch
    BY <2>1 DEF BatchInv, Applied
  <2>3. TypeOK'
    BY <1>0, <2>1, <2>2 DEF TypeOK, Progress
  <2>4. RemovalsWin'
    <3>1. \A i \in DOMAIN batch : RemovedIn(work, batch[i])
      BY <2>2 DEF Progress, RemovedSoFar
    <3> QED
      BY <2>1, <3>1 DEF RemovalsWin, RemovedIn
  <2>5. LastAddedBecomesCurrent'
    BY <2>1, <2>2 DEF LastAddedBecomesCurrent, Progress, CurrentSoFar, SetsCurrent, Latest
  <2>6. RefusalsHaveReasons'
    BY <2>1 DEF RefusalsHaveReasons, RefusedRefIsMissing, RefusedRemovalIsPinned
  <2>7. Itemized(table)' /\ Itemized(work)'
    BY <1>0, <2>1 DEF Itemized, Ids
  <2> QED
    BY <1>0, <2>1, <2>3, <2>4, <2>5, <2>6, <2>7 DEF BatchInv
<1>5. CASE UNCHANGED vars
  <2>1. UNCHANGED <<table, work, batch, todo, pc, outcome, failed, batches>>
    BY <1>5 DEF vars
  <2>2. TypeOK' /\ Itemized(table)' /\ Itemized(work)'
    BY <1>0, <2>1 DEF TypeOK, Itemized, Ids
  <2>3. Progress => Progress'
    <3>1. Applied' = Applied /\ \A i : Rank(i)' = Rank(i)
      BY <2>1 DEF Applied, Rank
    <3>2. RefsSoFar => RefsSoFar'
      BY <2>1, <3>1, SMTT(30) DEF RefsSoFar, RefAfter, RefSet, CurrentAfter, CurrentSet, SetsRef, RemovesRef, SetsMain
    <3> QED
      BY <2>1, <3>1, <3>2 DEF Progress, InOrder, RemovedSoFar, SnapshotsSoFar, CurrentSoFar,
         SetsCurrent, Latest
  <2>4. RefusalsHaveReasons'
    <3>1. /\ CurrentAfter(DOMAIN batch)' = CurrentAfter(DOMAIN batch)
          /\ \A n : RefAfter(n, DOMAIN batch)' = RefAfter(n, DOMAIN batch)
      BY <2>1 DEF CurrentAfter, CurrentSet, RefAfter, RefSet, SetsMain, SetsRef, RemovesRef
    <3> QED
      BY <2>1, <3>1 DEF BatchInv, RefusalsHaveReasons, RefusedRefIsMissing, RefusedRemovalIsPinned
  <2>5. RemovalsWin'
    BY <2>1 DEF BatchInv, RemovalsWin
  <2>6. LastAddedBecomesCurrent'
    BY <2>1 DEF BatchInv, LastAddedBecomesCurrent, SetsCurrent, Latest
  <2> QED
    BY <1>0, <2>1, <2>2, <2>3, <2>4, <2>5, <2>6 DEF BatchInv
<1>6. CASE Return
  <2>1. /\ pc = "idle" /\ work' = table /\ batch' = <<>> /\ todo' = {} /\ outcome' = "none" /\ failed' = 0
        /\ UNCHANGED <<table, pc, batches>>
    BY <1>6 DEF Return
  <2>2. TypeOK'
    BY <1>0, <2>1 DEF TypeOK
  <2>3. Itemized(table)' /\ Itemized(work)'
    BY <1>0, <2>1 DEF Itemized, Ids
  <2> QED
    BY <1>0, <2>1, <2>2, <2>3, NoOutcome DEF BatchInv
<1> QED
  BY <1>1, <1>2, <1>3, <1>4, <1>5, <1>6 DEF Next

\* Whatever the updates of a batch and their order, what Process has done of it so
\* far is what processingOrder promises.
THEOREM BatchesAreInOrder == Spec => []BatchInv
BY BatchInvInit, BatchInvStep, PTL DEF Spec

\* The metadata keeps its shape through every update of every batch, and a refusal
\* names one of the updates.
THEOREM TypeCorrect == Spec => []TypeOK
<1>1. BatchInv => TypeOK
  BY DEF BatchInv
<1> QED
  BY <1>1, BatchesAreInOrder, PTL

\* Process refuses no ref and no removal of snapshots because the request has it
\* before an update of another action that it needs.
THEOREM RefusalsAreJustified == Spec => []RefusalsHaveReasons
<1>1. BatchInv => RefusalsHaveReasons
  BY DEF BatchInv
<1> QED
  BY <1>1, BatchesAreInOrder, PTL

\* Nothing that a batch removes is there after it, wherever in the request it was.
THEOREM RemovalsHaveTheLastWord == Spec => []RemovalsWin
<1>1. BatchInv => RemovalsWin
  BY DEF BatchInv
<1> QED
  BY <1>1, BatchesAreInOrder, PTL

\* -1 makes the newest schema, spec or order current, even one without an id among
\* items that have any.
THEOREM MinusOneIsTheLastAdded == Spec => []LastAddedBecomesCurrent
<1>1. BatchInv => LastAddedBecomesCurrent
  BY DEF BatchInv
<1> QED
  BY <1>1, BatchesAreInOrder, PTL
=============================================================================
