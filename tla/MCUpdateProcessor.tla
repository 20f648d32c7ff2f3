------------------------- MODULE MCUpdateProcessor -------------------------
(***************************************************************************)
(* Instances of UpdateProcessor for TLC.  The updates of a run are those   *)
(* of one concern: snapshots and refs, or schemas, specs, orders and the   *)
(* rest; the two concerns share no field of the metadata.                  *)
(***************************************************************************)
EXTENDS UpdateProcessor

U(action, valid, name, type, id, ids, num) ==
    [action |-> action, valid |-> valid, name |-> name, type |-> type,
     id |-> id, ids |-> ids, num |-> num]

Plain(action, id) == U(action, TRUE, "-", "other", id, {}, 0)
Named(action, name) == U(action, TRUE, name, "other", 0, {}, 0)
Ref_(name, type, id) == U("set-snapshot-ref", TRUE, name, type, id, {}, 0)
Removal(action, ids) == U(action, TRUE, "-", "other", 0, ids, 0)
Add(action, id, num) == U(action, TRUE, "-", "other", id, {}, num)
Invalid(action) == U(action, FALSE, "main", "other", 0, {}, 0)

\* Snapshots, what refers to them, and statistics about them.  Above
\* Exact = 4 an id may be stored as another one: 5 as 4.
SnapshotUpdates ==
    {Add("add-snapshot", 1, 2), Add("add-snapshot", 2, 1), Add("add-snapshot", 5, 3),
     Ref_("main", "branch", 1), Ref_("main", "branch", 2), Ref_("main", "tag", 2), Ref_("main", "branch", -1),
     Ref_("b", "tag", 1), Ref_("b", "branch", 2), Ref_("b", "branch", 5), Ref_("b", "other", 1),
     Named("remove-snapshot-ref", "main"), Named("remove-snapshot-ref", "b"),
     Removal("remove-snapshots", {1}), Removal("remove-snapshots", {1, 2}),
     Plain("set-statistics", 1), Plain("remove-statistics", 1),
     Plain("set-partition-statistics", 1), Plain("remove-partition-statistics", 1)}

\* Schemas, specs, sort orders and everything that is not about snapshots.
ItemUpdates ==
    {Add("add-schema", -1, 3), Add("add-schema", 1, 1), Plain("set-current-schema", -1),
     Plain("set-current-schema", 0), Removal("remove-schemas", {0}), Removal("remove-schemas", {1, 2}),
     Add("add-spec", -1, 2), Plain("set-default-spec", -1), Removal("remove-partition-specs", {0}),
     Add("add-sort-order", 1, 0), Plain("set-default-sort-order", 1),
     Plain("upgrade-format-version", 1), Plain("upgrade-format-version", 3),
     Named("assign-uuid", "other"), Named("unknown", "-"), Named("set-location", "l"),
     Named("set-properties", "p"), Named("remove-properties", "p"),
     Named("add-encryption-key", "k"), Named("remove-encryption-key", "k"), Invalid("add-encryption-key")}

NoIds == {}
FirstIds == {[k \in Kinds |-> 0], [k \in Kinds |-> IF k = "schema" THEN 0 ELSE Null]}
=============================================================================
