SPECIFICATION Spec
CONSTANTS
    Updates <- SnapshotUpdates
    InitialIds <- NoIds
    MaxBatch = 3
    MaxBatches = 2
    FirstField = 1
    Exact = 4
    RefNames = {"main", "b"}
    Null = Null
INVARIANTS TypeOK SnapshotPointersResolve RefusalsHaveReasons RemovalsWin
CHECK_DEADLOCK FALSE
