SPECIFICATION Spec
CONSTANTS
    Updates <- ItemUpdates
    InitialIds <- FirstIds
    MaxBatch = 2
    MaxBatches = 3
    FirstField = 1
    Exact = 4
    RefNames = {"main", "b"}
    Null = Null
INVARIANTS LastAddedBecomesCurrent
PROPERTIES CurrentIdsStayResolved MetadataNeverRegresses
CHECK_DEADLOCK FALSE
