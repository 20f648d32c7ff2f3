\* Two nodes, two tasks and a fault; a plan, and a table with two names to have.
SPECIFICATION Spec
CONSTANTS
    Nodes = {n1, n2}
    Tasks <- MCTasks
    MaxFaults = 1
    MaxHolds = 2
    Plans = {p1}
    Names = {"a", "b"}
    Tables = {1}
    InitialTables <- OneTable
    None = None
INVARIANTS TypeOK LeadersHoldTheLock KnownPlansAreServed CancelledStaysCancelled
PROPERTIES StopReturns ExpiredPlansGo
CHECK_DEADLOCK FALSE
