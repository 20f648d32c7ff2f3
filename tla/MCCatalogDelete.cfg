SPECIFICATION Spec
CONSTANTS
    Clients = {c1, c2}
    Spaces = {"a", "b"}
    Names = {"x", "y"}
    Keys = {"k", "l"}
    InitialSpaces <- OneSpace
    Requests <- DeleteRequests
    MaxRequests = 1
    MaxIds = 3
    None = None
INVARIANTS OnlyEmptyNamespacesGo
CHECK_DEADLOCK FALSE
