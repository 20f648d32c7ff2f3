SPECIFICATION Spec
CONSTANTS
    Clients = {c1, c2, c3}
    Spaces = {"a", "b"}
    Names = {"x", "y"}
    Keys = {"k", "l"}
    InitialSpaces <- BothSpaces
    Requests <- RaceRequests
    MaxRequests = 1
    MaxIds = 4
    None = None
SYMMETRY Symmetry
INVARIANTS TypeOK NamesAreUnique NoOrphans AnswersAreTruthful
PROPERTIES SuccessIsAtomic
CHECK_DEADLOCK FALSE
