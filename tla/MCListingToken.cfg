\* Listings that nobody changes.
SPECIFICATION Spec
CONSTANTS
    NamespaceNames <- NestedNames
    TableNames <- PlainNames
    Parents <- ParentNames
    Sizes = {0, 2, 4}
    MaxPageSize = 3
    MaxChanges = 0
    None = None
INVARIANTS NoTokenMeansComplete
CHECK_DEADLOCK FALSE
