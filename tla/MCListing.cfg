\* Five namespaces of up to three levels, or four tables of a namespace that
\* may go and come back, by pages of one to three.
SPECIFICATION Spec
CONSTANTS
    NamespaceNames <- NestedNames
    TableNames <- PlainNames
    Parents <- ParentNames
    Sizes = {0, 2, 4}
    MaxPageSize = 3
    MaxChanges = 3
    None = None
INVARIANTS ResumedListingIsComplete EmptyAnswerIsTrue
CHECK_DEADLOCK FALSE
