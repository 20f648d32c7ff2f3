CONSTANTS
    c1 = c1
    c2 = c2
    c3 = c3
    n1 = n1
    n2 = n2
    r1 = r1
    r2 = r2
    r3 = r3
    r4 = r4
    None = None
    Unchecked = Unchecked
    Clients = {c1, c2}
    Names = {n1, n2}
    Rows = {r1, r2, r3, r4}
    Stamps = {1}
    InitialName <- MCInitialName
    Requests <- RaceRequests
    MaxRetries = 1
    MaxSubmits = 1
SPECIFICATION Spec
INVARIANT LogFailureIsHarmless
CHECK_DEADLOCK FALSE
