\* One caller, two rotations, three secrets, two instants a day apart, clocks up to an
\* hour apart.
SPECIFICATION Spec
CONSTANTS
    Callers = {c1}
    Rotators = {r1, r2}
    MaxSecrets = 3
    MaxKeys = 1
    Times = {0, 24}
    MaxSkew = 1
    Durations <- MCDurations
    TokenExpiry = 24
    Calls <- MCCalls
    GrantSets <- MCGrantSets
    InitialGrants <- MCInitialGrants
    MaxChanges = 1
    OAuthEnabled = TRUE
    APIKeyEnabled = TRUE
    ACLEnabled = TRUE
    DefaultPermission = None
    None = None
SYMMETRY Symmetry
INVARIANTS TypeOK
PROPERTIES AccessIsJustified AccessIsReliable
CHECK_DEADLOCK FALSE
