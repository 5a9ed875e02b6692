\* Sessions that compete for room, and the purge of their root.
SPECIFICATION MCSpec
CONSTANTS
    b1 = b1
    b2 = b2
    b3 = b3
    c1 = c1
    c2 = c2
    None = None
    Preps = {c1, c2}
    Installers = {i1}
    Requests <- MCRequests
    Resolved <- MCResolved
    Bytes <- Sizes
    FetchMax <- Authorities
    MaxBundleBytes = 3
    MaxBundles = 3
    MaxFetchBytes = 3
    MaxPreparationBytes = 3
    MaxPreparations = 2
    PageLimit = 1
    MaxCalls = 3
    MaxRestarts = 1
    Purgeable = {"r1"}
CHECK_DEADLOCK FALSE
INVARIANTS
    MemoryIsAccounted
    FetchNeverWasted
    
PROPERTIES
    PurgeCompletes
