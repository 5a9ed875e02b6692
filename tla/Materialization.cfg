\* A default and an additional target that compete for one slot of memory, a
\* crash, an orphaned reservation, and purges until nothing is left.
SPECIFICATION MCSpec
CONSTANTS
    root = root
    extra = extra
    p1 = p1
    p2 = p2
    i1 = i1
    i2 = i2
    g1 = g1
    Keys <- MCKeys
    DefaultKeys <- MCDefault
    Callers = {p1, p2}
    Purgers = {p2}
    Ids = {i1, i2}
    Intents = {g1}
    NoId = NoId
    Mib = 1
    MaxMib = 1
    LifetimeMs = 2
    LeaseMs = 4
    AttemptMs = 1
    DispatchMs = 1
    TransitMs = 1
    CallsUntil = 4
    MaxClock = 9
    MaxFaults = 1
CHECK_DEADLOCK FALSE
INVARIANTS
    CapacityIsExact
    
    CleanupSparesInstalled
PROPERTIES
    TombstonesHold
    PurgeConverges
