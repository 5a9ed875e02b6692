\* Two calls on a default target and its rival: leases and takeovers, or closes and purges.
SPECIFICATION MCSpec
CONSTANTS
    Keys = {"k", "l"}
    Calls = {"c1", "c2"}
    Specs = {"s", "t"}
    Gens = {"g1", "g2", "h1"}
    Ids = {"i1", "i2", "j1", "a1", "a2", "a3", "a4"}
    GenOf <- MCGenOf
    Requests <- Either
    NoRequest = NoRequest
    NoId = NoId
    Mib = 1
    MaxMib = 1
    LifetimeMs = 3
    LeaseMs = 4
    AttemptMs = 1
    MaxTries = 2
CHECK_DEADLOCK FALSE
INVARIANTS
    PlaneExact
PROPERTIES
    Conforms
    LeaseIsCurrent
