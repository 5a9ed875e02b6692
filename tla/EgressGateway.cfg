\* Three connections that compete for two setup slots and one tunnel slot.
SPECIFICATION FairSpec
CONSTANTS
    None = None
    Conns = {"c1", "c2", "c3"}
    Caps = {"k1", "k2"}
    RootOf <- MCRootOf
    ExpiresOf <- MCExpiresOf
    HostRules <- MCHostRules
    CidrRules <- MCCidrRules
    Names = {"host", "bad"}
    Addrs = {"ip1", "ip3"}
    Denied = {"bad", "ip3"}
    MaxConnections = 1
    MaxPerRoot = 1
    MaxPendingSetups = 2
    MaxRelayBytes = 2
    MaxChunk = 2
    SetupTimeout = 2
    IdleTimeout = 2
    MaxTime = 5
    MaxArrival = 1
CHECK_DEADLOCK FALSE
INVARIANTS
    LimitsHold
    WithinGrant
PROPERTIES
    EveryClientServed
