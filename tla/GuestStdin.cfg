SPECIFICATION Spec
CONSTANTS
    None = None
    Callers = {c1, c2, c3}
    Requests <- Mixed
    MaxRecords = 2
    MaxCalls = 3
CHECK_DEADLOCK FALSE
INVARIANTS
    StdinIsExact
    
