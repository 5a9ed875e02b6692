\* Two operations on one slot, and two racing RPCs about one operation.
SPECIFICATION MCSpec
CONSTANTS
    o1 = o1
    o2 = o2
    d1 = d1
    d2 = d2
    r1 = r1
    c1 = c1
    c2 = c2
    None = None
    Ops = {o1, o2}
    Digests = {d1, d2}
    Results = {r1}
    Callers = {c1, c2}
    Reserve = 2
    MaxRecords = 2
    MaxBytes = 4
    Slots = 1
    MaxTombs = 1
    MaxRestarts = 1
    MaxCrashes = 1
    MaxIoErrors = 2
INVARIANTS
    RetentionIsExact
    ExecutionIsControlled
    NoLostWakeup
PROPERTIES
    ReleasedOnlyWhenDurable
    EveryOperationEnds
