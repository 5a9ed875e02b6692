\* Three operations, a write and an export identity, three callers, every failure.
SPECIFICATION Spec
CONSTANTS
    o1 = o1
    o2 = o2
    o3 = o3
    w1 = w1
    x1 = x1
    c1 = c1
    c2 = c2
    c3 = c3
    None = None
    Ops = {o1, o2, o3}
    Identities = {w1, x1}
    Exports = {x1}
    Callers = {c1, c2, c3}
    IntentBytes = 1
    ResultBytes = 2
    MaxEffects = 3
    MaxBytes = 7
    MaxRestarts = 1
    MaxCrashes = 1
    MaxIoErrors = 2
SYMMETRY MCSymmetry
CHECK_DEADLOCK FALSE
INVARIANTS
    EffectAtMostOnce
    RecordsAreTrue
    LogFits
    
