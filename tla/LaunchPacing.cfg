\* Three launches of one process, a burst of two, throttled retries.
SPECIFICATION Spec
CONSTANTS
    l1 = l1
    l2 = l2
    l3 = l3
    Launches = {l1, l2, l3}
    Interval = 2
    Burst = 2
    DispatchMs = 2
    MaxAttempts = 2
    MaxBackoff = 1
    MaxClock = 6
SYMMETRY MCSymmetry
CHECK_DEADLOCK FALSE
INVARIANTS
    WithinRate
