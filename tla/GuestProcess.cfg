\* Shell commands and bundles, output at the limit, a deadline and a snapshot.
SPECIFICATION MCSpec
CONSTANTS
    p1 = p1
    p2 = p2
    None = None
    Procs = {p1, p2}
    Leader = p1
    Kinds = {"shell", "bundle"}
    Fences = {TRUE, FALSE}
    OutputLimit = 1
    ResultHeadroom = 1
    InlineOverhead = 0
    Frames = {1, 2}
    MaxWrite = 2
    Deadline = 2
    PollTicks = 1
    Pause = 2
    MaxPauses = 1
    Horizon = 3
CHECK_DEADLOCK FALSE
INVARIANTS
    ResultIsFinal
    DeadlineBites
PROPERTIES
    ExecutionEnds
