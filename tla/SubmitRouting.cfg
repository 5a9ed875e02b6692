\* Two operations of one session, lost replies, dead supervisors and machines, a restart.
SPECIFICATION MCSpec
CONSTANTS
    None = None
    Ops = {"o1", "o2"}
    BindingOf <- Common
    NeedsEnv = {"b"}
    MaxGens = 2
    MaxCaps = 2
    MaxFaults = 2
    MaxRestarts = 1
CHECK_DEADLOCK FALSE
INVARIANTS
    
    InstallationIsExact
    ReplacementAfterAbsence
PROPERTIES
    DeadGenerationIsRetired
