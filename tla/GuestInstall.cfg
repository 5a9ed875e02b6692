\* Two connections that install bundles, bindings, secrets and an object.
SPECIFICATION Spec
CONSTANTS
    None = None
    Callers = {c1, c2}
    Payloads <- TwoPayloads
    Descriptors <- TwoDescriptors
    BindingSeals <- Seals
    SecretSets <- SecretVariants
    Objects = {o1}
    UidOf <- Colliding
    MaxBindings = 2
    MaxCalls = 5
SYMMETRY Symmetry
CHECK_DEADLOCK FALSE
INVARIANTS
    WholeOrAbsent
    ReceiptHolds
    ExecutionIsIsolated
