SPECIFICATION Spec
CONSTANTS
    Pids = {compositor, scene}
    SyncHandles = {sync}
    kMaxTextureSets = 2
    kMaxDeviceAttempts = 2
    MaxCreates = 3
    ReuseHandles = FALSE
INVARIANTS
    RefsMatchHolders
    DeadOwnsNothing
    CopiesSubmitted
SYMMETRY PidSymmetry
CHECK_DEADLOCK FALSE
