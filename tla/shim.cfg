SPECIFICATION Spec
CONSTANTS
    MaxInits = 2
    CompositorStops = TRUE
INVARIANTS
    ThreadsStopped
PROPERTIES
    UnloadCompletes
    IdleTakesOver
CHECK_DEADLOCK FALSE
