SPECIFICATION Spec
CONSTANTS
    group_bytes = 3
    min_sleep = 1
    budget_bytes = 2
    view_bytes = 1
    group_size = 2
    Periods = {4, 10}
    Sizes = {0, 3, 8}
    MaxPairs = 2
    MaxSettings = 1
    MaxErrors = 1
    MaxTime = 4
INVARIANTS
    WholeFrames
    ParityInPlace
PROPERTIES
    WindowShared
    FramesFinish
CHECK_DEADLOCK FALSE
