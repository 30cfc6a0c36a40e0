SPECIFICATION Spec
CONSTANTS
    Count = 1
    Modes = {full}
    MaxGeneration = 2
    MaxFrame = 2
    kMaxPendingMessages = 3
    kMaxDone = 3
    kMaxRingAttempts = 1
    MaxSessions = 2
    MaxHaptics = 0
    MaxRestarts = 1
    None = None
INVARIANT DoneNeverCollides
