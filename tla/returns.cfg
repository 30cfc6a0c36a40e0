SPECIFICATION FairSpec
CONSTANTS
    Count = 1
    Modes = {full}
    MaxGeneration = 2
    MaxFrame = 1
    kMaxPendingMessages = 2
    kMaxDone = 3
    kMaxRingAttempts = 1
    MaxSessions = 2
    MaxHaptics = 1
    MaxRestarts = 1
    None = None
PROPERTY SlotReturns
