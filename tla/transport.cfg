SPECIFICATION Spec
CONSTANTS
    Count = 2
    Modes = {full}
    MaxGeneration = 2
    MaxFrame = 2
    kMaxPendingMessages = 1
    kMaxDone = 1
    kMaxRingAttempts = 1
    MaxSessions = 2
    MaxHaptics = 0
    MaxRestarts = 0
    None = None
INVARIANTS
    LeaseInv
    NoTornRead
    HeldStaysOwned
    IdMatchIsGenerationMatch
    ConfigNotLost
    EncodesItsFrame
PROPERTIES
    ImplementsLease
    NoLostSlot
