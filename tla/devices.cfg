SPECIFICATION Spec
CONSTANTS
    kDeviceCount = 2
    Configs = {wide, narrow}
    MaxSamples = 1
    MaxInputs = 0
    MaxConfigs = 2
    MaxSessions = 2
    MaxRefusals = 1
    MaxCrashes = 0
    NoConfig = NoConfig
INVARIANTS
    LatestWins
    Registering
    AddedOnce
    ConfigApplied
SYMMETRY ConfigSymmetry
CHECK_DEADLOCK FALSE
