SPECIFICATION FairSpec
CONSTANTS
    kDeviceCount = 2
    Configs = {wide}
    MaxSamples = 1
    MaxInputs = 1
    MaxConfigs = 1
    MaxSessions = 1
    MaxRefusals = 1
    MaxCrashes = 1
    NoConfig = NoConfig
PROPERTY EventuallyActive
CHECK_DEADLOCK FALSE
