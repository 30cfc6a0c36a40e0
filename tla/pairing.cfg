SPECIFICATION Spec
CONSTANTS
    k1 = k1
    k2 = k2
    k3 = k3
    Keys = {k1, k2, k3}
    pico = pico
    Bases = {pico}
    HashBases = {}
    ReadMayFail = FALSE
    MaxSessions = 4
    MaxCrashes = 1
    None = None
    Garbled = Garbled
SYMMETRY KeySymmetry
INVARIANTS
    OnlyPairedHeadsets
    PairedStaysPaired
    NoDuplicates
    VideoReleased
CHECK_DEADLOCK FALSE
