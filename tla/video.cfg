SPECIFICATION Spec
CONSTANTS
    Infos = {hd, uhd}
    kMaxQueued = 8
    kMaxVideoQueued = 8
    MaxFrame = 4
    MaxClients = 2
    MaxRebuilds = 0
    LoseIdr = FALSE
INVARIANTS
    IdrOnItsWay
    StreamRecovers
SYMMETRY InfoSymmetry
CHECK_DEADLOCK FALSE
