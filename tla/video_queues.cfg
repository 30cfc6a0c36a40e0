SPECIFICATION Spec
CONSTANTS
    Infos = {hd, uhd}
    kMaxQueued = 2
    kMaxVideoQueued = 2
    MaxFrame = 3
    MaxClients = 2
    MaxRebuilds = 1
    LoseIdr = TRUE
INVARIANTS
    SentInOrder
SYMMETRY InfoSymmetry
CHECK_DEADLOCK FALSE
