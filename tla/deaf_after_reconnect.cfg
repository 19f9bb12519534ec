SPECIFICATION Spec
CONSTANTS
    RingCap = 3
    DmaCap = 2
    Watermark = 3
    MicCap = 1
    InboxCap = 1
    MinChunks = 3
    MaxChunks = 3
    MaxDrops = 1
    MaxRefusals = 0
    MaxEmpty = 1
    Presses = FALSE
    Errors = FALSE
    SilentRounds = FALSE
    Oversize = FALSE
INVARIANTS
    NeverDeaf
