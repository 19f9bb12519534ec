SPECIFICATION FairSpec
CONSTANTS
    RingCap = 3
    DmaCap = 2
    Watermark = 3
    MicCap = 1
    InboxCap = 1
    MinChunks = 3
    MaxChunks = 3
    MaxDrops = 0
    MaxRefusals = 1
    MaxEmpty = 2
    Presses = FALSE
    Errors = TRUE
    SilentRounds = FALSE
    Oversize = FALSE
INVARIANTS
    MicCopiesAgree
PROPERTIES
    KeepsConversing
