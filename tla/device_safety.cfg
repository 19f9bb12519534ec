SPECIFICATION Spec
CONSTANTS
    RingCap = 2
    DmaCap = 1
    Watermark = 2
    MicCap = 1
    InboxCap = 1
    MinChunks = 0
    MaxChunks = 2
    MaxDrops = 1
    MaxRefusals = 0
    MaxEmpty = 1
    Presses = TRUE
    Errors = TRUE
    SilentRounds = TRUE
    Oversize = FALSE
INVARIANTS
    TypeOK
    MicCopiesAgree
    MicOnlyWhenListening
    InterruptSilences
    TrackerKnowsStream
    RingBelongsToStream
PROPERTIES
    LateDeltaDropped
