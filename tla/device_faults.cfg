SPECIFICATION VoiceSpec
CONSTANTS
    RingCap = 2
    DmaCap = 1
    Watermark = 2
    MicCap = 1
    InboxCap = 1
    MinChunks = 1
    MaxChunks = 1
    MaxDrops = 1
    MaxRefusals = 0
    MaxEmpty = 1
    Presses = TRUE
    Errors = FALSE
    SilentRounds = FALSE
    Oversize = TRUE
PROPERTIES
    Reconnects
    InterruptTaken
