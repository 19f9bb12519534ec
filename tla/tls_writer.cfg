SPECIFICATION Spec
CONSTANTS
    BufLen = 7
    Overhead = 3
    HeaderLen = 1
    Sealing = 2
    FrameLens = {1, 2, 3, 6}
    MaxFrames = 3
CHECK_DEADLOCK FALSE
INVARIANTS
    TypeOK
    OneTenant
    ServerInStep
    Accounted
    OnlyLongFramesSplit
PROPERTIES
    ImplementsStream
