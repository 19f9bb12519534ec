SPECIFICATION FairSpec
CONSTANTS
    Cap = 8
    ChainLen = 3
    Watermark = 4
    Rates = {1, 2, 3, 6, 7}
    Chunks = {3, 6}
    MaxBytes = 24
    MaxFails = 1
CHECK_DEADLOCK FALSE
INVARIANTS
    Window
    SamplesWhole
    KeepsTime
PROPERTIES
    ImplementsQueue
    StreamEnds
