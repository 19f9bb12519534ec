SPECIFICATION FairSpec
CONSTANTS
    BufLen = 5
    HeaderLen = 2
    Sealing = 1
    BodyLens = {1, 3, 4, 6}
    MaxRecords = 3
    Wants = {1, 2}
CHECK_DEADLOCK FALSE
INVARIANTS
    TypeOK
    SlicesInBounds
    NeverMisaligned
PROPERTIES
    ImplementsStream
    CatchesUp
