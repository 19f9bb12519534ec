SPECIFICATION Spec
CONSTANTS
    RandomLen = 3
    HashLen = 2
    MaxEntries = 2
    MaxMembers = 3
    MaxLiteral = 4
    MaxText = 4
    MaxAudio = 5
    MaxParts = 3
CHECK_DEADLOCK FALSE
INVARIANTS
    PayloadRead
    TextDecoded
    AudioDecoded
    RecordsWellFormed
    FlightReadable
