SPECIFICATION MCSpec
CONSTANTS
    MaxFaults = 2
    ClientCerts = {TRUE, FALSE}
    MaxFrames = 1
    NTP_SERVERS = 2
    Late = FALSE
    Boot = 1
    Wrap = 4
    MaxPeriods = 5
CHECK_DEADLOCK FALSE
INVARIANTS
    Understood
    NoNonceReuse
    BuffersLentOnce
    ClockRight
PROPERTIES
    ComesBack
