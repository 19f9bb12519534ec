SPECIFICATION MCSpec
CONSTANTS
    MaxFaults = 2
    ClientCerts = {FALSE}
    MaxFrames = 0
    NTP_SERVERS = 2
    Late = TRUE
    Boot = 1
    Wrap = 4
    MaxPeriods = 5
CHECK_DEADLOCK FALSE
INVARIANTS
    ClockRight
