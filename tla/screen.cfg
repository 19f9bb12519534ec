SPECIFICATION FairSpec
CONSTANTS
    Letters = {"a"}
    Hanzi = {"X", "Y"}
    SubW = 2
    MaxHistory = 3
    Visible = 2
    MaxPush = 2
    Replies <- MCReplies
    Altered <- MCAltered
    States = {"Idle", "Listening"}
    Minutes = {"10:00"}
    Readings = {"80%"}
    MaxEvents = 2
CHECK_DEADLOCK FALSE
INVARIANTS
    ScreenTrue
    TranscriptKept
PROPERTIES
    Settles
