------------------------------- MODULE Clock -------------------------------
(***************************************************************************)
(* The clock of the status bar: ntp_task asks the NTP servers in turn,     *)
(* stores the answer with the uptime it came at, and comes back every      *)
(* twelve hours; clock_hm adds the uptime passed since.  Time counts the   *)
(* twelve-hour periods; a query takes none.                                *)
(***************************************************************************)
EXTENDS LinkFaults, Integers

CONSTANTS
    NTP_SERVERS, \* number of servers
    Late,        \* may a reply arrive after its query has timed out?
    Boot,        \* the time when the device starts
    Wrap,        \* periods in 2^32 ms: the range of the uptime
    MaxPeriods   \* bound: periods the device runs

ASSUME ClockAssumption ==
    NTP_SERVERS \in Nat \ {0} /\ Late \in BOOLEAN /\ Boot \in Nat
    /\ Wrap \in Nat \ {0} /\ MaxPeriods \in Nat

VARIABLES
    npc,       \* ntp_task: "config", "ask", "wait" or "sleep"
    server,    \* index of the server asked
    flight,    \* replies on their way, each the time the server sent it
    rx,        \* the socket's receive buffer: at most one reply
    uptime,    \* periods since start
    sync_unix, \* SYNC_UNIX
    sync_base, \* SYNC_BASE_MS
    synced     \* SYNCED

clockVars == <<npc, server, flight, rx, uptime, sync_unix, sync_base, synced>>
stored    == <<sync_unix, sync_base, synced>>

Now == Boot + uptime
now_ms == uptime % Wrap

\* clock_hm, before the time of day is taken from it.
Shown == sync_unix + ((now_ms - sync_base) % Wrap)

ClockInit ==
    /\ npc = "config" /\ server = 1 /\ flight = {} /\ rx = <<>> /\ uptime = 0
    /\ sync_unix = 0 /\ sync_base = 0 /\ synced = FALSE

ConfigUp ==
    /\ npc = "config" /\ npc' = "ask"
    /\ UNCHANGED <<server, flight, rx, uptime, stored>>

\* sync_once sends its request, if there is a route.
Ask(routed) ==
    /\ npc = "ask" /\ routed
    /\ npc' = "wait"
    /\ flight' = flight \cup {Now}
    /\ UNCHANGED <<server, rx, uptime, stored>>

\* No answer from this server: the next one, and after the last a sleep.
NextServer ==
    IF server < NTP_SERVERS THEN npc' = "ask" /\ server' = server + 1
                            ELSE npc' = "sleep" /\ server' = 1

AskFails(routed) ==
    /\ npc = "ask" /\ ~routed
    /\ NextServer
    /\ UNCHANGED <<flight, rx, uptime, stored>>

\* A reply reaches the socket; a full buffer drops it.
Reply ==
    /\ \E sent \in flight :
          /\ flight' = flight \ {sent}
          /\ rx' = IF rx = <<>> THEN <<sent>> ELSE rx
    /\ UNCHANGED <<npc, server, uptime, stored>>

\* Variant: the uptime of the first answer counts for all.
SyncOnBoot ==
    /\ npc = "wait" /\ rx # <<>>
    /\ sync_unix' = rx[1] /\ synced' = TRUE
    /\ rx' = <<>>
    /\ npc' = "sleep" /\ server' = 1
    /\ UNCHANGED <<flight, uptime, sync_base>>

\* The first reply in the buffer is the answer, whichever query it answers.
Sync ==
    /\ npc = "wait" /\ rx # <<>>
    /\ sync_unix' = rx[1] /\ sync_base' = now_ms /\ synced' = TRUE
    /\ rx' = <<>>
    /\ npc' = "sleep" /\ server' = 1
    /\ UNCHANGED <<flight, uptime>>

\* A reply that is short, of another mode, or of a server that has no time.
BadReply ==
    /\ npc = "wait" /\ rx # <<>>
    /\ rx' = <<>>
    /\ NextServer
    /\ UNCHANGED <<flight, uptime, stored>>

TimedOut ==
    /\ npc = "wait" /\ rx = <<>>
    /\ NextServer
    /\ flight' = IF Late THEN flight ELSE {}
    /\ UNCHANGED <<rx, uptime, stored>>

Sleep ==
    /\ npc = "sleep" /\ uptime < MaxPeriods
    /\ npc' = "ask"
    /\ uptime' = uptime + 1
    /\ UNCHANGED <<server, flight, rx, stored>>

\* What the status bar shows is the time: no answer is taken for another
\* query's, and the uptime since the last answer counts, across its wrap.
ClockRight == synced => Shown = Now
=============================================================================
