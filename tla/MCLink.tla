------------------------------- MODULE MCLink -------------------------------
(***************************************************************************)
(* Link for TLC.  voice_task and ntp_task share the access point and the   *)
(* budget of faults and nothing else, so a behaviour runs one of the two.  *)
(***************************************************************************)
EXTENDS Link

VARIABLE task   \* the task that runs: "voice" or "ntp"

mcVars == <<vars, task>>

MCInit == Init /\ task \in {"voice", "ntp"}

Wifi  == WifiTask /\ UNCHANGED task
Peer  == task = "voice" /\ Server /\ UNCHANGED task
Voice == task = "voice" /\ VoiceTask /\ UNCHANGED task
Ntp   == task = "ntp" /\ NtpTask /\ UNCHANGED task

MCNext ==
    \/ Wifi \/ Peer \/ Voice \/ Ntp
    \/ task = "voice" /\ ConnLost /\ UNCHANGED task

MCSpec ==
    /\ MCInit /\ [][MCNext]_mcVars
    /\ WF_mcVars(Faultless(Wifi)) /\ WF_mcVars(Faultless(Peer))
    /\ WF_mcVars(Faultless(Voice)) /\ WF_mcVars(Faultless(Ntp))

\* After every fault, of the access point, the connection or the server, at
\* any step of the connection, the session is established again.
ComesBack == task = "voice" => []<>wsUp
=============================================================================
