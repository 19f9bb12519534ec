------------------------------ MODULE PlayQueue ------------------------------
(***************************************************************************)
(* What the loudspeaker promises for one audio stream: the samples it has  *)
(* accepted, numbered 1, 2, 3 ..., are heard in that order, none twice.    *)
(* Samples may be given up, but only the oldest ones not yet heard.        *)
(***************************************************************************)
EXTENDS Naturals

VARIABLES
    accepted,   \* samples accepted so far
    passed,     \* the first of them are heard or given up
    heard       \* the last sample heard

Init == accepted = 0 /\ passed = 0 /\ heard = 0

Accept == accepted' >= accepted /\ UNCHANGED <<passed, heard>>

Hear ==
    /\ passed < accepted
    /\ passed' = passed + 1
    /\ heard' = passed'
    /\ UNCHANGED accepted

GiveUp == passed' \in passed .. accepted /\ UNCHANGED <<accepted, heard>>

NewStream == accepted' = 0 /\ passed' = 0 /\ heard' = 0

Spec == Init /\ [][Accept \/ Hear \/ GiveUp \/ NewStream]_<<accepted, passed, heard>>
=============================================================================
