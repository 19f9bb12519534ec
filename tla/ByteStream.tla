----------------------------- MODULE ByteStream -----------------------------
(***************************************************************************)
(* What the record layer promises in each direction: a reliable stream of  *)
(* bytes.  What comes out is, at any time, a beginning of what went in;    *)
(* nothing is lost, repeated, reordered or taken back, however often the   *)
(* calls that move the bytes are dropped half way.                         *)
(***************************************************************************)
EXTENDS SequencesExt

VARIABLES
    sent,   \* the bytes one side has handed over
    got     \* the bytes the other side has been given

Init == sent = <<>> /\ got = <<>>

Send == IsPrefix(sent, sent') /\ UNCHANGED got
Receive == IsPrefix(got, got') /\ IsPrefix(got', sent) /\ UNCHANGED sent

Spec == Init /\ [][Send \/ Receive]_<<sent, got>>
=============================================================================
