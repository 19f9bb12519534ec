------------------------------- MODULE Speaker -------------------------------
(***************************************************************************)
(* The loudspeaker as the two tasks see it (audio_output.rs): the ring of  *)
(* decoded samples, the stream flags and the DMA transfer in flight.       *)
(*                                                                         *)
(* Audio is counted in units of one audio.chunk; the ring holds RingCap of *)
(* them, the DMA descriptor chain DmaCap, and playback starts at Watermark *)
(* units or when the server has said audio.done.  One prefill of the chain *)
(* takes less than the watermark (8 KB of ring data of 32 KB).  Silence pushed into the  *)
(* chain counts like audio: it occupies descriptors, nothing else.         *)
(***************************************************************************)
EXTENDS Naturals

CONSTANTS
    RingCap,     \* ring capacity            (RING_CAP_CANDIDATES)
    DmaCap,      \* descriptor chain         (TX_STREAM_BYTES)
    Watermark    \* start threshold          (PLAY_WATERMARK_BYTES)

ASSUME SpeakerAssumption ==
    /\ RingCap \in Nat \ {0}
    /\ DmaCap \in Nat \ {0}
    /\ Watermark \in (DmaCap + 1) .. RingCap

Speakers ==
    [ streaming : BOOLEAN,       \* between audio.start and "played out"
      started   : BOOLEAN,       \* the watermark was reached
      done_flag : BOOLEAN,       \* the server said audio.done
      buffered  : 0 .. RingCap,  \* audio in the ring
      xfer      : BOOLEAN,       \* a DMA transfer is in flight
      dma       : 0 .. DmaCap ]  \* descriptors the DMA has not played yet

Silent ==
    [ streaming |-> FALSE, started |-> FALSE, done_flag |-> FALSE,
      buffered |-> 0, xfer |-> FALSE, dma |-> 0 ]

AtMost(a, b) == IF a <= b THEN a ELSE b

\* reclaim(): stop the transfer, take the DMA buffer back.
Reclaim(s) == [s EXCEPT !.xfer = FALSE, !.dma = 0]

\* audio.start drops whatever is left of the stream before.
BeginStream(s) == [Silent EXCEPT !.streaming = TRUE]

FinishStream(s) == [s EXCEPT !.done_flag = TRUE]

\* Variant: the ring keeps what it holds.
StopKeepsRing(s) ==
    [Reclaim(s) EXCEPT !.streaming = FALSE, !.started = FALSE, !.done_flag = FALSE]

StopPlayback(s) ==
    [Reclaim(s) EXCEPT !.streaming = FALSE, !.started = FALSE,
                       !.done_flag = FALSE, !.buffered = 0]

IsActive(s) == s.streaming \/ s.buffered > 0

\* A chunk that does not fit is given up.
Feed(s) ==
    IF s.streaming
    THEN [s EXCEPT !.buffered = AtMost(@ + 1, RingCap)]
    ELSE s

\* The server has closed the stream and the ring is empty.
PlayedOut(s) == s.done_flag /\ s.buffered = 0

\* Steps 2 and 3 of tick(): the watermark, then prefill and start.
Start(s) ==
    LET go == s.started \/ s.done_flag \/ s.buffered >= Watermark
    IN  IF ~s.streaming \/ ~go
        THEN s
        ELSE [s EXCEPT !.started = TRUE, !.xfer = TRUE, !.dma = DmaCap,
                       !.buffered = @ - AtMost(@, DmaCap)]

\* Step 1 of tick(): the transfer in flight.  A transfer whose chain ran
\* dry is either the end of the reply or an underrun, restarted at once.
Tick(s) ==
    LET free == DmaCap - s.dma
    IN  IF ~s.xfer
        THEN Start(s)
        ELSE IF s.dma = 0
        THEN IF s.streaming /\ PlayedOut(s)
             THEN [Reclaim(s) EXCEPT !.started = FALSE, !.streaming = FALSE]
             ELSE Start(Reclaim(s))
        ELSE IF s.streaming /\ ~PlayedOut(s) /\ free > 0
        THEN [s EXCEPT !.dma = DmaCap, !.buffered = @ - AtMost(@, free)]
        ELSE s

\* The I2S peripheral plays one descriptor; it runs without the program.
DmaBusy(s) == s.xfer /\ s.dma > 0
DmaPlay(s) == [s EXCEPT !.dma = @ - 1]
=============================================================================
