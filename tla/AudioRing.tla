------------------------------ MODULE AudioRing ------------------------------
(***************************************************************************)
(* AudioOutput byte by byte (audio_output.rs): the ring of mono16 bytes    *)
(* with its two indices, the resampler in front of it, and the chain of    *)
(* DMA descriptors behind it.  Speaker.tla is the same object as the       *)
(* conversation sees it, in whole chunks.                                  *)
(*                                                                         *)
(* The k-th byte written to the ring in a stream is the number k, and the  *)
(* k-th sample of the ring is the pair of bytes 2k-1, 2k.  That is a       *)
(* sample of the stream, too, until a write ends inside one (split): then  *)
(* the pairs are halves of neighbours.  Rates are multiples of 8 kHz.      *)
(* Volume only scales samples on their way to the chain and is left out.   *)
(***************************************************************************)
EXTENDS Naturals, SequencesExt

CONSTANTS
    Cap,        \* length of the ring in bytes       (RING_CAP_CANDIDATES)
    ChainLen,   \* samples the descriptor chain holds     (TX_STREAM_BYTES)
    Watermark,  \* bytes that start playback         (PLAY_WATERMARK_BYTES)
    Rates,      \* input rates of audio.start
    Chunks,     \* bytes in one audio.chunk
    MaxBytes,   \* bound: ring bytes written in one stream
    MaxFails    \* bound: refused DMA starts

ASSUME RingAssumption ==
    /\ {ChainLen, MaxBytes, MaxFails} \subseteq Nat
    /\ Cap \in Nat \ {0, 1, 2, 3} /\ Cap % 2 = 0
    /\ ChainLen > 0
    /\ Watermark \in 1 .. (Cap - 2)
    /\ Rates \subseteq Nat \ {0}
    /\ Chunks \subseteq Nat \ {0}

VARIABLES
    ring, head, tail,
    streaming, started, done_flag,
    in_rate,    \* in units of 8 kHz
    r_frac,     \* position between two input samples, in 1 / SpkRate
    ins, outs,  \* history: input samples the resampler went past, its output
    fed, taken, \* history: bytes written to the ring and read from it
    split,      \* history: a write of this stream ended inside a sample
    xfer,       \* a transfer is in flight; otherwise tx and stream are held
    chain,      \* what the DMA has not played yet
    heard,      \* history: the last sample played
    fails       \* history: refused starts

ringVars == <<ring, head, tail, fed, taken, split>>
rateVars == <<in_rate, r_frac, ins, outs>>
flagVars == <<streaming, started, done_flag>>
dmaVars  == <<xfer, chain, heard, fails>>
vars == <<ringVars, rateVars, flagVars, dmaVars>>

SpkRate == 2       \* SPK_SAMPLE_RATE, 16 kHz
DefaultRate == 3   \* 24 kHz
Silence == 0
\* What two bytes that do not belong together decode to: an input of the
\* next stream, out of the range of any sample of this one.
Torn == MaxBytes + 1

AtMost(a, b) == IF a <= b THEN a ELSE b

-----------------------------------------------------------------------------
(* The ring.                                                               *)

\* Positions are counted round the ring.
Wrap(x) == x % Cap

Buffered == Wrap(head + Cap - tail)

\* Variant: one byte more, as if a full ring could be told from an empty one.
SpaceToTheBrim == IF head = tail THEN Cap ELSE Wrap(tail + Cap - head)

Space == Wrap(tail + 2 * Cap - head - 1)

\* Byte i of the ring after n more bytes were written behind head.
Written(i, n) ==
    LET k == Wrap(i + Cap - head)
    IN  IF k < n THEN fed + k + 1 ELSE ring[i]

Write(n) ==
    /\ ring' = [ i \in 0 .. Cap - 1 |-> Written(i, n) ]
    /\ head' = Wrap(head + n)
    /\ fed' = fed + n
    /\ UNCHANGED <<tail, taken>>

Sample(lo, hi) == IF lo % 2 = 1 /\ hi = lo + 1 THEN hi \div 2 ELSE Torn

Available(want) == AtMost(Buffered \div 2, want)

\* Variant: the high byte of the sample before.
FilledShifted(want) ==
    [ j \in 1 .. want |->
        IF j <= Available(want)
        THEN Sample(ring[Wrap(tail + 2 * j - 2)], ring[Wrap(tail + Cap + 2 * j - 3)])
        ELSE Silence ]

\* fill_from_ring: whole samples only, and the silence behind them.
Filled(want) ==
    [ j \in 1 .. want |->
        IF j <= Available(want)
        THEN Sample(ring[Wrap(tail + 2 * j - 2)], ring[Wrap(tail + 2 * j - 1)])
        ELSE Silence ]

\* Variant: fill_from_ring works on a copy of tail.
DrainCopy(want) == UNCHANGED <<tail, taken>>

Drain(want) ==
    /\ tail' = Wrap(tail + 2 * Available(want))
    /\ taken' = taken + 2 * Available(want)

-----------------------------------------------------------------------------
(* The resampler.                                                          *)

\* Variant: the position is cleared at every chunk.
ResampleAfresh(n, room) ==
    [ out |-> AtMost((n * SpkRate + in_rate - 1) \div in_rate, room),
      passed |-> n, frac |-> 0 ]

\* The two loops of feed() over n input samples with room for `room` output
\* samples: t runs from r_frac in steps of in_rate, an input sample is passed
\* when t reaches SpkRate.  A full ring gives up the rest of the chunk.
Resample(n, room) ==
    LET end    == n * SpkRate
        wanted == IF r_frac >= end THEN 0
                  ELSE (end - r_frac + in_rate - 1) \div in_rate
        out    == AtMost(wanted, room)
        t      == r_frac + out * in_rate
    IN  IF wanted <= room
        THEN [ out |-> out, passed |-> n, frac |-> t - end ]
        ELSE [ out |-> out, passed |-> t \div SpkRate, frac |-> t % SpkRate ]

-----------------------------------------------------------------------------
(* Operations.                                                             *)

Init ==
    /\ ring = [ i \in 0 .. Cap - 1 |-> 0 ] /\ head = 0 /\ tail = 0
    /\ fed = 0 /\ taken = 0 /\ split = FALSE
    /\ in_rate = DefaultRate /\ r_frac = 0 /\ ins = 0 /\ outs = 0
    /\ streaming = FALSE /\ started = FALSE /\ done_flag = FALSE
    /\ xfer = FALSE /\ chain = <<>> /\ heard = 0 /\ fails = 0

\* reclaim(): stop the transfer in flight; what it holds is not played.
Reclaim == xfer' = FALSE /\ chain' = <<>> /\ heard' = 0 /\ UNCHANGED fails

ClearRing ==
    /\ head' = 0 /\ tail' = 0 /\ r_frac' = 0
    /\ fed' = 0 /\ taken' = 0 /\ split' = FALSE /\ ins' = 0 /\ outs' = 0
    /\ started' = FALSE /\ done_flag' = FALSE
    /\ UNCHANGED ring

\* begin_stream: a rate out of 8 .. 48 kHz is taken for 24 kHz.
BeginStream(rate) ==
    /\ Reclaim /\ ClearRing
    /\ in_rate' = IF rate \in 1 .. 6 THEN rate ELSE DefaultRate
    /\ streaming' = TRUE

FinishStream ==
    /\ done_flag' = TRUE
    /\ UNCHANGED <<ringVars, rateVars, streaming, started, dmaVars>>

StopPlayback ==
    /\ Reclaim /\ ClearRing
    /\ streaming' = FALSE
    /\ UNCHANGED in_rate

\* feed() at the speaker's rate: bytes are copied until the ring is full.
\* As one byte of the ring stays free, the last sample may be cut in two.
FeedSame(n) ==
    LET k == AtMost(n, Space)
    IN  /\ streaming /\ in_rate = SpkRate
        /\ Write(k)
        /\ split' = (split \/ k % 2 = 1)
        /\ UNCHANGED <<rateVars, flagVars, dmaVars>>

\* feed() at any other rate: whole samples until there is no room for one.
FeedResampled(n) ==
    LET r == Resample(n \div 2, Space \div 2)
    IN  /\ streaming /\ in_rate # SpkRate
        /\ Write(2 * r.out) /\ UNCHANGED split
        /\ r_frac' = r.frac
        /\ ins' = ins + r.passed
        /\ outs' = outs + r.out
        /\ UNCHANGED <<in_rate, flagVars, dmaVars>>

Feed(n) ==
    /\ fed + 2 * n <= MaxBytes    \* at 8 kHz every sample becomes two
    /\ FeedSame(n) \/ FeedResampled(n)

-----------------------------------------------------------------------------
(* tick().                                                                 *)

PlayedOut == done_flag /\ Buffered = 0

\* Variant: a stream below the watermark waits for more.
ReadyAtWatermark == started \/ Buffered >= Watermark

Ready == started \/ done_flag \/ Buffered >= Watermark

\* Steps 2 and 3 of tick(), from `played` on: watermark, prefill, start.  The
\* prefill has left the ring whether or not the DMA takes it.
Start ==
    /\ streaming /\ Ready
    /\ started' = TRUE
    /\ Drain(ChainLen)
    /\ \/ /\ xfer' = TRUE /\ chain' = Filled(ChainLen) /\ UNCHANGED fails
       \/ /\ fails < MaxFails /\ fails' = fails + 1
          /\ xfer' = FALSE /\ chain' = <<>>
    /\ UNCHANGED <<ring, head, fed, split, rateVars, streaming, done_flag, heard>>

TickStart == ~xfer /\ Start

\* The chain ran dry: the end of the reply ...
TickEnd ==
    /\ xfer /\ chain = <<>> /\ streaming /\ PlayedOut
    /\ xfer' = FALSE
    /\ started' = FALSE /\ streaming' = FALSE
    /\ UNCHANGED <<ringVars, rateVars, done_flag, chain, heard, fails>>

\* ... or an underrun, restarted at once.
TickUnderrun ==
    /\ xfer /\ chain = <<>> /\ ~PlayedOut
    /\ Start

\* Descriptors the DMA has played are filled again, as many as the view
\* hands out at a time, until the end of the reply is under way.
TickPush ==
    /\ xfer /\ chain # <<>> /\ streaming /\ ~PlayedOut
    /\ \E k \in 1 .. ChainLen - Len(chain) :
          /\ chain' = chain \o Filled(k)
          /\ Drain(k)
    /\ UNCHANGED <<ring, head, fed, split, rateVars, flagVars, xfer, heard, fails>>

Tick == TickStart \/ TickEnd \/ TickUnderrun \/ TickPush

\* The I2S peripheral plays the next sample (external).
DmaPlay ==
    /\ xfer /\ chain # <<>>
    /\ chain' = Tail(chain)
    /\ heard' = IF Head(chain) = Silence THEN heard ELSE Head(chain)
    /\ UNCHANGED <<ringVars, rateVars, flagVars, xfer, fails>>

Next ==
    \/ \E rate \in Rates : BeginStream(rate)
    \/ FinishStream
    \/ StopPlayback
    \/ \E n \in Chunks : Feed(n)
    \/ Tick
    \/ DmaPlay

Spec == Init /\ [][Next]_vars

\* app_loop ticks on every pass; the peripheral runs by itself.
FairSpec == Spec /\ WF_vars(Tick) /\ WF_vars(DmaPlay)

-----------------------------------------------------------------------------
(* Properties.                                                             *)

\* The two indices stay in the ring, the chain within its descriptors.
TypeOK ==
    /\ ring \in [ 0 .. Cap - 1 -> Nat ]
    /\ head \in 0 .. Cap - 1 /\ tail \in 0 .. Cap - 1
    /\ fed \in Nat /\ taken \in Nat /\ ins \in Nat /\ outs \in Nat
    /\ in_rate \in Nat \ {0} /\ r_frac \in Nat
    /\ {streaming, started, done_flag, xfer, split} \subseteq BOOLEAN
    /\ chain \in Seq(Nat) /\ Len(chain) <= ChainLen
    /\ heard \in Nat /\ fails \in 0 .. MaxFails

\* The bytes written and not yet read are the ones the indices delimit, in
\* order: no write reaches a byte that is still to be played, wherever the
\* ring wraps, and a full ring is never taken for an empty one.
Window ==
    /\ TypeOK
    /\ fed = taken + Buffered
    /\ \A j \in 0 .. Buffered - 1 : ring[Wrap(tail + j)] = taken + j + 1

\* Both indices stand between two samples as long as no write has ended
\* inside one, and the reader keeps to whole pairs even then: the chain never
\* holds two bytes that were not neighbours in the ring.  (At the speaker's
\* own rate a full ring cuts a sample: Space is odd when Buffered is even.)
SamplesWhole ==
    /\ tail % 2 = 0
    /\ \A i \in 1 .. Len(chain) : chain[i] # Torn
    /\ ~split => head % 2 = 0

\* However the stream is cut into chunks, the resampler makes one output
\* sample per in_rate / SpkRate input samples it goes past, without drift.
KeepsTime == outs * in_rate = ins * SpkRate + r_frac

\* The speaker is the queue PlayQueue describes: samples are heard in order,
\* across the wraps of the ring, underruns and silence, none of them twice.
\* A sample is here a pair of bytes of the ring: after a split its halves are
\* of two samples of the stream.
Pending == { chain[i] : i \in DOMAIN chain } \ {Silence}
Passed  == IF Pending = {} THEN taken \div 2 ELSE Min(Pending) - 1
Queue == INSTANCE PlayQueue WITH
             accepted <- fed \div 2,
             passed   <- Passed,
             heard    <- heard
ImplementsQueue == Queue!Spec

\* Once the server has closed the stream it ends (or a new one begins): the
\* ring drains, silence stops being pushed and the chain runs dry; unless one
\* byte is left, half a sample that fill_from_ring does not take.  That stream
\* stays active until it is stopped or another one begins.
StreamEnds ==
    streaming /\ done_flag ~> ~(streaming /\ done_flag) \/ Buffered = 1
=============================================================================
