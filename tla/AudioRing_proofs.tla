--------------------------- MODULE AudioRing_proofs ---------------------------
(***************************************************************************)
(* Theorems about the byte-level speaker, for every ring, chain, rate and  *)
(* chunk: the indices delimit what was written and not read, samples stay  *)
(* whole, the resampler keeps time and the speaker is the queue PlayQueue. *)
(***************************************************************************)
EXTENDS AudioRing, TLAPS

-----------------------------------------------------------------------------
(* Positions in a ring.                                                    *)

\* How far head is in front of tail.
Ahead(h, t) == IF h >= t THEN h - t ELSE h + Cap - t

\* The remainder of a number that is less than three times round.
LEMMA Turn ==
    \A x \in Nat :
        /\ x < Cap => Wrap(x) = x
        /\ Cap <= x /\ x < 2 * Cap => Wrap(x) = x - Cap
        /\ 2 * Cap <= x /\ x < 3 * Cap => Wrap(x) = x - 2 * Cap
<1> TAKE x \in Nat
<1>1. Cap \in Nat \ {0}
  BY RingAssumption
<1>2. ASSUME NEW y \in 0 .. Cap - 1
      PROVE  y % Cap = y /\ (y + Cap) % Cap = y /\ (y + 2 * Cap) % Cap = y
  BY <1>1, <1>2
<1>3. ASSUME x < Cap PROVE x % Cap = x
  BY <1>1, <1>2, <1>3
<1>4. ASSUME Cap <= x, x < 2 * Cap PROVE x % Cap = x - Cap
  <2>1. x - Cap \in 0 .. Cap - 1 /\ (x - Cap) + Cap = x
    BY <1>1, <1>4
  <2> QED BY <1>2, <2>1
<1>5. ASSUME 2 * Cap <= x, x < 3 * Cap PROVE x % Cap = x - 2 * Cap
  <2>1. x - 2 * Cap \in 0 .. Cap - 1 /\ (x - 2 * Cap) + 2 * Cap = x
    BY <1>1, <1>5
  <2> QED BY <1>2, <2>1
<1> QED BY <1>3, <1>4, <1>5 DEF Wrap

\* What Buffered and Space count: together they leave one byte free.
LEMMA Counts ==
    ASSUME NEW h \in 0 .. Cap - 1, NEW t \in 0 .. Cap - 1
    PROVE  /\ Wrap(h + Cap - t) = Ahead(h, t)
           /\ Ahead(h, t) \in 0 .. Cap - 1
           /\ Wrap(t + 2 * Cap - h - 1) = Cap - 1 - Ahead(h, t)
BY RingAssumption, Turn DEF Ahead

\* An index that moves on by less than a turn, and then by some more.
LEMMA Moved ==
    ASSUME NEW h \in 0 .. Cap - 1, NEW n \in 0 .. Cap - 1
    PROVE  /\ Wrap(h + n) = IF h + n < Cap THEN h + n ELSE h + n - Cap
           /\ Wrap(h + n) \in 0 .. Cap - 1
           /\ \A m \in 0 .. Cap - 1 - n : Wrap(Wrap(h + n) + m) = Wrap(h + (n + m))
BY RingAssumption, Turn

\* Moving head on adds to what is buffered, moving tail on takes from it.
LEMMA HeadMoves ==
    ASSUME NEW h \in 0 .. Cap - 1, NEW t \in 0 .. Cap - 1, NEW n \in 0 .. Cap - 1 - Ahead(h, t)
    PROVE  Ahead(Wrap(h + n), t) = Ahead(h, t) + n
BY RingAssumption, Turn DEF Ahead

\* See HeadMoves.
LEMMA TailMoves ==
    ASSUME NEW h \in 0 .. Cap - 1, NEW t \in 0 .. Cap - 1, NEW n \in 0 .. Ahead(h, t)
    PROVE  Ahead(h, Wrap(t + n)) = Ahead(h, t) - n
BY RingAssumption, Turn DEF Ahead

\* Where the j-th byte behind tail lies as seen from head: in front of it the
\* bytes still to be read, behind it those of the next write.
LEMMA SeenFromHead ==
    ASSUME NEW h \in 0 .. Cap - 1, NEW t \in 0 .. Cap - 1, NEW j \in 0 .. Cap - 1
    PROVE  Wrap(Wrap(t + j) + Cap - h) =
               IF j < Ahead(h, t) THEN Cap - Ahead(h, t) + j ELSE j - Ahead(h, t)
<1>1. Wrap(t + j) = IF t + j < Cap THEN t + j ELSE t + j - Cap
  BY RingAssumption, Moved
<1>2. CASE t + j < Cap
  BY RingAssumption, Turn, <1>1, <1>2 DEF Ahead
<1>3. CASE t + j >= Cap
  BY RingAssumption, Turn, <1>1, <1>3 DEF Ahead
<1> QED BY <1>2, <1>3, RingAssumption

-----------------------------------------------------------------------------
(* The two halves of the ring.                                             *)

\* Window without the type invariant.
Bytes ==
    /\ fed = taken + Buffered
    /\ \A j \in 0 .. Buffered - 1 : ring[Wrap(tail + j)] = taken + j + 1

\* The types of the ring's part of the state.
RingType ==
    /\ ring \in [ 0 .. Cap - 1 -> Nat ]
    /\ head \in 0 .. Cap - 1 /\ tail \in 0 .. Cap - 1
    /\ fed \in Nat /\ taken \in Nat

\* What Space and Buffered can be.
LEMMA SpaceRange == RingType => Space \in 0 .. Cap - 1 /\ Buffered \in 0 .. Cap - 1
<1> SUFFICES ASSUME RingType PROVE Space \in 0 .. Cap - 1 /\ Buffered \in 0 .. Cap - 1
  OBVIOUS
<1>1. /\ Ahead(head, tail) \in 0 .. Cap - 1
      /\ Space = Cap - 1 - Ahead(head, tail) /\ Buffered = Ahead(head, tail)
  BY Counts DEF RingType, Space, Buffered
<1> QED BY <1>1, RingAssumption

\* A write that fits leaves every byte still to be played where it was.
LEMMA WriteKeeps ==
    ASSUME RingType, Bytes, NEW n \in 0 .. Space, Write(n)
    PROVE  RingType' /\ Bytes' /\ Buffered' = Buffered + n
<1> DEFINE A == Ahead(head, tail)
<1> HIDE DEF A
<1>0. Buffered = A /\ A \in 0 .. Cap - 1 /\ Space = Cap - 1 - A /\ Cap \in Nat
  BY Counts, RingAssumption DEF RingType, Buffered, Space, A
<1>1. /\ Buffered = A /\ A \in 0 .. Cap - 1 /\ Cap \in Nat
      /\ n \in 0 .. Cap - 1 - A /\ n \in 0 .. Cap - 1
      /\ fed \in Nat /\ taken \in Nat /\ fed = taken + A
  BY <1>0 DEF RingType, Bytes
<1>2. head' \in 0 .. Cap - 1 /\ tail' = tail /\ Ahead(head', tail') = A + n
  <2>1. head' = Wrap(head + n) /\ tail' = tail
    BY DEF Write
  <2>2. Wrap(head + n) \in 0 .. Cap - 1
    BY <1>1, Moved DEF RingType
  <2>3. Ahead(Wrap(head + n), tail) = A + n
    BY <1>1, HeadMoves DEF RingType, A
  <2> QED BY <2>1, <2>2, <2>3
<1>3. Buffered' = A + n
  BY <1>2, Counts DEF Buffered, RingType
<1>4. ring' \in [ 0 .. Cap - 1 -> Nat ]
  <2>1. ASSUME NEW i \in 0 .. Cap - 1 PROVE Written(i, n) \in Nat
    <3>1. Wrap(i + Cap - head) \in Nat
      BY Counts DEF RingType
    <3> QED BY <3>1 DEF Written, RingType
  <2> QED BY <2>1 DEF Write
<1>5. ASSUME NEW j \in 0 .. A + n - 1
      PROVE  ring'[Wrap(tail' + j)] = taken' + j + 1
  <2>1. j \in 0 .. Cap - 1
    BY <1>1
  <2>2. Wrap(tail + j) \in 0 .. Cap - 1
    BY <2>1, Moved DEF RingType
  <2>3. ring'[Wrap(tail' + j)] = Written(Wrap(tail + j), n)
    BY <1>2, <2>2 DEF Write
  <2>4. CASE j < A
    <3>1. Wrap(Wrap(tail + j) + Cap - head) = Cap - A + j
      BY <2>1, <2>4, SeenFromHead DEF RingType, A
    <3>2. ~(Cap - A + j < n)
      BY <1>1, <2>4
    <3>3. ring[Wrap(tail + j)] = taken + j + 1
      BY <1>1, <2>4 DEF Bytes
    <3> QED BY <2>3, <3>1, <3>2, <3>3 DEF Written, Write
  <2>5. CASE ~(j < A)
    <3>1. Wrap(Wrap(tail + j) + Cap - head) = j - A
      BY <2>1, <2>5, SeenFromHead DEF RingType, A
    <3>2. j - A < n /\ fed + (j - A) + 1 = taken + j + 1
      BY <1>1, <1>5, <2>5
    <3> QED BY <2>3, <3>1, <3>2 DEF Written, Write
  <2> QED BY <2>4, <2>5
<1>6. fed' = taken' + (A + n) /\ fed' \in Nat /\ taken' \in Nat
  BY <1>1 DEF Write
<1>7. RingType'
  BY <1>2, <1>4, <1>6 DEF RingType, Write
<1> QED BY <1>1, <1>3, <1>5, <1>6, <1>7 DEF Bytes

\* Reading leaves the bytes behind those read.
LEMMA DrainKeeps ==
    ASSUME RingType, Bytes, NEW want \in Nat, Drain(want), UNCHANGED <<ring, head, fed>>
    PROVE  /\ RingType' /\ Bytes'
           /\ Available(want) \in 0 .. want /\ 2 * Available(want) <= Buffered
<1> DEFINE A == Ahead(head, tail)
           n == 2 * Available(want)
<1>1. Buffered = A /\ A \in 0 .. Cap - 1 /\ Cap \in Nat
  BY Counts, RingAssumption DEF RingType, Buffered
<1>2. Available(want) \in 0 .. want /\ n \in 0 .. A
  BY <1>1 DEF Available, AtMost
<1> HIDE DEF n
<1>3. n \in 0 .. Cap - 1 /\ tail' = Wrap(tail + n) /\ taken' = taken + n
  BY <1>1, <1>2 DEF Drain, n
<1>4. tail' \in 0 .. Cap - 1 /\ head' = head /\ Ahead(head', tail') = A - n
  BY <1>2, <1>3, Moved, TailMoves DEF RingType
<1>5. Buffered' = A - n
  BY <1>4, Counts DEF Buffered, RingType
<1>6. ASSUME NEW j \in 0 .. A - n - 1
      PROVE  ring'[Wrap(tail' + j)] = taken' + j + 1
  <2>1. j \in 0 .. Cap - 1 - n /\ n + j \in 0 .. A - 1
    BY <1>1, <1>2, <1>3
  <2>2. Wrap(tail' + j) = Wrap(tail + (n + j))
    BY <2>1, <1>3, Moved DEF RingType
  <2>3. ring[Wrap(tail + (n + j))] = taken + (n + j) + 1
    BY <2>1, <1>1 DEF Bytes
  <2> QED BY <2>2, <2>3, <1>2, <1>3 DEF RingType
<1>7. fed' = taken' + (A - n) /\ taken' \in Nat
  BY <1>1, <1>2, <1>3, SMTT(30) DEF Bytes, RingType
<1>8. RingType'
  BY <1>4, <1>7 DEF RingType
<1> QED BY <1>1, <1>2, <1>5, <1>6, <1>7, <1>8 DEF Bytes, n

\* An emptied ring.
LEMMA ClearKeeps ==
    ASSUME RingType, ClearRing
    PROVE  RingType' /\ Bytes'
<1>1. head' = 0 /\ tail' = 0 /\ fed' = 0 /\ taken' = 0 /\ ring' = ring
  BY DEF ClearRing
<1>2. Cap \in Nat /\ 0 \in 0 .. Cap - 1 /\ Ahead(0, 0) = 0
  BY RingAssumption DEF Ahead
<1>3. Buffered' = 0
  BY <1>1, <1>2, Counts DEF Buffered
<1> QED BY <1>1, <1>2, <1>3 DEF RingType, Bytes
-----------------------------------------------------------------------------
(* The resampler.                                                          *)

\* A number is its quotient times the divisor and a remainder.
LEMMA Division ==
    ASSUME NEW a \in Nat, NEW d \in Nat \ {0}
    PROVE  /\ a \div d \in Nat /\ a % d \in 0 .. d - 1
           /\ a = d * (a \div d) + (a % d)
OBVIOUS

\* Rounding up: the least number of steps of d that cover a.
LEMMA RoundUp ==
    ASSUME NEW a \in Nat, NEW d \in Nat \ {0}
    PROVE  /\ (a + d - 1) \div d \in 0 .. a
           /\ a <= ((a + d - 1) \div d) * d
<1> DEFINE q == (a + d - 1) \div d
           r == (a + d - 1) % d
<1>1. q \in Nat /\ r \in 0 .. d - 1 /\ a + d - 1 = d * q + r
  <2>1. a + d - 1 \in Nat
    OBVIOUS
  <2> QED BY <2>1, Division
<1> HIDE DEF q, r
<1>2. d * q \in Nat /\ q * d = d * q /\ a <= d * q /\ d * q <= a + d - 1
  BY <1>1
<1>3. q <= a
  <2>1. ASSUME q >= a + 1 PROVE FALSE
    <3>1. d * q >= d * (a + 1)
      BY <1>1, <2>1
    <3>2. d * (a + 1) = d * a + d /\ d * a >= a
      OBVIOUS
    <3> QED BY <1>1, <1>2, <3>1, <3>2
  <2> QED BY <1>1, <2>1
<1> QED BY <1>1, <1>2, <1>3 DEF q

\* What one call of the resampler does: the output fits, takes at most two
\* samples for one, and accounts for every input sample gone past.
LEMMA ResampleKeeps ==
    ASSUME NEW n \in Nat, NEW room \in Nat, in_rate \in Nat \ {0}, r_frac \in Nat
    PROVE  LET r == Resample(n, room)
           IN  /\ r.out \in 0 .. room /\ r.out <= 2 * n
               /\ r.passed \in Nat /\ r.frac \in Nat
               /\ r.out * in_rate + r_frac = r.passed * SpkRate + r.frac
<1> DEFINE end    == n * SpkRate
           wanted == IF r_frac >= end THEN 0
                     ELSE (end - r_frac + in_rate - 1) \div in_rate
           out    == AtMost(wanted, room)
           t      == r_frac + out * in_rate
<1>1. end \in Nat /\ end = 2 * n
  BY DEF SpkRate
<1> HIDE DEF end
<1>2. wanted \in 0 .. end /\ end <= r_frac + wanted * in_rate
  <2>1. CASE r_frac >= end
    BY <1>1, <2>1
  <2>2. CASE ~(r_frac >= end)
    <3> DEFINE a == end - r_frac
    <3>1. a \in Nat /\ a + r_frac = end
      BY <1>1, <2>2
    <3> HIDE DEF a
    <3>2. (a + in_rate - 1) \div in_rate \in 0 .. a /\ a <= ((a + in_rate - 1) \div in_rate) * in_rate
      BY <3>1, RoundUp
    <3>3. wanted = (a + in_rate - 1) \div in_rate
      BY <2>2 DEF a
    <3> HIDE DEF wanted
    <3>4. wanted \in 0 .. a /\ a <= wanted * in_rate /\ wanted * in_rate \in Nat
      BY <3>2, <3>3
    <3> QED BY <1>1, <3>1, <3>4
  <2> QED BY <2>1, <2>2
<1> HIDE DEF wanted
<1>3. out \in 0 .. room /\ out <= wanted /\ (wanted <= room => out = wanted)
  BY <1>2 DEF AtMost
<1> HIDE DEF out
<1>4. t \in Nat /\ out * in_rate \in Nat
  BY <1>3
<1>5. CASE wanted <= room
  <2>1. Resample(n, room) = [ out |-> out, passed |-> n, frac |-> t - end ]
    BY <1>5 DEF Resample, wanted, end, out
  <2>2. t - end \in Nat
    BY <1>1, <1>2, <1>3, <1>4, <1>5
  <2> QED BY <1>1, <1>2, <1>3, <1>4, <2>1, <2>2 DEF SpkRate
<1>6. CASE ~(wanted <= room)
  <2>1. Resample(n, room) = [ out |-> out, passed |-> t \div SpkRate, frac |-> t % SpkRate ]
    BY <1>6 DEF Resample, wanted, end, out
  <2>2. ASSUME NEW x \in Nat
        PROVE  x \div 2 \in Nat /\ x % 2 \in Nat /\ (x \div 2) * 2 + (x % 2) = x
    OBVIOUS
  <2>3. t \div SpkRate \in Nat /\ t % SpkRate \in Nat /\ (t \div SpkRate) * SpkRate + (t % SpkRate) = t
    BY <1>4, <2>2 DEF SpkRate
  <2>4. out * in_rate + r_frac = t
    BY <1>4
  <2> QED BY <1>1, <1>2, <1>3, <2>1, <2>3, <2>4
<1> QED BY <1>5, <1>6

\* How feed() changes the ring: by a write that fits, of whole samples unless
\* it is noted as one that splits a sample.
LEMMA FeedWrites ==
    ASSUME TypeOK, NEW n \in Chunks, Feed(n)
    PROVE  \E k \in 0 .. Space :
               Write(k) /\ k <= 2 * n /\ (~split' => ~split /\ k % 2 = 0)
<1>1. n \in Nat \ {0} /\ Space \in 0 .. Cap - 1 /\ Cap \in Nat
  BY RingAssumption, SpaceRange DEF TypeOK, RingType
<1>2. CASE FeedSame(n)
  <2> DEFINE k == AtMost(n, Space)
  <2>1. k \in 0 .. Space /\ k <= n /\ (k % 2 = 1 \/ k % 2 = 0)
    BY <1>1 DEF AtMost
  <2>2. Write(k) /\ (~split' => ~split /\ ~(k % 2 = 1))
    BY <1>2 DEF FeedSame
  <2> HIDE DEF k
  <2> QED BY <1>1, <2>1, <2>2
<1>3. CASE FeedResampled(n)
  <2> DEFINE out == Resample(n \div 2, Space \div 2).out
  <2>1. /\ Space \div 2 \in Nat /\ 2 * (Space \div 2) <= Space
        /\ n \div 2 \in Nat /\ 2 * (n \div 2) <= n
    BY <1>1
  <2>2. out \in 0 .. Space \div 2 /\ out <= 2 * (n \div 2)
    BY <1>1, <2>1, ResampleKeeps DEF TypeOK
  <2>3. Write(2 * out) /\ split' = split
    BY <1>3 DEF FeedResampled
  <2> HIDE DEF out
  <2>4. 2 * out \in 0 .. Space /\ 2 * out <= 2 * n /\ (2 * out) % 2 = 0
    BY <1>1, <2>1, <2>2
  <2> QED BY <2>3, <2>4
<1> QED BY <1>2, <1>3 DEF Feed
-----------------------------------------------------------------------------
(* The chain of descriptors.                                               *)

\* The samples of a chain, without the silence between them.
Sounds(c) == { c[i] : i \in DOMAIN c } \ {Silence}

\* The chain holds the samples from p + 1 to n, in order.
Ordered(c, p, n) ==
    /\ p \in 0 .. n
    /\ Sounds(c) = (p + 1) .. n
    /\ \A i, j \in 1 .. Len(c) :
          i < j /\ c[i] # Silence /\ c[j] # Silence => c[i] < c[j]

\* n + 1 .. n + av, and the silence behind them.
Stretch(n, av, want) == [ j \in 1 .. want |-> IF j <= av THEN n + j ELSE Silence ]

\* What the refinement mapping makes of a chain.
Before(c, n) == IF Sounds(c) = {} THEN n ELSE Min(Sounds(c)) - 1

\* Passed is the p of Ordered.
LEMMA BeforeOrdered ==
    ASSUME NEW c, NEW n \in Nat, NEW p \in 0 .. n, Sounds(c) = (p + 1) .. n
    PROVE  Before(c, n) = p
<1>1. CASE p = n
  BY <1>1 DEF Before
<1>2. CASE p < n
  <2> DEFINE S == (p + 1) .. n
  <2>1. p + 1 \in S /\ (\A y \in S : p + 1 <= y) /\ S # {}
    BY <1>2
  <2>2. Min(S) \in S /\ (\A y \in S : Min(S) <= y)
    BY <2>1 DEF Min
  <2>3. Min(S) = p + 1
    BY <2>1, <2>2
  <2> HIDE DEF S
  <2>4. Before(c, n) = Min(S) - 1
    BY <2>1 DEF Before, S
  <2> QED BY <2>3, <2>4
<1> QED BY <1>1, <1>2

\* Silence in front of, or instead of, every sample changes nothing.
LEMMA OrderedEmpty ==
    ASSUME NEW n \in Nat PROVE Ordered(<<>>, n, n)
<1>1. Sounds(<<>>) = {} /\ Len(<<>>) = 0
  BY DEF Sounds
<1>2. (n + 1) .. n = {} /\ n \in 0 .. n /\ 1 .. 0 = {}
  OBVIOUS
<1> QED BY <1>1, <1>2 DEF Ordered

\* What is taken from the ring goes behind what is in the chain.
LEMMA Appended ==
    ASSUME NEW c \in Seq(Nat), NEW n \in Nat, NEW p \in 0 .. n, Ordered(c, p, n),
           NEW want \in Nat, NEW av \in 0 .. want
    PROVE  Ordered(c \o Stretch(n, av, want), p, n + av)
<1> DEFINE f == Stretch(n, av, want)
           d == c \o f
<1>1. f \in Seq(Nat) /\ Len(f) = want /\ \A j \in 1 .. want : f[j] = IF j <= av THEN n + j ELSE Silence
  BY DEF Stretch, Silence
<1> HIDE DEF f
<1>2. /\ d \in Seq(Nat) /\ Len(d) = Len(c) + want /\ Len(c) \in Nat
      /\ \A i \in 1 .. Len(c) : i \in 1 .. Len(d) /\ d[i] = c[i]
      /\ \A i \in 1 .. Len(d) : i > Len(c) => i - Len(c) \in 1 .. want /\ d[i] = f[i - Len(c)]
      /\ \A j \in 1 .. want : Len(c) + j \in 1 .. Len(d) /\ d[Len(c) + j] = f[j]
  <2>1. d \in Seq(Nat) /\ Len(d) = Len(c) + want /\ Len(c) \in Nat
    BY <1>1
  <2>2. ASSUME NEW i \in 1 .. Len(c) PROVE i \in 1 .. Len(d) /\ d[i] = c[i]
    BY <1>1, <2>1
  <2>3. ASSUME NEW j \in 1 .. want PROVE Len(c) + j \in 1 .. Len(d) /\ d[Len(c) + j] = f[j]
    BY <1>1, <2>1
  <2>4. ASSUME NEW i \in 1 .. Len(d), i > Len(c)
        PROVE  i - Len(c) \in 1 .. want /\ d[i] = f[i - Len(c)]
    <3>1. i - Len(c) \in 1 .. want /\ Len(c) + (i - Len(c)) = i
      BY <2>1, <2>4
    <3> QED BY <2>3, <3>1
  <2> QED BY <2>1, <2>2, <2>3, <2>4
<1> HIDE DEF d
<1>3. \A i \in 1 .. Len(c) : c[i] # Silence => c[i] \in (p + 1) .. n
  BY DEF Ordered, Sounds
<1>4. \A i \in 1 .. Len(d) : d[i] # Silence =>
          \/ i <= Len(c) /\ d[i] = c[i] /\ d[i] \in (p + 1) .. n
          \/ i > Len(c) /\ d[i] = n + (i - Len(c)) /\ i - Len(c) <= av
  <2> TAKE i \in 1 .. Len(d)
  <2> HAVE d[i] # Silence
  <2>1. CASE i <= Len(c)
    BY <1>2, <1>3, <2>1, SMTT(30)
  <2>2. CASE i > Len(c)
    BY <1>1, <1>2, <2>2
  <2> QED BY <1>2, <2>1, <2>2
<1>5. Sounds(d) \subseteq (p + 1) .. (n + av)
  <2> SUFFICES ASSUME NEW i \in 1 .. Len(d), d[i] # Silence PROVE d[i] \in (p + 1) .. (n + av)
    BY <1>2 DEF Sounds
  <2>1. Len(c) \in Nat /\ Len(d) = Len(c) + want
    BY <1>2
  <2>2. CASE i <= Len(c)
    <3>1. d[i] \in (p + 1) .. n
      BY <1>4, <2>1, <2>2
    <3> QED BY <3>1
  <2>3. CASE i > Len(c)
    <3>1. d[i] = n + (i - Len(c)) /\ i - Len(c) <= av
      BY <1>4, <2>1, <2>3
    <3> QED BY <2>1, <2>3, <3>1
  <2> QED BY <2>1, <2>2, <2>3
<1>6. ASSUME NEW v \in (p + 1) .. (n + av) PROVE v \in Sounds(d)
  <2>1. CASE v <= n
    <3>1. v \in Sounds(c)
      BY <2>1 DEF Ordered
    <3>2. PICK i \in 1 .. Len(c) : c[i] = v /\ v # Silence
      BY <3>1 DEF Sounds
    <3>3. i \in DOMAIN d /\ d[i] = v
      BY <1>2, <3>2, SMTT(30)
    <3> QED BY <3>2, <3>3 DEF Sounds
  <2>2. CASE v > n
    <3>1. v - n \in 1 .. want /\ v - n <= av /\ n + (v - n) = v /\ v # Silence
      BY <2>2 DEF Silence
    <3>2. PICK j \in 1 .. want : j = v - n
      BY <3>1
    <3>3. Len(c) + j \in 1 .. Len(d) /\ d[Len(c) + j] = v
      BY <1>1, <1>2, <3>1, <3>2
    <3>4. Len(c) + j \in DOMAIN d
      BY <1>2, <3>3
    <3> QED BY <3>1, <3>3, <3>4 DEF Sounds
  <2> QED BY <2>1, <2>2
<1>7. Len(c) \in Nat /\ Len(d) = Len(c) + want
  BY <1>2
<1>8. ASSUME NEW i \in 1 .. Len(d), NEW j \in 1 .. Len(d), i < j, d[i] # Silence, d[j] # Silence
      PROVE  d[i] < d[j]
  <2>1. CASE j <= Len(c)
    <3>1. i \in 1 .. Len(c) /\ j \in 1 .. Len(c)
      BY <1>8, <1>7, <2>1
    <3>2. d[i] = c[i] /\ d[j] = c[j]
      BY <1>2, <3>1
    <3> QED BY <1>8, <3>1, <3>2 DEF Ordered
  <2>2. CASE j > Len(c) /\ i <= Len(c)
    <3>1. j - Len(c) \in 1 .. want /\ ~(j <= Len(c)) /\ ~(i > Len(c))
      BY <1>7, <2>2
    <3>2. d[i] \in (p + 1) .. n /\ d[j] = n + (j - Len(c))
      BY <1>4, <1>8, <3>1
    <3> QED BY <3>1, <3>2
  <2>3. CASE i > Len(c)
    <3>1. j > Len(c)
      BY <1>2, <1>8, <2>3
    <3>2. d[i] = n + (i - Len(c)) /\ d[j] = n + (j - Len(c))
      BY <1>2, <1>4, <1>8, <2>3, <3>1, SMTT(30)
    <3> QED BY <1>2, <1>8, <3>2
  <2> QED BY <1>2, <2>1, <2>2, <2>3, SMTT(30)
<1>9. p \in 0 .. (n + av)
  OBVIOUS
<1> QED BY <1>5, <1>6, <1>8, <1>9 DEF Ordered, d, f

\* What is played is the next sample, or silence.
LEMMA Played ==
    ASSUME NEW c \in Seq(Nat), c # <<>>, NEW n \in Nat, NEW p \in 0 .. n, Ordered(c, p, n)
    PROVE  /\ Head(c) = Silence => Ordered(Tail(c), p, n)
           /\ Head(c) # Silence => Head(c) = p + 1 /\ p < n /\ Ordered(Tail(c), p + 1, n)
<1> DEFINE d == Tail(c)
<1>1. /\ d \in Seq(Nat) /\ Len(c) \in Nat \ {0} /\ Len(d) = Len(c) - 1 /\ Head(c) = c[1]
      /\ \A i \in 1 .. Len(d) : i + 1 \in 1 .. Len(c) /\ d[i] = c[i + 1]
      /\ \A i \in 1 .. Len(c) : i # 1 => i - 1 \in 1 .. Len(d) /\ d[i - 1] = c[i]
  OBVIOUS
<1> HIDE DEF d
<1>2. \A i \in 1 .. Len(c) : c[i] # Silence => c[i] \in (p + 1) .. n
  BY DEF Ordered, Sounds
<1>3. \A v \in (p + 1) .. n : v # Silence /\ \E i \in 1 .. Len(c) : c[i] = v
  <2> TAKE v \in (p + 1) .. n
  <2>1. v \in Sounds(c)
    BY DEF Ordered
  <2> QED BY <2>1 DEF Sounds
<1>4. \A i, j \in 1 .. Len(d) : i < j /\ d[i] # Silence /\ d[j] # Silence => d[i] < d[j]
  <2> TAKE i, j \in 1 .. Len(d)
  <2>1. i < j => i + 1 < j + 1
    BY <1>1
  <2> QED BY <1>1, <2>1 DEF Ordered
<1>5. ASSUME Head(c) = Silence PROVE Ordered(d, p, n)
  <2>1. Sounds(d) \subseteq (p + 1) .. n
    <3> SUFFICES ASSUME NEW i \in 1 .. Len(d), d[i] # Silence PROVE d[i] \in (p + 1) .. n
      BY <1>1, SMTT(30) DEF Sounds
    <3> QED BY <1>1, <1>2
  <2>2. ASSUME NEW v \in (p + 1) .. n PROVE v \in Sounds(d)
    <3>1. PICK i \in 1 .. Len(c) : c[i] = v /\ v # Silence
      BY <1>3
    <3>2. i # 1
      BY <1>1, <1>5, <3>1
    <3>3. i - 1 \in DOMAIN d /\ d[i - 1] = v
      BY <1>1, <3>1, <3>2, SMTT(30)
    <3> QED BY <3>1, <3>3 DEF Sounds
  <2> QED BY <1>4, <2>1, <2>2 DEF Ordered
<1>6. ASSUME Head(c) # Silence PROVE Head(c) = p + 1 /\ p < n /\ Ordered(d, p + 1, n)
  <2>1. 1 \in 1 .. Len(c) /\ c[1] # Silence /\ c[1] \in (p + 1) .. n
    BY <1>1, <1>2, <1>6
  <2>2. \A i \in 1 .. Len(c) : i # 1 /\ c[i] # Silence => c[1] < c[i]
    BY <1>1, <2>1 DEF Ordered
  <2>3. p + 1 \in (p + 1) .. n
    BY <2>1
  <2>4. c[1] = p + 1
    <3>1. PICK i \in 1 .. Len(c) : c[i] = p + 1 /\ p + 1 # Silence
      BY <1>3, <2>3
    <3> QED BY <2>1, <2>2, <3>1
  <2>5. Sounds(d) \subseteq (p + 2) .. n
    <3> SUFFICES ASSUME NEW i \in 1 .. Len(d), d[i] # Silence PROVE d[i] \in (p + 2) .. n
      BY <1>1, SMTT(30) DEF Sounds
    <3>1. c[i + 1] # Silence /\ i + 1 \in 1 .. Len(c) /\ i + 1 # 1 /\ d[i] = c[i + 1]
      BY <1>1, SMTT(30)
    <3>2. c[i + 1] \in (p + 1) .. n /\ p + 1 < c[i + 1]
      BY <1>2, <2>2, <2>4, <3>1
    <3> QED BY <3>1, <3>2, SMTT(30)
  <2>6. ASSUME NEW v \in (p + 2) .. n PROVE v \in Sounds(d)
    <3>1. PICK i \in 1 .. Len(c) : c[i] = v /\ v # Silence
      BY <1>3
    <3>2. i # 1
      BY <2>4, <3>1
    <3>3. i - 1 \in DOMAIN d /\ d[i - 1] = v
      BY <1>1, <3>1, <3>2, SMTT(30)
    <3> QED BY <3>1, <3>3 DEF Sounds
  <2>7. (p + 1) + 1 = p + 2 /\ p + 1 \in 0 .. n /\ p < n
    BY <2>3
  <2> QED BY <1>1, <1>4, <2>4, <2>5, <2>6, <2>7 DEF Ordered
<1> QED BY <1>5, <1>6 DEF d
-----------------------------------------------------------------------------
(* Window.                                                                 *)

\* The types of the rest of the state.
OtherTypes ==
    /\ ins \in Nat /\ outs \in Nat
    /\ in_rate \in Nat \ {0} /\ r_frac \in Nat
    /\ chain \in Seq(Nat) /\ Len(chain) <= ChainLen
    /\ heard \in Nat /\ fails \in 0 .. MaxFails

\* See TypeOK.
Flags == {streaming, started, done_flag, xfer, split} \subseteq BOOLEAN

\* Window, by its parts.
LEMMA WindowParts == Window <=> RingType /\ Bytes /\ OtherTypes /\ Flags
BY DEF Window, TypeOK, RingType, Bytes, OtherTypes, Flags

\* No more is read than was written.
LEMMA TakenBehind == (Window => taken <= fed) /\ (Window => taken <= fed)'
<1>1. Window => taken <= fed
  <2> SUFFICES ASSUME Window PROVE taken <= fed
    OBVIOUS
  <2>1. taken \in Nat /\ Buffered \in 0 .. Cap - 1 /\ fed = taken + Buffered /\ Cap \in Nat
    BY WindowParts, SpaceRange, RingAssumption DEF RingType, Bytes
  <2> QED BY <2>1
<1> QED BY <1>1, PTL

\* fill_from_ring makes samples of what it reads.
LEMMA FilledType ==
    ASSUME RingType, NEW want \in Nat
    PROVE  Filled(want) \in Seq(Nat) /\ Len(Filled(want)) = want
<1>1. ASSUME NEW j \in 1 .. want, j <= Available(want)
      PROVE  Sample(ring[Wrap(tail + 2 * j - 2)], ring[Wrap(tail + 2 * j - 1)]) \in Nat
  <2>1. Cap \in Nat /\ Buffered \in 0 .. Cap - 1
    BY RingAssumption, Counts DEF RingType, Buffered
  <2>2. 2 * j - 1 \in 0 .. Cap - 1
    BY <1>1, <2>1 DEF Available, AtMost
  <2>3. Wrap(tail + (2 * j - 1)) \in 0 .. Cap - 1 /\ tail + (2 * j - 1) = tail + 2 * j - 1
    BY <2>2, Moved DEF RingType
  <2>4. ring[Wrap(tail + 2 * j - 1)] \in Nat
    BY <2>3 DEF RingType
  <2>5. ASSUME NEW hi \in Nat PROVE hi \div 2 \in Nat
    OBVIOUS
  <2> QED BY <2>4, <2>5, RingAssumption DEF Sample, Torn
<1>2. Filled(want) \in [ 1 .. want -> Nat ]
  BY <1>1 DEF Filled, Silence
<1> QED BY <1>2

\* The first state.
LEMMA WindowInit == Init => Window
<1> SUFFICES ASSUME Init PROVE RingType /\ Bytes /\ OtherTypes /\ Flags
  BY WindowParts
<1>1. Cap \in Nat /\ 0 \in 0 .. Cap - 1 /\ Ahead(0, 0) = 0
  BY RingAssumption DEF Ahead
<1>2. Buffered = 0
  BY <1>1, Counts DEF Init, Buffered
<1>3. RingType /\ Bytes
  BY <1>1, <1>2 DEF Init, RingType, Bytes
<1>4. OtherTypes
  BY RingAssumption DEF Init, OtherTypes, DefaultRate
<1>5. Flags
  BY DEF Init, Flags
<1> QED BY <1>3, <1>4, <1>5

\* Both ways of restarting the stream's playback read ChainLen samples.
LEMMA StartKeeps ==
    ASSUME RingType, Bytes, OtherTypes, Flags, Start
    PROVE  RingType' /\ Bytes' /\ OtherTypes' /\ Flags'
<1>1. ChainLen \in Nat /\ MaxFails \in Nat
  BY RingAssumption
<1>2. RingType' /\ Bytes'
  BY <1>1, DrainKeeps DEF Start
<1>3. chain' \in Seq(Nat) /\ Len(chain') <= ChainLen
  BY <1>1, FilledType DEF Start
<1>4. fails' \in 0 .. MaxFails
  BY <1>1 DEF Start, OtherTypes
<1>5. OtherTypes'
  BY <1>3, <1>4 DEF Start, OtherTypes, rateVars
<1>6. Flags'
  BY DEF Start, Flags
<1> QED BY <1>2, <1>5, <1>6

\* The chain is filled up behind what it holds.
LEMMA PushKeeps ==
    ASSUME RingType, Bytes, OtherTypes, Flags, TickPush
    PROVE  RingType' /\ Bytes' /\ OtherTypes' /\ Flags'
<1>1. PICK k \in 1 .. ChainLen - Len(chain) : chain' = chain \o Filled(k) /\ Drain(k)
  BY DEF TickPush
<1>2. k \in Nat /\ k <= ChainLen - Len(chain) /\ ChainLen \in Nat /\ Len(chain) \in Nat
  BY RingAssumption DEF OtherTypes
<1>3. UNCHANGED <<ring, head, fed>> /\ UNCHANGED <<split, rateVars, flagVars, xfer, heard, fails>>
  BY DEF TickPush
<1>4. RingType' /\ Bytes'
  BY <1>1, <1>2, <1>3, DrainKeeps
<1>5. chain' \in Seq(Nat) /\ Len(chain') = Len(chain) + k
  <2>1. Filled(k) \in Seq(Nat) /\ Len(Filled(k)) = k /\ chain \in Seq(Nat)
    BY <1>2, FilledType DEF OtherTypes
  <2>2. ASSUME NEW f \in Seq(Nat) PROVE chain \o f \in Seq(Nat) /\ Len(chain \o f) = Len(chain) + Len(f)
    BY <2>1
  <2> QED BY <1>1, <2>1, <2>2
<1>6. OtherTypes'
  BY <1>2, <1>3, <1>5 DEF OtherTypes, rateVars
<1>7. Flags'
  BY <1>3 DEF Flags, flagVars
<1> QED BY <1>4, <1>6, <1>7

\* feed() writes what fits.
LEMMA FeedKeeps ==
    ASSUME Window, NEW n \in Chunks, Feed(n)
    PROVE  RingType' /\ Bytes' /\ OtherTypes' /\ Flags'
<1>1. RingType /\ Bytes /\ OtherTypes /\ Flags
  BY WindowParts
<1>2. RingType' /\ Bytes'
  BY <1>1, FeedWrites, WriteKeeps DEF Window
<1>3. CASE FeedSame(n)
  BY <1>1, <1>2, <1>3 DEF FeedSame, OtherTypes, Flags, rateVars, flagVars, dmaVars
<1>4. CASE FeedResampled(n)
  <2> DEFINE r == Resample(n \div 2, Space \div 2)
  <2>1. Space \in Nat
    BY <1>1, SpaceRange
  <2>2. Space \div 2 \in Nat /\ n \div 2 \in Nat
    BY <2>1, RingAssumption
  <2>3. r.out \in 0 .. Space \div 2 /\ r.passed \in Nat /\ r.frac \in Nat
    BY <1>1, <2>2, ResampleKeeps DEF OtherTypes
  <2> HIDE DEF r
  <2>4. r_frac' = r.frac /\ ins' = ins + r.passed /\ outs' = outs + r.out
        /\ UNCHANGED <<in_rate, flagVars, dmaVars>>
    BY <1>4 DEF FeedResampled, r
  <2>5. OtherTypes'
    BY <1>1, <2>3, <2>4, SMTT(30) DEF OtherTypes, dmaVars
  <2>6. Flags'
    BY <1>1, <1>4, <2>4 DEF FeedResampled, Flags, flagVars, dmaVars
  <2> QED BY <1>2, <2>5, <2>6
<1> QED BY <1>3, <1>4 DEF Feed

\* Every step keeps the window.
LEMMA WindowStep == Window /\ [Next]_vars => Window'
<1> SUFFICES ASSUME Window, [Next]_vars PROVE RingType' /\ Bytes' /\ OtherTypes' /\ Flags'
  BY DEF Window, TypeOK, RingType, Bytes, OtherTypes, Flags
<1>1. RingType /\ Bytes /\ OtherTypes /\ Flags /\ ChainLen \in Nat
  BY WindowParts, RingAssumption
<1>2. ASSUME UNCHANGED ringVars PROVE RingType' /\ Bytes'
  BY <1>1, <1>2 DEF RingType, Bytes, Buffered, ringVars
<1>3. CASE \E rate \in Rates : BeginStream(rate)
  <2>1. RingType' /\ Bytes'
    BY <1>1, <1>3, ClearKeeps DEF BeginStream
  <2>2. OtherTypes'
    BY <1>1, <1>3 DEF BeginStream, Reclaim, ClearRing, OtherTypes, DefaultRate
  <2>3. Flags'
    BY <1>3 DEF BeginStream, Reclaim, ClearRing, Flags
  <2> QED BY <2>1, <2>2, <2>3
<1>4. CASE FinishStream
  BY <1>1, <1>2, <1>4 DEF FinishStream, OtherTypes, Flags, ringVars, rateVars, dmaVars
<1>5. CASE StopPlayback
  <2>1. RingType' /\ Bytes'
    BY <1>1, <1>5, ClearKeeps DEF StopPlayback
  <2>2. OtherTypes'
    BY <1>1, <1>5 DEF StopPlayback, Reclaim, ClearRing, OtherTypes
  <2>3. Flags'
    BY <1>5 DEF StopPlayback, Reclaim, ClearRing, Flags
  <2> QED BY <2>1, <2>2, <2>3
<1>6. CASE \E n \in Chunks : Feed(n)
  BY <1>6, FeedKeeps
<1>7. CASE TickStart
  BY <1>1, <1>7, StartKeeps DEF TickStart
<1>8. CASE TickEnd
  <2>1. OtherTypes'
    BY <1>1, <1>8 DEF TickEnd, OtherTypes, rateVars
  <2>2. Flags'
    BY <1>1, <1>8 DEF TickEnd, Flags, ringVars
  <2> QED BY <1>2, <1>8, <2>1, <2>2 DEF TickEnd
<1>9. CASE TickUnderrun
  BY <1>1, <1>9, StartKeeps DEF TickUnderrun
<1>10. CASE TickPush
  BY <1>1, <1>10, PushKeeps
<1>11. CASE DmaPlay
  <2>1. chain' \in Seq(Nat) /\ Len(chain') <= ChainLen /\ heard' \in Nat
    BY <1>1, <1>11 DEF DmaPlay, OtherTypes
  <2>2. OtherTypes'
    BY <1>1, <1>11, <2>1 DEF DmaPlay, OtherTypes, rateVars
  <2>3. Flags'
    BY <1>1, <1>11 DEF DmaPlay, Flags, flagVars, ringVars
  <2> QED BY <1>2, <1>11, <2>2, <2>3 DEF DmaPlay
<1>12. CASE UNCHANGED vars
  BY <1>1, <1>2, <1>12 DEF vars, OtherTypes, Flags, ringVars, rateVars, flagVars, dmaVars
<1> QED
  BY <1>3, <1>4, <1>5, <1>6, <1>7, <1>8, <1>9, <1>10, <1>11, <1>12 DEF Next, Tick

\* The indices always delimit the bytes written and not yet read, in order:
\* feed() never overwrites a byte that fill_from_ring has still to read.
THEOREM WindowHolds == Spec => []Window
BY WindowInit, WindowStep, PTL DEF Spec
-----------------------------------------------------------------------------
(* KeepsTime.                                                              *)

\* A call of the resampler adds as much to one side as to the other.
LEMMA TimeStep == Window /\ KeepsTime /\ [Next]_vars => KeepsTime'
<1> SUFFICES ASSUME Window, KeepsTime, [Next]_vars PROVE KeepsTime'
  OBVIOUS
<1>1. RingType /\ OtherTypes
  BY WindowParts
<1>2. ASSUME UNCHANGED rateVars PROVE KeepsTime'
  BY <1>2 DEF KeepsTime, rateVars
<1>3. ASSUME ClearRing, in_rate' \in Nat PROVE KeepsTime'
  <2>1. ASSUME NEW x \in Nat PROVE 0 * x = 0 * SpkRate + 0
    BY DEF SpkRate
  <2> QED BY <1>3, <2>1 DEF ClearRing, KeepsTime
<1>4. CASE \E rate \in Rates : BeginStream(rate)
  <2>1. in_rate' \in Nat
    BY <1>4 DEF BeginStream, DefaultRate
  <2> QED BY <1>3, <1>4, <2>1 DEF BeginStream
<1>5. CASE StopPlayback
  BY <1>1, <1>3, <1>5 DEF StopPlayback, OtherTypes
<1>6. CASE \E n \in Chunks : Feed(n)
  <2>1. PICK n \in Chunks : Feed(n)
    BY <1>6
  <2>2. CASE FeedSame(n)
    BY <1>2, <2>2 DEF FeedSame
  <2>3. CASE FeedResampled(n)
    <3> DEFINE r == Resample(n \div 2, Space \div 2)
    <3>1. Space \div 2 \in Nat /\ n \div 2 \in Nat
      <4>1. Space \in Nat
        BY <1>1, SpaceRange
      <4> QED BY <4>1, RingAssumption
    <3>2. /\ r.out \in 0 .. Space \div 2 /\ r.passed \in Nat /\ r.frac \in Nat
          /\ r.out * in_rate + r_frac = r.passed * SpkRate + r.frac
      BY <1>1, <3>1, ResampleKeeps DEF OtherTypes
    <3> HIDE DEF r
    <3>3. r_frac' = r.frac /\ ins' = ins + r.passed /\ outs' = outs + r.out /\ in_rate' = in_rate
      BY <2>3 DEF FeedResampled, r
    <3>4. r.out \in Nat /\ outs \in Nat /\ ins \in Nat /\ in_rate \in Nat /\ r_frac \in Nat
      BY <1>1, <3>1, <3>2 DEF OtherTypes
    <3>5. PICK b \in Nat, p \in Nat, g \in Nat :
              /\ b * in_rate + r_frac = p * SpkRate + g
              /\ r_frac' = g /\ ins' = ins + p /\ outs' = outs + b
      BY <3>2, <3>3, <3>4
    <3>6. outs * in_rate = ins * SpkRate + r_frac
      BY DEF KeepsTime
    <3>7. (outs + b) * in_rate = (ins + p) * SpkRate + g
      <4>1. (outs + b) * in_rate = outs * in_rate + b * in_rate
            /\ outs * in_rate \in Nat /\ b * in_rate \in Nat
        BY <3>4
      <4> QED BY <3>4, <3>5, <3>6, <4>1 DEF SpkRate
    <3> QED BY <3>3, <3>5, <3>7 DEF KeepsTime
  <2> QED BY <2>1, <2>2, <2>3 DEF Feed
<1>7. CASE ~(\E rate \in Rates : BeginStream(rate)) /\ ~StopPlayback /\ ~(\E n \in Chunks : Feed(n))
  BY <1>2, <1>7 DEF Next, FinishStream, Tick, TickStart, TickEnd, TickUnderrun, TickPush, Start,
                    DmaPlay, vars
<1> QED BY <1>4, <1>5, <1>6, <1>7

\* The resampler makes one output sample per in_rate / SpkRate input samples,
\* whatever the chunks, however often the ring was full in the middle of one.
THEOREM TimeKept == Spec => []KeepsTime
<1>1. Init => KeepsTime
  BY DEF Init, KeepsTime, SpkRate, DefaultRate
<1> QED BY <1>1, TimeStep, WindowHolds, PTL DEF Spec

-----------------------------------------------------------------------------
(* SamplesWhole.                                                           *)

\* The reader stands on an even byte, and took an even number of them.
Even == tail % 2 = 0 /\ taken % 2 = 0

\* The writer does, too, until it splits a sample.
HeadEven == ~split => head % 2 = 0

\* The inductive invariant: the chain holds the samples from the first one
\* not yet played to the last one taken, in order and without a gap.
ChainInv ==
    /\ fed <= MaxBytes
    /\ ~xfer => chain = <<>>
    /\ Even /\ HeadEven
    /\ Ordered(chain, Passed, taken \div 2)

\* Passed is what the lemmas about chains call Before.
LEMMA PassedBefore == Passed = Before(chain, taken \div 2)
BY DEF Passed, Pending, Before, Sounds

\* It is enough to name the first sample in the chain.
LEMMA Placed ==
    ASSUME NEW c, NEW n \in Nat, NEW p, Ordered(c, p, n)
    PROVE  Before(c, n) = p
<1>1. p \in 0 .. n /\ Sounds(c) = (p + 1) .. n
  BY DEF Ordered
<1> QED BY <1>1, BeforeOrdered

\* Even positions stay even when they move on by whole samples.
LEMMA EvenMoves ==
    ASSUME NEW h \in 0 .. Cap - 1, NEW n \in 0 .. Cap - 1, h % 2 = 0, n % 2 = 0
    PROVE  Wrap(h + n) % 2 = 0
<1>1. Cap \in Nat /\ Cap % 2 = 0 /\ h \in Nat /\ n \in Nat
  BY RingAssumption
<1>2. Wrap(h + n) = IF h + n < Cap THEN h + n ELSE h + n - Cap
  BY Moved
<1>3. (h + n) % 2 = 0 /\ (h + n >= Cap => (h + n - Cap) % 2 = 0)
  BY <1>1
<1> QED BY <1>1, <1>2, <1>3

\* What fill_from_ring reads from even bytes are the next samples.
LEMMA FilledWhole ==
    ASSUME RingType, Bytes, Even, NEW want \in Nat
    PROVE  Filled(want) = Stretch(taken \div 2, Available(want), want)
<1> SUFFICES ASSUME NEW j \in 1 .. want, j <= Available(want)
             PROVE  Sample(ring[Wrap(tail + 2 * j - 2)], ring[Wrap(tail + 2 * j - 1)])
                        = taken \div 2 + j
  BY DEF Filled, Stretch
<1>1. Buffered \in Nat
  BY RingAssumption, SpaceRange
<1>2. 2 * j - 1 \in 0 .. Buffered - 1 /\ 2 * j - 2 \in 0 .. Buffered - 1
  BY <1>1 DEF Available, AtMost
<1>3. tail + (2 * j - 2) = tail + 2 * j - 2 /\ tail + (2 * j - 1) = tail + 2 * j - 1
  BY DEF RingType
<1>4. /\ ring[Wrap(tail + 2 * j - 2)] = taken + (2 * j - 2) + 1
      /\ ring[Wrap(tail + 2 * j - 1)] = taken + (2 * j - 1) + 1
  BY <1>2, <1>3 DEF Bytes
<1>5. PICK h \in Nat : taken = 2 * h /\ taken \div 2 = h
  BY DEF Even, RingType
<1>6. /\ (taken + (2 * j - 2) + 1) % 2 = 1
      /\ taken + (2 * j - 1) + 1 = (taken + (2 * j - 2) + 1) + 1
      /\ (taken + (2 * j - 1) + 1) \div 2 = h + j
  BY <1>5
<1> QED BY <1>4, <1>5, <1>6 DEF Sample
\* Reading whole samples from even bytes.
LEMMA DrainEven ==
    ASSUME RingType, Bytes, Even, NEW want \in Nat, Drain(want), head' = head
    PROVE  /\ Even' /\ Available(want) \in 0 .. want
           /\ taken' \in Nat /\ taken' \div 2 = taken \div 2 + Available(want)
<1> DEFINE a == Available(want)
<1>1. Cap \in Nat /\ Buffered \in 0 .. Cap - 1
  BY RingAssumption, SpaceRange
<1>2. a \in Nat /\ a <= want /\ 2 * a \in 0 .. Cap - 1
  BY <1>1 DEF Available, AtMost
<1> HIDE DEF a
<1>3. taken' = taken + 2 * a /\ tail' = Wrap(tail + 2 * a)
  BY DEF Drain, a
<1>4. (2 * a) % 2 = 0
  BY <1>2
<1>5. tail' % 2 = 0
  BY <1>2, <1>3, <1>4, EvenMoves DEF RingType, Even
<1>6. taken' \in Nat /\ taken' % 2 = 0 /\ taken' \div 2 = taken \div 2 + a
  BY <1>2, <1>3 DEF RingType, Even
<1>7. Even'
  BY <1>5, <1>6 DEF Even
<1>8. a \in 0 .. want
  BY <1>2
<1> QED BY <1>6, <1>7, <1>8 DEF a

\* Starting the DMA: the samples taken go to the chain, or are given up.
LEMMA StartMoves ==
    ASSUME Window, ChainInv, chain = <<>>, Start
    PROVE  /\ Even' /\ Ordered(chain', Passed', taken' \div 2)
           /\ Passed' \in Passed .. (taken' \div 2)
<1> DEFINE n == taken \div 2
           a == Available(ChainLen)
<1>1. RingType /\ Bytes /\ Even /\ ChainLen \in Nat /\ Drain(ChainLen) /\ head' = head
  BY WindowParts, RingAssumption DEF ChainInv, Start
<1>2. Even' /\ a \in 0 .. ChainLen /\ taken' \div 2 = n + a
  BY <1>1, DrainEven
<1>3. n \in Nat /\ n + a \in Nat
  BY <1>1, <1>2 DEF RingType
<1>4. Filled(ChainLen) = Stretch(n, a, ChainLen)
  BY <1>1, FilledWhole
<1> HIDE DEF n, a
<1>5. Ordered(<<>>, n, n) /\ Ordered(<<>>, n + a, n + a)
  BY <1>3, OrderedEmpty
<1>6. Passed = n
  BY <1>3, <1>5, Placed, PassedBefore DEF n
<1>7. Passed' = Before(chain', n + a)
  BY <1>2 DEF Passed, Pending, Before, Sounds
<1>8. CASE chain' = Filled(ChainLen)
  <2>1. <<>> \o Stretch(n, a, ChainLen) = Stretch(n, a, ChainLen)
    BY <1>1 DEF Stretch
  <2>2. <<>> \in Seq(Nat) /\ n \in 0 .. n
    BY <1>3
  <2>3. Ordered(<<>> \o Stretch(n, a, ChainLen), n, n + a)
    BY <1>1, <1>2, <1>3, <1>5, <2>2, Appended
  <2>4. Ordered(chain', n, n + a)
    BY <1>4, <1>8, <2>1, <2>3
  <2>5. Passed' = n
    BY <1>3, <1>7, <2>4, Placed
  <2> QED BY <1>2, <1>3, <1>6, <2>4, <2>5
<1>9. CASE chain' = <<>>
  <2>1. Passed' = n + a
    BY <1>3, <1>5, <1>7, <1>9, Placed
  <2> QED BY <1>2, <1>3, <1>5, <1>6, <1>9, <2>1
<1> QED BY <1>8, <1>9 DEF Start

\* Filling up the chain passes over nothing.
LEMMA PushMoves ==
    ASSUME Window, ChainInv, TickPush
    PROVE  /\ Even' /\ Ordered(chain', Passed', taken' \div 2)
           /\ Passed' = Passed
<1> DEFINE n == taken \div 2
<1>1. PICK k \in 1 .. ChainLen - Len(chain) : chain' = chain \o Filled(k) /\ Drain(k)
  BY DEF TickPush
<1> DEFINE a == Available(k)
<1>2. RingType /\ Bytes /\ Even /\ head' = head /\ k \in Nat /\ chain \in Seq(Nat)
  BY WindowParts, RingAssumption DEF ChainInv, OtherTypes, TickPush
<1>3. Even' /\ a \in 0 .. k /\ taken' \div 2 = n + a
  BY <1>1, <1>2, DrainEven
<1>4. n \in Nat /\ n + a \in Nat
  BY <1>2, <1>3 DEF RingType
<1>5. Filled(k) = Stretch(n, a, k)
  BY <1>2, FilledWhole
<1>6. Ordered(chain, Passed, n) /\ Passed \in 0 .. n
  BY DEF ChainInv, Ordered
<1> HIDE DEF n, a
<1>7. Ordered(chain', Passed, n + a)
  BY <1>1, <1>2, <1>3, <1>4, <1>5, <1>6, Appended
<1>8. Passed' = Before(chain', n + a)
  BY <1>3 DEF Passed, Pending, Before, Sounds
<1>9. Passed' = Passed
  BY <1>4, <1>7, <1>8, Placed
<1> QED BY <1>3, <1>7, <1>9

\* The DMA plays the next sample, or silence.
LEMMA PlayMoves ==
    ASSUME Window, ChainInv, DmaPlay
    PROVE  /\ Ordered(chain', Passed', taken' \div 2)
           /\ \/ Passed' = Passed /\ heard' = heard
              \/ Passed < taken \div 2 /\ Passed' = Passed + 1 /\ heard' = Passed'
<1> DEFINE n == taken \div 2
<1>1. chain \in Seq(Nat) /\ chain # <<>> /\ n \in Nat /\ taken' = taken
  <2>1. chain \in Seq(Nat) /\ chain # <<>> /\ taken \in Nat /\ taken' = taken
    BY WindowParts DEF OtherTypes, RingType, DmaPlay, ringVars
  <2> QED BY <2>1
<1>2. Ordered(chain, Passed, n) /\ Passed \in 0 .. n
  BY DEF ChainInv, Ordered
<1>3. Passed' = Before(chain', n)
  BY <1>1 DEF Passed, Pending, Before, Sounds
<1> HIDE DEF n
<1>4. CASE Head(chain) = Silence
  <2>1. Ordered(chain', Passed, n) /\ heard' = heard
    BY <1>1, <1>2, <1>4, Played DEF DmaPlay
  <2>2. Passed' = Passed
    BY <1>1, <1>3, <2>1, Placed
  <2> QED BY <1>1, <2>1, <2>2 DEF n
<1>5. CASE Head(chain) # Silence
  <2>1. Head(chain) = Passed + 1 /\ Passed < n /\ Ordered(chain', Passed + 1, n)
        /\ heard' = Head(chain)
    BY <1>1, <1>2, <1>5, Played DEF DmaPlay
  <2>2. Passed' = Passed + 1
    BY <1>1, <1>3, <2>1, Placed
  <2> QED BY <1>1, <2>1, <2>2 DEF n
<1> QED BY <1>4, <1>5
\* Nothing is left of a stream that is stopped.
LEMMA ResetMoves ==
    ASSUME Reclaim, ClearRing
    PROVE  /\ chain' = <<>> /\ xfer' = FALSE /\ fed' = 0 /\ taken' = 0 /\ heard' = 0
           /\ Even' /\ HeadEven' /\ Ordered(chain', Passed', taken' \div 2) /\ Passed' = 0
<1>1. chain' = <<>> /\ xfer' = FALSE /\ heard' = 0 /\ fed' = 0 /\ taken' = 0 /\ head' = 0 /\ tail' = 0
  BY DEF Reclaim, ClearRing
<1>2. 0 % 2 = 0 /\ 0 \div 2 = 0 /\ 0 \in Nat
  OBVIOUS
<1>3. Ordered(chain', 0, taken' \div 2)
  BY <1>1, <1>2, OrderedEmpty
<1>4. Passed' = Before(chain', taken' \div 2)
  BY DEF Passed, Pending, Before, Sounds
<1>5. Passed' = 0
  BY <1>1, <1>2, <1>3, <1>4, Placed
<1> QED BY <1>1, <1>2, <1>3, <1>5 DEF Even, HeadEven

\* What is fed goes in behind the rest.
LEMMA FeedMoves ==
    ASSUME Window, ChainInv, NEW n \in Chunks, Feed(n)
    PROVE  /\ fed' \in Nat /\ fed' >= fed /\ fed' <= MaxBytes
           /\ UNCHANGED <<chain, taken, heard, xfer>>
           /\ Even' /\ HeadEven'
<1>1. PICK k \in 0 .. Space :
             Write(k) /\ k <= 2 * n /\ (~split' => ~split /\ k % 2 = 0)
  BY FeedWrites DEF Window
<1>2. RingType /\ Space \in 0 .. Cap - 1 /\ Cap \in Nat /\ n \in Nat /\ MaxBytes \in Nat
  BY WindowParts, SpaceRange, RingAssumption
<1>3. k \in Nat /\ k \in 0 .. Cap - 1 /\ fed \in Nat
  BY <1>2 DEF RingType
<1>4. fed' = fed + k /\ tail' = tail /\ taken' = taken /\ head' = Wrap(head + k)
  BY <1>1 DEF Write
<1>5. fed + 2 * n <= MaxBytes
  BY DEF Feed
<1>6. fed' \in Nat /\ fed' >= fed /\ fed' <= MaxBytes
  BY <1>1, <1>2, <1>3, <1>4, <1>5
<1>7. UNCHANGED <<chain, heard, xfer>>
  BY DEF Feed, FeedSame, FeedResampled, dmaVars
<1>8. Even'
  BY <1>4 DEF ChainInv, Even
<1>9. ASSUME ~split' PROVE head' % 2 = 0
  <2>1. head % 2 = 0 /\ head \in 0 .. Cap - 1 /\ k % 2 = 0
    BY <1>1, <1>2, <1>9 DEF ChainInv, HeadEven, RingType
  <2> QED BY <1>3, <1>4, <2>1, EvenMoves
<1> QED BY <1>4, <1>6, <1>7, <1>8, <1>9 DEF HeadEven

\* The first state.
LEMMA ChainInit == Init => ChainInv /\ Passed = 0
<1> SUFFICES ASSUME Init PROVE ChainInv /\ Passed = 0
  OBVIOUS
<1>1. chain = <<>> /\ taken = 0 /\ head = 0 /\ tail = 0 /\ fed = 0 /\ MaxBytes \in Nat
  BY RingAssumption DEF Init
<1>2. 0 % 2 = 0 /\ 0 \div 2 = 0 /\ 0 \in Nat
  OBVIOUS
<1>3. Ordered(chain, 0, taken \div 2)
  BY <1>1, <1>2, OrderedEmpty
<1>4. Passed = 0
  BY <1>1, <1>2, <1>3, PassedBefore, Placed
<1> QED BY <1>1, <1>2, <1>3, <1>4 DEF ChainInv, Even, HeadEven

\* Every step keeps the chain in order.
LEMMA ChainStep == Window /\ ChainInv /\ [Next]_vars => ChainInv'
<1> SUFFICES ASSUME Window, ChainInv, [Next]_vars PROVE ChainInv'
  OBVIOUS
<1>1. ASSUME UNCHANGED <<chain, taken>>
      PROVE  /\ Passed' = Passed
             /\ Ordered(chain, Passed, taken \div 2) => Ordered(chain', Passed', taken' \div 2)
  BY <1>1 DEF Passed, Pending
<1>2. ASSUME Reclaim, ClearRing PROVE ChainInv'
  BY <1>2, ResetMoves, RingAssumption DEF ChainInv
<1>3. CASE \E rate \in Rates : BeginStream(rate)
  BY <1>2, <1>3 DEF BeginStream
<1>4. CASE StopPlayback
  BY <1>2, <1>4 DEF StopPlayback
<1>5. CASE \E n \in Chunks : Feed(n)
  BY <1>1, <1>5, FeedMoves DEF ChainInv
<1>6. ASSUME Start, chain = <<>>, fed' = fed, xfer' \/ chain' = <<>> PROVE ChainInv'
  BY <1>6, StartMoves DEF ChainInv, Start, HeadEven
<1>7. CASE TickStart
  BY <1>6, <1>7 DEF TickStart, ChainInv, Start
<1>8. CASE TickUnderrun
  BY <1>6, <1>8 DEF TickUnderrun, Start
<1>9. CASE TickPush
  BY <1>9, PushMoves DEF TickPush, ChainInv, HeadEven
<1>10. CASE DmaPlay
  BY <1>10, PlayMoves DEF DmaPlay, ChainInv, Even, HeadEven, ringVars
<1>11. CASE FinishStream \/ TickEnd \/ UNCHANGED vars
  <2>1. UNCHANGED <<chain, taken, head, tail, fed, split>> /\ (xfer' = xfer \/ chain = <<>>)
    BY <1>11 DEF FinishStream, TickEnd, vars, ringVars, dmaVars
  <2> QED BY <1>1, <2>1 DEF ChainInv, Even, HeadEven
<1> QED
  BY <1>3, <1>4, <1>5, <1>7, <1>8, <1>9, <1>10, <1>11 DEF Next, Tick

\* ChainInv is an invariant.
LEMMA ChainHolds == Spec => []ChainInv
BY ChainInit, ChainStep, WindowHolds, PTL DEF Spec

\* Whatever the ring holds, the chain only ever gets pairs of bytes that were
\* neighbours in it, and the reader stands between two samples; so does the
\* writer until a full ring cuts a chunk at the speaker's own rate.
THEOREM SamplesStayWhole == Spec => []SamplesWhole
<1>1. Window /\ ChainInv => SamplesWhole
  <2> SUFFICES ASSUME Window, ChainInv, NEW i \in 1 .. Len(chain)
               PROVE  chain[i] # Torn
    BY DEF SamplesWhole, ChainInv, Even, HeadEven
  <2>1. taken \in Nat /\ fed \in Nat /\ fed = taken + Buffered /\ fed <= MaxBytes
        /\ MaxBytes \in Nat /\ Buffered \in Nat
    BY WindowParts, SpaceRange, RingAssumption, SMTT(30) DEF RingType, Bytes, ChainInv
  <2>2. taken \div 2 <= MaxBytes /\ taken \div 2 \in Nat
    BY <2>1
  <2>3. chain[i] = Silence \/ chain[i] \in (Passed + 1) .. (taken \div 2)
    BY WindowParts, SMTT(30) DEF ChainInv, Ordered, Sounds, OtherTypes
  <2> QED BY <2>1, <2>2, <2>3 DEF Torn, Silence, ChainInv, Ordered
<1> QED BY <1>1, WindowHolds, ChainHolds, PTL

-----------------------------------------------------------------------------
(* The refinement.                                                         *)

\* Halving keeps the order.
LEMMA Halves ==
    ASSUME NEW a \in Nat, NEW b \in Nat, a <= b
    PROVE  a \div 2 \in Nat /\ b \div 2 \in Nat /\ a \div 2 <= b \div 2
OBVIOUS

\* Every step of the ring and the chain is one of the queue's.
LEMMA QueueStep ==
    Window /\ ChainInv /\ Window' /\ [Next]_vars
        => [ Queue!Accept \/ Queue!Hear \/ Queue!GiveUp \/ Queue!NewStream ]_<<fed \div 2, Passed, heard>>
<1> SUFFICES ASSUME Window, ChainInv, Window', [Next]_vars
             PROVE  \/ Queue!Accept \/ Queue!Hear \/ Queue!GiveUp \/ Queue!NewStream
                    \/ UNCHANGED <<fed \div 2, Passed, heard>>
  OBVIOUS
<1>1. ASSUME UNCHANGED <<chain, taken>> PROVE Passed' = Passed
  BY <1>1 DEF Passed, Pending
<1>2. ASSUME Reclaim, ClearRing PROVE Queue!NewStream
  <2>1. fed' \div 2 = 0
    BY <1>2, ResetMoves
  <2> QED BY <1>2, <2>1, ResetMoves DEF Queue!NewStream
<1>3. CASE \E rate \in Rates : BeginStream(rate)
  BY <1>2, <1>3 DEF BeginStream
<1>4. CASE StopPlayback
  BY <1>2, <1>4 DEF StopPlayback
<1>5. CASE \E n \in Chunks : Feed(n)
  <2>1. fed \in Nat /\ fed' \in Nat /\ fed' >= fed /\ UNCHANGED <<chain, taken, heard>>
    BY <1>5, FeedMoves, WindowParts DEF RingType
  <2>2. fed' \div 2 >= fed \div 2
    BY <2>1, Halves
  <2> QED BY <1>1, <2>1, <2>2 DEF Queue!Accept
<1>6. ASSUME Start, chain = <<>> PROVE Queue!GiveUp
  <2>1. Passed' \in Passed .. (taken' \div 2) /\ Passed \in 0 .. (taken \div 2)
    BY <1>6, StartMoves DEF ChainInv, Ordered
  <2>2. UNCHANGED <<fed, heard>>
    BY <1>6 DEF Start
  <2>3. taken' \in Nat /\ fed' \in Nat /\ taken' <= fed' /\ taken \in Nat
    BY TakenBehind, WindowParts DEF Window, TypeOK
  <2>4. /\ taken' \div 2 \in Nat /\ fed' \div 2 \in Nat /\ taken' \div 2 <= fed' \div 2
        /\ taken \div 2 \in Nat
    <3>1. taken' \div 2 \in Nat /\ fed' \div 2 \in Nat /\ taken' \div 2 <= fed' \div 2
      BY <2>3, Halves
    <3>2. ASSUME NEW a \in Nat PROVE a \div 2 \in Nat
      OBVIOUS
    <3> QED BY <2>3, <3>1, <3>2
  <2>5. Passed' \in Passed .. (fed \div 2)
    BY <2>1, <2>2, <2>4
  <2> QED BY <2>2, <2>5 DEF Queue!GiveUp
<1>7. CASE TickStart
  BY <1>6, <1>7 DEF TickStart, ChainInv
<1>8. CASE TickUnderrun
  BY <1>6, <1>8 DEF TickUnderrun
<1>9. CASE TickPush
  <2>1. Passed' = Passed
    BY <1>9, PushMoves
  <2> QED BY <1>9, <2>1 DEF TickPush
<1>10. CASE DmaPlay
  <2>1. UNCHANGED fed
    BY <1>10 DEF DmaPlay, ringVars
  <2>2. CASE Passed' = Passed /\ heard' = heard
    BY <2>1, <2>2
  <2>3. CASE Passed < taken \div 2 /\ Passed' = Passed + 1 /\ heard' = Passed'
    <3>1. taken \in Nat /\ fed \in Nat /\ taken <= fed
      BY TakenBehind, WindowParts DEF RingType
    <3>2. taken \div 2 \in Nat /\ fed \div 2 \in Nat /\ taken \div 2 <= fed \div 2
      BY <3>1, Halves
    <3>3. Passed \in 0 .. (taken \div 2)
      BY DEF ChainInv, Ordered
    <3>4. Passed < fed \div 2
      BY <2>3, <3>2, <3>3
    <3> QED BY <2>1, <2>3, <3>4 DEF Queue!Hear
  <2> QED BY <1>10, <2>2, <2>3, PlayMoves
<1>11. CASE FinishStream \/ TickEnd \/ UNCHANGED vars
  <2>1. UNCHANGED <<chain, taken, fed, heard>>
    BY <1>11 DEF FinishStream, TickEnd, vars, ringVars, dmaVars
  <2> QED BY <1>1, <2>1
<1> QED
  BY <1>3, <1>4, <1>5, <1>7, <1>8, <1>9, <1>10, <1>11 DEF Next, Tick

\* The speaker is the queue PlayQueue describes, for the pairs of bytes of the
\* ring: they are heard in order, none twice, however full the ring was.
THEOREM QueueImplemented == Spec => ImplementsQueue
<1>1. Init => Queue!Init
  <2>1. 0 \div 2 = 0
    OBVIOUS
  <2> QED BY <2>1, ChainInit DEF Init, Queue!Init
<1> QED BY <1>1, QueueStep, WindowHolds, ChainHolds, PTL DEF Spec, ImplementsQueue, Queue!Spec
=============================================================================
