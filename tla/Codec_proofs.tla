---------------------------- MODULE Codec_proofs ----------------------------
(***************************************************************************)
(* What the device reads is what was meant, for texts and samples of any   *)
(* length.                                                                 *)
(***************************************************************************)
EXTENDS Codec, StreamLemmas

-----------------------------------------------------------------------------
(* Base64.                                                                 *)

Octet == 0 .. 255

\* The state of the decoder between two characters, and one character more.
\* What the accumulator is reduced by.
Wide == 16384
Accumulator == 0 .. 16383
Spare == {0, 2, 4, 6}
Decoding == [ acc : Accumulator, bits : Spare, out : Seq(Octet) ]
Fresh == [ acc |-> 0, bits |-> 0, out |-> <<>> ]
Take(st, c) ==
    IF val(c) = -1 THEN st
    ELSE LET acc == (st.acc * 64 + val(c)) % 2 ^ 14
         IN IF st.bits + 6 >= 8
            THEN [ acc |-> acc, bits |-> st.bits - 2,
                   out |-> Append(st.out, (acc \div 2 ^ (st.bits - 2)) % 256) ]
            ELSE [ st EXCEPT !.acc = acc, !.bits = @ + 6 ]

\* The values the decoder goes through.
Takes(g, input) ==
    /\ g[0] = Fresh
    /\ \A i \in 1 .. Len(input) : g[i] = Take(g[i - 1], input[i])

\* Decoding ends in a state.
Decode(input) == FoldLeft(Take, Fresh, input)

\* The value of a character.
LEMMA ValRange ==
    ASSUME NEW c \in Octet PROVE val(c) \in -1 .. 63
BY DEF val, Octet

\* A state and what is put into it.
State(acc, bits, out) == [ acc |-> acc, bits |-> bits, out |-> out ]

\* See Decoding.
LEMMA StateIs ==
    ASSUME NEW st \in Decoding
    PROVE  /\ st.acc \in Accumulator /\ st.acc \in Nat /\ st.bits \in Spare /\ st.bits \in Nat
           /\ st.out \in Seq(Octet) /\ st = State(st.acc, st.bits, st.out)
<1>1. st.acc \in Accumulator /\ st.bits \in Spare /\ st.out \in Seq(Octet)
  BY DEF Decoding
<1>2. st = State(st.acc, st.bits, st.out)
  BY DEF Decoding, State
<1>3. \A a \in Accumulator : a \in Nat
  BY DEF Accumulator
<1>4. \A a \in Spare : a \in Nat
  BY DEF Spare
<1> QED BY <1>1, <1>2, <1>3, <1>4

\* The state at the start.
LEMMA FreshIs == Fresh \in Decoding /\ Fresh.acc = 0 /\ Fresh.bits = 0 /\ Fresh.out = <<>>
<1>1. 0 \in Accumulator /\ 0 \in Spare /\ <<>> \in Seq(Octet)
  BY DEF Accumulator, Spare
<1> QED BY <1>1 DEF Fresh, Decoding

\* A character more, without powers: the accumulator, and of it the bits a
\* byte is read at.
Taken(st, v, new) ==
    LET acc == (st.acc * 64 + v) % Wide
    IN /\ st.bits = 0 => new = State(acc, 6, st.out)
       /\ st.bits = 2 => new = State(acc, 0, Append(st.out, acc % 256))
       /\ st.bits = 4 => new = State(acc, 2, Append(st.out, (acc \div 4) % 256))
       /\ st.bits = 6 => new = State(acc, 4, Append(st.out, (acc \div 16) % 256))

\* See Taken.
LEMMA TakeIs ==
    ASSUME NEW st \in Decoding, NEW v \in 0 .. 63, NEW c, val(c) = v
    PROVE  Taken(st, v, Take(st, c))
<1> USE DEF Taken
<1>1. 2 ^ 14 = Wide /\ 2 ^ 0 = 1 /\ 2 ^ 2 = 4 /\ 2 ^ 4 = 16
  BY DEF Wide
<1>2. v # -1 /\ v \in Nat
  OBVIOUS
<1>3. st.acc \in Nat /\ st.bits \in Spare /\ st = State(st.acc, st.bits, st.out)
  BY StateIs
<1> DEFINE w == 2 ^ 14
           acc == (st.acc * 64 + v) % w
<1>4. acc \in Nat
  BY <1>1, <1>2, <1>3
<1>5. Take(st, c) = IF st.bits + 6 >= 8
                    THEN State(acc, st.bits - 2, Append(st.out, (acc \div 2 ^ (st.bits - 2)) % 256))
                    ELSE [ st EXCEPT !.acc = acc, !.bits = @ + 6 ]
  BY <1>2, Zenon DEF Take, State
<1>6. acc = (st.acc * 64 + v) % Wide
  BY <1>1
<1> HIDE DEF acc
<1>7. CASE st.bits = 0
  <2>1. ~(st.bits + 6 >= 8) /\ st.bits + 6 = 6
    BY <1>7
  <2>2. Take(st, c) = [ st EXCEPT !.acc = acc, !.bits = st.bits + 6 ]
    BY <1>5, <2>1, Zenon
  <2>3. Take(st, c) = State(acc, 6, st.out)
    <3>1. ASSUME NEW a, NEW b, NEW o, NEW d
          PROVE  [ [ acc |-> a, bits |-> b, out |-> o ] EXCEPT !.acc = d, !.bits = 6 ]
                     = [ acc |-> d, bits |-> 6, out |-> o ]
      <4>1. PICK x, y : x = [ [ acc |-> a, bits |-> b, out |-> o ] EXCEPT !.acc = d ]
                        /\ y = [ acc |-> d, bits |-> b, out |-> o ]
        OBVIOUS
      <4>2. PICK u, z : u = [ y EXCEPT !.bits = 6 ] /\ z = [ acc |-> d, bits |-> 6, out |-> o ]
        OBVIOUS
      <4>3. x = y
        BY <4>1
      <4>4. u = z
        BY <4>1, <4>2
      <4> QED BY <4>1, <4>2, <4>3, <4>4, Zenon
    <3>2. Take(st, c) = [ st EXCEPT !.acc = acc, !.bits = 6 ]
      BY <2>1, <2>2
    <3>3. st = [ acc |-> st.acc, bits |-> st.bits, out |-> st.out ]
      BY <1>3, Zenon DEF State
    <3> QED BY <3>1, <3>2, <3>3, Zenon DEF State
  <2> QED BY <1>6, <1>7, <2>3
<1>8. CASE st.bits = 2
  <2>1. st.bits + 6 >= 8 /\ st.bits - 2 = 0 /\ acc \div 1 = acc
    BY <1>4, <1>8
  <2> QED BY <1>1, <1>5, <1>6, <1>8, <2>1
<1>9. CASE st.bits = 4
  <2>1. st.bits + 6 >= 8 /\ st.bits - 2 = 2
    BY <1>9
  <2> QED BY <1>1, <1>5, <1>6, <1>9, <2>1
<1>10. CASE st.bits = 6
  <2>1. st.bits + 6 >= 8 /\ st.bits - 2 = 4
    BY <1>10
  <2> QED BY <1>1, <1>5, <1>6, <1>10, <2>1
<1>11. st.bits = 0 \/ st.bits = 2 \/ st.bits = 4 \/ st.bits = 6
  BY <1>3 DEF Spare
<1> QED BY <1>7, <1>8, <1>9, <1>10, <1>11, Zenon

\* The decoder's state keeps its type.
LEMMA TakeTyped ==
    ASSUME NEW st \in Decoding, NEW c \in Octet PROVE Take(st, c) \in Decoding
<1>1. CASE val(c) = -1
  BY <1>1 DEF Take
<1>2. CASE val(c) # -1
  <2> DEFINE acc == (st.acc * 64 + val(c)) % Wide
  <2>1. val(c) \in 0 .. 63
    BY <1>2, ValRange
  <2>2. st.acc \in Nat /\ st.bits \in Spare /\ st.out \in Seq(Octet)
    BY StateIs
  <2>3. acc \in Accumulator
    <3>1. \A n \in Nat : n % Wide \in Accumulator
      BY DEF Accumulator, Wide
    <3>2. \A a \in Nat, v \in 0 .. 63 : a * 64 + v \in Nat
      OBVIOUS
    <3>3. st.acc * 64 + val(c) \in Nat
      BY <2>1, <2>2, <3>2
    <3> QED BY <3>1, <3>3
  <2>4. /\ st.bits = 0 => Take(st, c) = State(acc, 6, st.out)
        /\ st.bits = 2 => Take(st, c) = State(acc, 0, Append(st.out, acc % 256))
        /\ st.bits = 4 => Take(st, c) = State(acc, 2, Append(st.out, (acc \div 4) % 256))
        /\ st.bits = 6 => Take(st, c) = State(acc, 4, Append(st.out, (acc \div 16) % 256))
    BY <2>1, TakeIs DEF Taken
  <2> HIDE DEF acc
  <2>5. acc % 256 \in Octet /\ (acc \div 4) % 256 \in Octet /\ (acc \div 16) % 256 \in Octet
    <3>1. \A a \in Nat : a % 256 \in Octet
      BY DEF Octet
    <3>2. \A a \in Nat : a \div 4 \in Nat
      OBVIOUS
    <3>3. \A a \in Nat : a \div 16 \in Nat
      OBVIOUS
    <3>4. acc \in Nat
      BY <2>3 DEF Accumulator
    <3> QED BY <3>1, <3>2, <3>3, <3>4
  <2>6. ASSUME NEW x \in Octet PROVE Append(st.out, x) \in Seq(Octet)
    BY <2>2
  <2>7. ASSUME NEW bits \in Spare, NEW out \in Seq(Octet) PROVE State(acc, bits, out) \in Decoding
    BY <2>3 DEF State, Decoding
  <2>8. 0 \in Spare /\ 2 \in Spare /\ 4 \in Spare /\ 6 \in Spare
    BY DEF Spare
  <2>9. st.bits = 0 \/ st.bits = 2 \/ st.bits = 4 \/ st.bits = 6
    BY <2>2 DEF Spare
  <2>10. /\ State(acc, 6, st.out) \in Decoding
         /\ State(acc, 0, Append(st.out, acc % 256)) \in Decoding
         /\ State(acc, 2, Append(st.out, (acc \div 4) % 256)) \in Decoding
         /\ State(acc, 4, Append(st.out, (acc \div 16) % 256)) \in Decoding
    BY <2>2, <2>5, <2>6, <2>7, <2>8
  <2> QED BY <2>4, <2>9, <2>10, Zenon
<1> QED BY <1>1, <1>2

\* The decoder goes through one state for each character.
LEMMA DecodeTrace ==
    ASSUME NEW input \in Seq(Octet)
    PROVE  \E g \in [ 0 .. Len(input) -> Decoding ] : Takes(g, input) /\ Decode(input) = g[Len(input)]
<1> DEFINE A == Decoding
           n == Len(input)
           Rec(h) == [ s \in SUBSET (DOMAIN input) |->
                         IF s = {} THEN Fresh ELSE Take(h[s \ {Max(s)}], input[Max(s)]) ]
           I == CHOOSE iter : iter = Rec(iter)
           step == [ p \in (1 .. n) \X A |-> Take(p[2], input[p[1]]) ]
<1>1. Decode(input) = I[DOMAIN input]
  BY Zenon DEF Decode, FoldLeft, MapThenFoldSet
<1>2. n \in Nat /\ DOMAIN input = 1 .. n /\ \A i \in 1 .. n : input[i] \in Octet
  OBVIOUS
<1>3. Fresh \in A
  BY DEF Fresh, Decoding, Accumulator, Spare
<1> HIDE DEF A
<1>4. step \in [ (1 .. n) \X A -> A ]
  BY <1>2, TakeTyped DEF A
<1> HIDE DEF n
<1>5. \A i \in 1 .. n, a \in A : step[<<i, a>>] = Take(a, input[i])
  OBVIOUS
<1> HIDE DEF step
<1>6. PICK h \in [ SUBSET (1 .. n) -> A ] : Folds(h, Fresh, n, step)
  BY <1>2, <1>3, <1>4, FoldExists
<1>7. h = Rec(h)
  <2>1. ASSUME NEW s \in SUBSET (1 .. n)
        PROVE  h[s] = IF s = {} THEN Fresh ELSE Take(h[s \ {Max(s)}], input[Max(s)])
    <3>1. CASE s # {}
      <4>1. Max(s) \in 1 .. n /\ h[s \ {Max(s)}] \in A
        BY <1>2, <1>6, <3>1, MaxOf
      <4> QED BY <1>5, <1>6, <3>1, <4>1 DEF Folds
    <3>2. CASE s = {}
      BY <1>6, <3>2 DEF Folds
    <3> QED BY <3>1, <3>2
  <2> QED BY <1>2, <1>6, <2>1
<1>8. I = Rec(I)
  <2> HIDE DEF Rec
  <2> QED BY <1>7
<1> HIDE DEF I
<1>9. I[{}] = Fresh /\ \A s \in SUBSET (1 .. n) : s # {} => I[s] = Take(I[s \ {Max(s)}], input[Max(s)])
  BY <1>2, <1>8
<1>10. ASSUME NEW s \in SUBSET (1 .. n), s # {}, I[s \ {Max(s)}] \in A
       PROVE  I[s] = step[<<Max(s), I[s \ {Max(s)}]>>]
  <2>1. Max(s) \in 1 .. n
    BY <1>2, <1>10, MaxOf
  <2> QED BY <1>5, <1>9, <1>10, <2>1
<1>11. PICK g \in [ 0 .. n -> A ] : Traces(g, Fresh, I[1 .. n], n, step)
  BY <1>2, <1>3, <1>4, <1>9, <1>10, FoldTrace
<1>12. g[0] = Fresh /\ g[n] = Decode(input) /\ \A i \in 1 .. n : g[i] = step[<<i, g[i - 1]>>]
  BY <1>1, <1>2, <1>11 DEF Traces
<1>13. ASSUME NEW i \in 1 .. n PROVE g[i] = Take(g[i - 1], input[i])
  <2>1. i - 1 \in 0 .. n
    BY <1>2
  <2> QED BY <1>5, <1>11, <1>12, <2>1
<1>14. Takes(g, input)
  BY <1>12, <1>13 DEF Takes, n
<1> QED BY <1>11, <1>12, <1>14 DEF A, n

\* Nothing, decoded, and one character more.
LEMMA DecodeNone == Decode(<<>>) = Fresh
<1>1. <<>> \in Seq(Octet) /\ Len(<<>>) = 0
  OBVIOUS
<1>2. PICK g : Takes(g, <<>>) /\ Decode(<<>>) = g[0]
  BY <1>1, DecodeTrace
<1> QED BY <1>2 DEF Takes

\* See DecodeNone.
LEMMA DecodeMore ==
    ASSUME NEW input \in Seq(Octet), NEW c \in Octet
    PROVE  Decode(input) \in Decoding /\ Decode(Append(input, c)) = Take(Decode(input), c)
<1> DEFINE n == Len(input)
           more == Append(input, c)
<1>1. more \in Seq(Octet) /\ Len(more) = n + 1 /\ n \in Nat /\ more[n + 1] = c
      /\ \A i \in 1 .. n : more[i] = input[i]
  OBVIOUS
<1> HIDE DEF more
<1>2. PICK f \in [ 0 .. n -> Decoding ] : Takes(f, input) /\ Decode(input) = f[n]
  BY DecodeTrace
<1>3. PICK g \in [ 0 .. n + 1 -> Decoding ] : Takes(g, more) /\ Decode(more) = g[n + 1]
  BY <1>1, DecodeTrace
<1> HIDE DEF n
<1>4. f[0] = Fresh /\ g[0] = Fresh
  BY <1>2, <1>3 DEF Takes
<1>5. /\ \A i \in 1 .. n : f[i] = Take(f[i - 1], input[i])
      /\ \A i \in 1 .. n + 1 : g[i] = Take(g[i - 1], more[i])
  BY <1>1, <1>2, <1>3 DEF Takes, n
<1>6. ASSUME NEW i \in 1 .. n, f[i - 1] = g[i - 1] PROVE f[i] = g[i]
  <2>1. i \in 1 .. n + 1
    BY <1>1
  <2> QED BY <1>1, <1>5, <1>6, <2>1
<1>7. f[n] = g[n]
  <2>1. \A i \in 0 .. n : f[i] = g[i]
    <3>1. n \in Nat /\ Lockstep(f, g, n)
      BY <1>1, <1>4, <1>6 DEF Lockstep
    <3>2. Alike(f, g, n)
      BY <3>1, Agree
    <3> QED BY <3>2 DEF Alike
  <2> QED BY <1>1, <2>1
<1>8. n + 1 \in 1 .. n + 1 /\ (n + 1) - 1 = n /\ n \in 0 .. n
  BY <1>1
<1>9. g[n + 1] = Take(g[n], c)
  BY <1>1, <1>5, <1>8
<1> QED BY <1>2, <1>3, <1>7, <1>8, <1>9 DEF more

\* The letters of the alphabet mean their position, the rest nothing.
LEMMA Alphabet ==
    /\ \A d \in 0 .. 63 : Ascii(d) \in Octet /\ val(Ascii(d)) = d
    /\ 61 \in Octet /\ 13 \in Octet /\ 10 \in Octet
    /\ val(61) = -1 /\ val(13) = -1 /\ val(10) = -1
<1>1. ASSUME NEW d \in 0 .. 63 PROVE Ascii(d) \in Octet /\ val(Ascii(d)) = d
  <2>1. CASE d < 26
    <3>1. Ascii(d) = 65 + d
      BY <2>1 DEF Ascii
    <3> QED BY <2>1, <3>1 DEF val, Octet
  <2>2. CASE d \in 26 .. 51
    <3>1. Ascii(d) = 71 + d
      BY <2>2 DEF Ascii
    <3> QED BY <2>2, <3>1 DEF val, Octet
  <2>3. CASE d \in 52 .. 61
    <3>1. Ascii(d) = d - 4
      BY <2>3 DEF Ascii
    <3> QED BY <2>3, <3>1 DEF val, Octet
  <2>4. CASE d = 62
    <3>1. Ascii(d) = 43
      BY <2>4 DEF Ascii
    <3> QED BY <2>4, <3>1 DEF val, Octet
  <2>5. CASE d = 63
    <3>1. Ascii(d) = 47
      BY <2>5 DEF Ascii
    <3> QED BY <2>5, <3>1 DEF val, Octet
  <2> QED BY <2>1, <2>2, <2>3, <2>4, <2>5
<1>2. 61 \in Octet /\ 13 \in Octet /\ 10 \in Octet
  BY DEF Octet
<1>3. val(61) = -1 /\ val(13) = -1 /\ val(10) = -1
  BY DEF val
<1> QED BY <1>1, <1>2, <1>3, Zenon

\* The bytes of a text, then zeros.
OctetAt(s, j) == IF j <= Len(s) THEN s[j] ELSE 0

\* See OctetAt.
LEMMA OctetTyped ==
    ASSUME NEW s \in Seq(Octet), NEW j \in Nat \ {0} PROVE OctetAt(s, j) \in Octet
<1>1. 0 \in Octet
  BY DEF Octet
<1> QED BY <1>1 DEF OctetAt

\* The bits of a byte, the highest first, and of none.
LEMMA BitIs ==
    ASSUME NEW s \in Seq(Octet), NEW j \in Nat, NEW t \in 0 .. 7
    PROVE  Bit(s, 8 * j + t) = IF j < Len(s) THEN (s[j + 1] \div 2 ^ (7 - t)) % 2 ELSE 0
<1>1. (8 * j + t) \div 8 = j /\ (8 * j + t) % 8 = t
  OBVIOUS
<1> QED BY <1>1, Zenon DEF Bit

\* The same without powers.
LEMMA Bits ==
    ASSUME NEW s \in Seq(Octet), NEW j \in Nat
    PROVE  LET o == OctetAt(s, j + 1)
           IN /\ Bit(s, 8 * j) = (o \div 128) % 2 /\ Bit(s, 8 * j + 1) = (o \div 64) % 2
              /\ Bit(s, 8 * j + 2) = (o \div 32) % 2 /\ Bit(s, 8 * j + 3) = (o \div 16) % 2
              /\ Bit(s, 8 * j + 4) = (o \div 8) % 2 /\ Bit(s, 8 * j + 5) = (o \div 4) % 2
              /\ Bit(s, 8 * j + 6) = (o \div 2) % 2 /\ Bit(s, 8 * j + 7) = o % 2
<1> DEFINE o == OctetAt(s, j + 1)
<1>1. o \in Octet
  BY OctetTyped
<1>2. CASE ~(j < Len(s))
  <2>1. 0 \in 0 .. 7 /\ 8 * j + 0 = 8 * j
    OBVIOUS
  <2>2. \A t \in 0 .. 7 : Bit(s, 8 * j + t) = 0
    BY <1>2, BitIs
  <2>3. /\ Bit(s, 8 * j) = 0 /\ Bit(s, 8 * j + 1) = 0 /\ Bit(s, 8 * j + 2) = 0 /\ Bit(s, 8 * j + 3) = 0
        /\ Bit(s, 8 * j + 4) = 0 /\ Bit(s, 8 * j + 5) = 0 /\ Bit(s, 8 * j + 6) = 0 /\ Bit(s, 8 * j + 7) = 0
    BY <2>1, <2>2
  <2>4. o = 0
    <3>1. ~(j + 1 <= Len(s))
      BY <1>2
    <3> QED BY <3>1 DEF OctetAt
  <2>5. /\ (0 \div 128) % 2 = 0 /\ (0 \div 64) % 2 = 0 /\ (0 \div 32) % 2 = 0 /\ (0 \div 16) % 2 = 0
        /\ (0 \div 8) % 2 = 0 /\ (0 \div 4) % 2 = 0 /\ (0 \div 2) % 2 = 0 /\ 0 % 2 = 0
    OBVIOUS
  <2> HIDE DEF o
  <2> QED BY <2>3, <2>4, <2>5 DEF o
<1> SUFFICES ASSUME j < Len(s)
             PROVE  /\ Bit(s, 8 * j) = (o \div 128) % 2 /\ Bit(s, 8 * j + 1) = (o \div 64) % 2
                    /\ Bit(s, 8 * j + 2) = (o \div 32) % 2 /\ Bit(s, 8 * j + 3) = (o \div 16) % 2
                    /\ Bit(s, 8 * j + 4) = (o \div 8) % 2 /\ Bit(s, 8 * j + 5) = (o \div 4) % 2
                    /\ Bit(s, 8 * j + 6) = (o \div 2) % 2 /\ Bit(s, 8 * j + 7) = o % 2
  BY <1>2
<1>3. o = s[j + 1]
  <2>1. j + 1 <= Len(s)
    OBVIOUS
  <2> QED BY <2>1 DEF OctetAt
<1>4. \A t \in 0 .. 7 : Bit(s, 8 * j + t) = (o \div 2 ^ (7 - t)) % 2
  BY <1>3, BitIs
<1> HIDE DEF o
<1>5. 2 ^ 0 = 1 /\ 2 ^ 1 = 2 /\ 2 ^ 2 = 4 /\ 2 ^ 3 = 8 /\ 2 ^ 4 = 16 /\ 2 ^ 5 = 32 /\ 2 ^ 6 = 64 /\ 2 ^ 7 = 128
  OBVIOUS
<1>6. o \div 1 = o
  BY <1>1 DEF Octet
<1>7. Bit(s, 8 * j + 0) = (o \div 2 ^ 7) % 2 /\ Bit(s, 8 * j + 1) = (o \div 2 ^ 6) % 2
  <2>1. 0 \in 0 .. 7 /\ 1 \in 0 .. 7 /\ 7 - 0 = 7 /\ 7 - 1 = 6
    OBVIOUS
  <2> QED BY <1>4, <2>1
<1>8. Bit(s, 8 * j + 2) = (o \div 2 ^ 5) % 2 /\ Bit(s, 8 * j + 3) = (o \div 2 ^ 4) % 2
  <2>1. 2 \in 0 .. 7 /\ 3 \in 0 .. 7 /\ 7 - 2 = 5 /\ 7 - 3 = 4
    OBVIOUS
  <2> QED BY <1>4, <2>1
<1>9. Bit(s, 8 * j + 4) = (o \div 2 ^ 3) % 2 /\ Bit(s, 8 * j + 5) = (o \div 2 ^ 2) % 2
  <2>1. 4 \in 0 .. 7 /\ 5 \in 0 .. 7 /\ 7 - 4 = 3 /\ 7 - 5 = 2
    OBVIOUS
  <2> QED BY <1>4, <2>1
<1>10. Bit(s, 8 * j + 6) = (o \div 2 ^ 1) % 2 /\ Bit(s, 8 * j + 7) = (o \div 2 ^ 0) % 2
  <2>1. 6 \in 0 .. 7 /\ 7 \in 0 .. 7 /\ 7 - 6 = 1 /\ 7 - 7 = 0
    OBVIOUS
  <2> QED BY <1>4, <2>1
<1>11. 8 * j + 0 = 8 * j
  OBVIOUS
<1> QED BY <1>5, <1>6, <1>7, <1>8, <1>9, <1>10, <1>11

\* Four letters are three bytes.
LEMMA Sextets ==
    ASSUME NEW s \in Seq(Octet), NEW q \in Nat
    PROVE  LET a == OctetAt(s, 3 * q + 1)
               b == OctetAt(s, 3 * q + 2)
               c == OctetAt(s, 3 * q + 3)
           IN /\ Sextet(s, 6 * (4 * q)) = a \div 4
              /\ Sextet(s, 6 * (4 * q + 1)) = (a % 4) * 16 + b \div 16
              /\ Sextet(s, 6 * (4 * q + 2)) = (b % 16) * 4 + c \div 64
              /\ Sextet(s, 6 * (4 * q + 3)) = c % 64
<1> DEFINE a == OctetAt(s, 3 * q + 1)
           b == OctetAt(s, 3 * q + 2)
           c == OctetAt(s, 3 * q + 3)
           i == 24 * q
<1>1. a \in 0 .. 255 /\ b \in 0 .. 255 /\ c \in 0 .. 255
  <2>1. 3 * q + 1 \in Nat \ {0} /\ 3 * q + 2 \in Nat \ {0} /\ 3 * q + 3 \in Nat \ {0}
    OBVIOUS
  <2> QED BY <2>1, OctetTyped DEF Octet
<1>2. /\ Bit(s, i) = (a \div 128) % 2 /\ Bit(s, i + 1) = (a \div 64) % 2
      /\ Bit(s, i + 2) = (a \div 32) % 2 /\ Bit(s, i + 3) = (a \div 16) % 2
      /\ Bit(s, i + 4) = (a \div 8) % 2 /\ Bit(s, i + 5) = (a \div 4) % 2
      /\ Bit(s, i + 6) = (a \div 2) % 2 /\ Bit(s, i + 7) = a % 2
  <2>1. 3 * q \in Nat /\ 8 * (3 * q) = i
    OBVIOUS
  <2> QED BY <2>1, Bits
<1>3. /\ Bit(s, i + 8) = (b \div 128) % 2 /\ Bit(s, i + 9) = (b \div 64) % 2
      /\ Bit(s, i + 10) = (b \div 32) % 2 /\ Bit(s, i + 11) = (b \div 16) % 2
      /\ Bit(s, i + 12) = (b \div 8) % 2 /\ Bit(s, i + 13) = (b \div 4) % 2
      /\ Bit(s, i + 14) = (b \div 2) % 2 /\ Bit(s, i + 15) = b % 2
  <2> DEFINE j == 3 * q + 1
  <2>1. /\ j \in Nat /\ 8 * j = i + 8 /\ 8 * j + 1 = i + 9 /\ 8 * j + 2 = i + 10 /\ 8 * j + 3 = i + 11
        /\ 8 * j + 4 = i + 12 /\ 8 * j + 5 = i + 13 /\ 8 * j + 6 = i + 14 /\ 8 * j + 7 = i + 15
        /\ j + 1 = 3 * q + 2
    OBVIOUS
  <2> HIDE DEF j, i
  <2>2. OctetAt(s, j + 1) = b
    BY <2>1 DEF b
  <2> HIDE DEF b
  <2> QED BY <2>1, <2>2, Bits
<1>4. /\ Bit(s, i + 16) = (c \div 128) % 2 /\ Bit(s, i + 17) = (c \div 64) % 2
      /\ Bit(s, i + 18) = (c \div 32) % 2 /\ Bit(s, i + 19) = (c \div 16) % 2
      /\ Bit(s, i + 20) = (c \div 8) % 2 /\ Bit(s, i + 21) = (c \div 4) % 2
      /\ Bit(s, i + 22) = (c \div 2) % 2 /\ Bit(s, i + 23) = c % 2
  <2> DEFINE j == 3 * q + 2
  <2>1. /\ j \in Nat /\ 8 * j = i + 16 /\ 8 * j + 1 = i + 17 /\ 8 * j + 2 = i + 18 /\ 8 * j + 3 = i + 19
        /\ 8 * j + 4 = i + 20 /\ 8 * j + 5 = i + 21 /\ 8 * j + 6 = i + 22 /\ 8 * j + 7 = i + 23
        /\ j + 1 = 3 * q + 3
    OBVIOUS
  <2> HIDE DEF j, i
  <2>2. OctetAt(s, j + 1) = c
    BY <2>1 DEF c
  <2> HIDE DEF c
  <2> QED BY <2>1, <2>2, Bits
<1>5. ASSUME NEW k \in Int
      PROVE  Sextet(s, k) = 32 * Bit(s, k) + 16 * Bit(s, k + 1) + 8 * Bit(s, k + 2)
                            + 4 * Bit(s, k + 3) + 2 * Bit(s, k + 4) + Bit(s, k + 5)
  <2>1. k + 0 = k
    OBVIOUS
  <2> QED BY <2>1, Zenon DEF Sextet
<1>6. /\ 6 * (4 * q) = i /\ 6 * (4 * q + 1) = i + 6 /\ 6 * (4 * q + 2) = i + 12 /\ 6 * (4 * q + 3) = i + 18
      /\ i \in Int /\ i + 6 \in Int /\ i + 12 \in Int /\ i + 18 \in Int
  OBVIOUS
<1> HIDE DEF a, b, c, i
<1>7. /\ (i + 6) + 1 = i + 7 /\ (i + 6) + 2 = i + 8 /\ (i + 6) + 3 = i + 9 /\ (i + 6) + 4 = i + 10 /\ (i + 6) + 5 = i + 11
      /\ (i + 12) + 1 = i + 13 /\ (i + 12) + 2 = i + 14 /\ (i + 12) + 3 = i + 15 /\ (i + 12) + 4 = i + 16 /\ (i + 12) + 5 = i + 17
      /\ (i + 18) + 1 = i + 19 /\ (i + 18) + 2 = i + 20 /\ (i + 18) + 3 = i + 21 /\ (i + 18) + 4 = i + 22 /\ (i + 18) + 5 = i + 23
  BY <1>6
<1>8. Sextet(s, i) = a \div 4
  <2>1. Sextet(s, i) = 32 * ((a \div 128) % 2) + 16 * ((a \div 64) % 2) + 8 * ((a \div 32) % 2)
                       + 4 * ((a \div 16) % 2) + 2 * ((a \div 8) % 2) + ((a \div 4) % 2)
    BY <1>2, <1>5, <1>6
  <2> QED BY <1>1, <2>1
<1>9. Sextet(s, i + 6) = (a % 4) * 16 + b \div 16
  <2>1. Sextet(s, i + 6) = 32 * ((a \div 2) % 2) + 16 * (a % 2) + 8 * ((b \div 128) % 2)
                           + 4 * ((b \div 64) % 2) + 2 * ((b \div 32) % 2) + ((b \div 16) % 2)
    BY <1>2, <1>3, <1>5, <1>6, <1>7
  <2> QED BY <1>1, <2>1, SMTT(20)
<1>10. Sextet(s, i + 12) = (b % 16) * 4 + c \div 64
  <2>1. Sextet(s, i + 12) = 32 * ((b \div 8) % 2) + 16 * ((b \div 4) % 2) + 8 * ((b \div 2) % 2)
                            + 4 * (b % 2) + 2 * ((c \div 128) % 2) + ((c \div 64) % 2)
    BY <1>3, <1>4, <1>5, <1>6, <1>7
  <2>2. ASSUME NEW x \in 0 .. 255
        PROVE  (x % 16) * 4 = 32 * ((x \div 8) % 2) + 16 * ((x \div 4) % 2) + 8 * ((x \div 2) % 2) + 4 * (x % 2)
    OBVIOUS
  <2>3. ASSUME NEW x \in 0 .. 255 PROVE x \div 64 = 2 * ((x \div 128) % 2) + ((x \div 64) % 2)
    OBVIOUS
  <2>4. (b % 16) * 4 = 32 * ((b \div 8) % 2) + 16 * ((b \div 4) % 2) + 8 * ((b \div 2) % 2) + 4 * (b % 2)
    BY <1>1, <2>2
  <2>5. c \div 64 = 2 * ((c \div 128) % 2) + ((c \div 64) % 2)
    BY <1>1, <2>3
  <2>6. /\ (b \div 8) % 2 \in Nat /\ (b \div 4) % 2 \in Nat /\ (b \div 2) % 2 \in Nat /\ b % 2 \in Nat
        /\ (c \div 128) % 2 \in Nat /\ (c \div 64) % 2 \in Nat
    BY <1>1
  <2>7. \A u, v, w, x, y, z \in Nat : 32 * u + 16 * v + 8 * w + 4 * x + 2 * y + z
                                         = (32 * u + 16 * v + 8 * w + 4 * x) + (2 * y + z)
    OBVIOUS
  <2>8. PICK u, v, w, x, y, z : /\ u = (b \div 8) % 2 /\ v = (b \div 4) % 2 /\ w = (b \div 2) % 2 /\ x = b % 2
                                /\ y = (c \div 128) % 2 /\ z = (c \div 64) % 2
    OBVIOUS
  <2>9. u \in Nat /\ v \in Nat /\ w \in Nat /\ x \in Nat /\ y \in Nat /\ z \in Nat
    BY <2>6, <2>8
  <2>10. 32 * u + 16 * v + 8 * w + 4 * x + 2 * y + z = (32 * u + 16 * v + 8 * w + 4 * x) + (2 * y + z)
    BY <2>7, <2>9
  <2>11. Sextet(s, i + 12) = (32 * ((b \div 8) % 2) + 16 * ((b \div 4) % 2) + 8 * ((b \div 2) % 2) + 4 * (b % 2))
                            + (2 * ((c \div 128) % 2) + ((c \div 64) % 2))
    BY <2>1, <2>8, <2>10, Zenon
  <2> QED BY <2>4, <2>5, <2>11, Zenon
<1>11. Sextet(s, i + 18) = c % 64
  <2>1. Sextet(s, i + 18) = 32 * ((c \div 32) % 2) + 16 * ((c \div 16) % 2) + 8 * ((c \div 8) % 2)
                            + 4 * ((c \div 4) % 2) + 2 * ((c \div 2) % 2) + (c % 2)
    BY <1>4, <1>5, <1>6, <1>7
  <2> QED BY <1>1, <2>1, SMTT(20)
<1> QED BY <1>6, <1>8, <1>9, <1>10, <1>11 DEF a, b, c

\* The numbers of some bits.
Low(n) == 0 .. n

\* A sum keeps its lowest part when its highest bits are dropped.
Keeps(m, h, x) == \E g \in Nat : (m * h + x) % Wide = m * g + x

\* See Keeps.
LEMMA Reduced64 ==
    ASSUME NEW h \in Nat, NEW x \in 0 .. 63 PROVE Keeps(64, h, x)
<1>1. (64 * h + x) % 16384 = 64 * (h % 256) + x /\ h % 256 \in Nat
  OBVIOUS
<1> QED BY <1>1 DEF Wide, Keeps

\* The same of 256.
LEMMA Reduced256 ==
    ASSUME NEW h \in Nat, NEW x \in 0 .. 255 PROVE Keeps(256, h, x)
<1>1. (256 * h + x) % 16384 = 256 * (h % 64) + x /\ h % 64 \in Nat
  OBVIOUS
<1> QED BY <1>1 DEF Wide, Keeps

\* The same of 1024.
LEMMA Reduced1024 ==
    ASSUME NEW h \in Nat, NEW x \in Low(1023) PROVE Keeps(1024, h, x)
<1>1. (1024 * h + x) % 16384 = 1024 * (h % 16) + x /\ h % 16 \in Nat
  BY DEF Low
<1> QED BY <1>1 DEF Wide, Keeps

\* The same of 4096.
LEMMA Reduced4096 ==
    ASSUME NEW h \in Nat, NEW x \in Low(4095) PROVE Keeps(4096, h, x)
<1>1. (4096 * h + x) % 16384 = 4096 * (h % 4) + x /\ h % 4 \in Nat
  BY DEF Low
<1> QED BY <1>1 DEF Wide, Keeps

\* The byte of a letter, from the bits that were there and the ones it brings.
Shift(a, o, p, v) ==
    LET acc == (a * 64 + v) % Wide
    IN /\ v = o \div 4 => acc % 64 = o \div 4
       /\ a % 64 = o \div 4 /\ v = (o % 4) * 16 + (p \div 16)
              => (acc \div 16) % 256 = o /\ acc % 16 = p \div 16
       /\ a % 16 = o \div 16 /\ v = (o % 16) * 4 + (p \div 64)
              => (acc \div 4) % 256 = o /\ acc % 4 = p \div 64
       /\ a % 4 = o \div 64 /\ v = o % 64 => acc % 256 = o

\* See Shift.
LEMMA Shifted ==
    ASSUME NEW a \in Nat, NEW o \in 0 .. 255, NEW p \in 0 .. 255, NEW v \in Nat
    PROVE  Shift(a, o, p, v)
<1> USE DEF Shift
<1> DEFINE acc == (a * 64 + v) % Wide
<1>1. ASSUME v = o \div 4 PROVE acc % 64 = o \div 4
  <2>1. v \in 0 .. 63 /\ a * 64 + v = 64 * a + v
    BY <1>1
  <2>2. PICK g \in Nat : acc = 64 * g + v
    <3>1. Keeps(64, a, v)
      BY <2>1, Reduced64
    <3> QED BY <2>1, <3>1 DEF Keeps
  <2>3. (64 * g + v) % 64 = v
    BY <2>1
  <2> QED BY <1>1, <2>2, <2>3
<1>2. ASSUME a % 64 = o \div 4, v = (o % 4) * 16 + (p \div 16)
      PROVE  (acc \div 16) % 256 = o /\ acc % 16 = p \div 16
  <2>1. PICK h \in Nat, w \in 0 .. 15 : a = 64 * h + (o \div 4) /\ w = p \div 16
    <3>1. a = 64 * (a \div 64) + (a % 64) /\ a \div 64 \in Nat /\ p \div 16 \in 0 .. 15
      OBVIOUS
    <3> QED BY <1>2, <3>1
  <2>2. a * 64 + v = 4096 * h + (16 * o + w) /\ 16 * o + w \in 0 .. 4095
    <3>1. o = 4 * (o \div 4) + (o % 4) /\ o \div 4 \in Nat /\ o % 4 \in Nat
      OBVIOUS
    <3> QED BY <1>2, <2>1, <3>1
  <2>3. PICK g \in Nat : acc = 4096 * g + (16 * o + w)
    <3>1. PICK x \in Low(4095) : x = 16 * o + w
      BY <2>2 DEF Low
    <3>2. Keeps(4096, h, x)
      BY Reduced4096
    <3>3. acc = (4096 * h + x) % Wide
      BY <2>2, <3>1
    <3> HIDE DEF acc
    <3> QED BY <3>1, <3>2, <3>3 DEF Keeps
  <2>4. (4096 * g + (16 * o + w)) \div 16 = 256 * g + o /\ (4096 * g + (16 * o + w)) % 16 = w
    BY <2>1
  <2>5. (256 * g + o) % 256 = o
    OBVIOUS
  <2> HIDE DEF acc
  <2> QED BY <2>1, <2>3, <2>4, <2>5
<1>3. ASSUME a % 16 = o \div 16, v = (o % 16) * 4 + (p \div 64)
      PROVE  (acc \div 4) % 256 = o /\ acc % 4 = p \div 64
  <2>1. PICK h \in Nat, w \in 0 .. 3 : a = 16 * h + (o \div 16) /\ w = p \div 64
    <3>1. a = 16 * (a \div 16) + (a % 16) /\ a \div 16 \in Nat /\ p \div 64 \in 0 .. 3
      OBVIOUS
    <3> QED BY <1>3, <3>1
  <2>2. a * 64 + v = 1024 * h + (4 * o + w) /\ 4 * o + w \in 0 .. 1023
    <3>1. o = 16 * (o \div 16) + (o % 16) /\ o \div 16 \in Nat /\ o % 16 \in Nat
      OBVIOUS
    <3> QED BY <1>3, <2>1, <3>1
  <2>3. PICK g \in Nat : acc = 1024 * g + (4 * o + w)
    <3>1. PICK x \in Low(1023) : x = 4 * o + w
      BY <2>2 DEF Low
    <3>2. Keeps(1024, h, x)
      BY Reduced1024
    <3>3. acc = (1024 * h + x) % Wide
      BY <2>2, <3>1
    <3> HIDE DEF acc
    <3> QED BY <3>1, <3>2, <3>3 DEF Keeps
  <2>4. (1024 * g + (4 * o + w)) \div 4 = 256 * g + o /\ (1024 * g + (4 * o + w)) % 4 = w
    BY <2>1
  <2>5. (256 * g + o) % 256 = o
    OBVIOUS
  <2> HIDE DEF acc
  <2> QED BY <2>1, <2>3, <2>4, <2>5
<1>4. ASSUME a % 4 = o \div 64, v = o % 64 PROVE acc % 256 = o
  <2>1. PICK h \in Nat : a = 4 * h + (o \div 64)
    <3>1. a = 4 * (a \div 4) + (a % 4) /\ a \div 4 \in Nat
      OBVIOUS
    <3> QED BY <1>4, <3>1
  <2>2. a * 64 + v = 256 * h + o
    <3>1. o = 64 * (o \div 64) + (o % 64) /\ o \div 64 \in Nat /\ o % 64 \in Nat
      OBVIOUS
    <3> QED BY <1>4, <2>1, <3>1
  <2>3. PICK g \in Nat : acc = 256 * g + o
    <3>1. Keeps(256, h, o)
      BY Reduced256
    <3> QED BY <2>2, <3>1 DEF Keeps
  <2>4. (256 * g + o) % 256 = o
    OBVIOUS
  <2> HIDE DEF acc
  <2> QED BY <2>3, <2>4
<1> HIDE DEF acc
<1> QED BY <1>1, <1>2, <1>3, <1>4 DEF acc

\* How many bytes and bits k letters are, and what a letter more makes of them.
LEMMA Place ==
    ASSUME NEW n \in Nat, NEW b \in {0, 2, 4, 6}, NEW k \in Nat, 8 * n + b = 6 * k,
           NEW q \in Nat, NEW r \in 0 .. 3, k = 4 * q + r
    PROVE  /\ r = 0 => b = 0 /\ n = 3 * q /\ 8 * n + 6 = 6 * (k + 1)
           /\ r = 1 => b = 6 /\ n = 3 * q /\ 8 * (n + 1) + 4 = 6 * (k + 1)
           /\ r = 2 => b = 4 /\ n = 3 * q + 1 /\ 8 * (n + 1) + 2 = 6 * (k + 1)
           /\ r = 3 => b = 2 /\ n = 3 * q + 2 /\ 8 * (n + 1) + 0 = 6 * (k + 1)
<1>1. 8 * n + b = 24 * q + 6 * r
  OBVIOUS
<1>2. CASE r = 0
  BY <1>1, <1>2
<1>3. CASE r = 1
  BY <1>1, <1>3
<1>4. CASE r = 2
  BY <1>1, <1>4
<1>5. CASE r = 3
  BY <1>1, <1>5
<1> QED BY <1>2, <1>3, <1>4, <1>5

\* What begins like the text, and a byte more that is complete.
Begins(out, s) == \A i \in 1 .. Len(out) : i <= Len(s) /\ out[i] = s[i]

\* See Begins.
LEMMA OctetMore ==
    ASSUME NEW s \in Seq(Octet), NEW out \in Seq(Octet), Begins(out, s),
           Len(out) + 1 <= Len(s), NEW x, x = OctetAt(s, Len(out) + 1)
    PROVE  /\ Append(out, x) \in Seq(Octet) /\ Len(Append(out, x)) = Len(out) + 1
           /\ Begins(Append(out, x), s)
<1> USE DEF Begins
<1>1. x = s[Len(out) + 1] /\ x \in Octet
  BY DEF OctetAt
<1> QED BY <1>1

\* What the decoder has after k letters of a text's base64: its first bytes,
\* and of the next one the bits that have come.
Progress(st, s, k) ==
    /\ st \in Decoding
    /\ 8 * Len(st.out) + st.bits = 6 * k
    /\ Begins(st.out, s)
    /\ LET o == OctetAt(s, Len(st.out) + 1)
       IN /\ st.bits = 2 => st.acc % 4 = o \div 64
          /\ st.bits = 4 => st.acc % 16 = o \div 16
          /\ st.bits = 6 => st.acc % 64 = o \div 4

\* The byte the letter 4 q + r begins in, counted from 0.
Index(q, r) == 3 * q + (IF r = 2 THEN 1 ELSE IF r = 3 THEN 2 ELSE 0)

\* What a letter means, from the byte it begins in and the one behind it.
Means(r, v, o, p) ==
    /\ r = 0 => v = o \div 4
    /\ r = 1 => v = (o % 4) * 16 + (p \div 16)
    /\ r = 2 => v = (o % 16) * 4 + (p \div 64)
    /\ r = 3 => v = o % 64

\* Six bits.
LEMMA SixBits ==
    ASSUME NEW o \in 0 .. 255, NEW p \in 0 .. 255
    PROVE  o \div 4 \in 0 .. 63 /\ (o % 4) * 16 + (p \div 16) \in 0 .. 63
           /\ (o % 16) * 4 + (p \div 64) \in 0 .. 63 /\ o % 64 \in 0 .. 63
<1>1. o \div 4 \in 0 .. 63 /\ o % 64 \in 0 .. 63
  OBVIOUS
<1>2. o % 4 \in 0 .. 3 /\ p \div 16 \in 0 .. 15
  OBVIOUS
<1>3. o % 16 \in 0 .. 15 /\ p \div 64 \in 0 .. 3
  OBVIOUS
<1>4. (o % 4) * 16 + (p \div 16) \in 0 .. 63
  BY <1>2
<1>5. (o % 16) * 4 + (p \div 64) \in 0 .. 63
  BY <1>3
<1> QED BY <1>1, <1>4, <1>5

\* The letter 4 q + r.
Letter(s, q, r) ==
    LET v == Sextet(s, 6 * (4 * q + r))
        o == OctetAt(s, Index(q, r) + 1)
        p == OctetAt(s, Index(q, r) + 2)
    IN o \in 0 .. 255 /\ p \in 0 .. 255 /\ v \in 0 .. 63 /\ Means(r, v, o, p)

\* See Letter.
LEMMA LetterAt ==
    ASSUME NEW s \in Seq(Octet), NEW q \in Nat, NEW r \in 0 .. 3 PROVE Letter(s, q, r)
<1>0. PICK k, n, v, o, p : /\ k = 4 * q + r /\ n = Index(q, r)
                           /\ v = Sextet(s, 6 * k) /\ o = OctetAt(s, n + 1) /\ p = OctetAt(s, n + 2)
  OBVIOUS
<1>1. o \in 0 .. 255 /\ p \in 0 .. 255
  <2>1. n + 1 \in Nat \ {0} /\ n + 2 \in Nat \ {0}
    BY <1>0 DEF Index
  <2> QED BY <1>0, <2>1, OctetTyped DEF Octet
<1>2. /\ Sextet(s, 6 * (4 * q)) = OctetAt(s, 3 * q + 1) \div 4
      /\ Sextet(s, 6 * (4 * q + 1)) = (OctetAt(s, 3 * q + 1) % 4) * 16 + (OctetAt(s, 3 * q + 2) \div 16)
      /\ Sextet(s, 6 * (4 * q + 2)) = (OctetAt(s, 3 * q + 2) % 16) * 4 + (OctetAt(s, 3 * q + 3) \div 64)
      /\ Sextet(s, 6 * (4 * q + 3)) = OctetAt(s, 3 * q + 3) % 64
  BY Sextets
<1>3. v \in 0 .. 63 /\ Means(r, v, o, p)
  <2>1. CASE r = 0
    <3>1. k = 4 * q /\ n + 1 = 3 * q + 1
      BY <1>0, <2>1 DEF Index
    <3>2. v = o \div 4
      BY <1>0, <1>2, <3>1
    <3>3. v \in 0 .. 63
      BY <1>1, <3>2, SixBits, ZenonT(30)
    <3> QED BY <3>2, <3>3, <2>1 DEF Means
  <2>2. CASE r = 1
    <3>1. k = 4 * q + 1 /\ n + 1 = 3 * q + 1 /\ n + 2 = 3 * q + 2
      BY <1>0, <2>2 DEF Index
    <3>2. v = (o % 4) * 16 + (p \div 16)
      BY <1>0, <1>2, <3>1
    <3>3. v \in 0 .. 63
      BY <1>1, <3>2, SixBits, ZenonT(30)
    <3> QED BY <3>2, <3>3, <2>2 DEF Means
  <2>3. CASE r = 2
    <3>1. k = 4 * q + 2 /\ n + 1 = 3 * q + 2 /\ n + 2 = 3 * q + 3
      BY <1>0, <2>3 DEF Index
    <3>2. v = (o % 16) * 4 + (p \div 64)
      BY <1>0, <1>2, <3>1
    <3>3. v \in 0 .. 63
      BY <1>1, <3>2, SixBits, ZenonT(30)
    <3> QED BY <3>2, <3>3, <2>3 DEF Means
  <2>4. CASE r = 3
    <3>1. k = 4 * q + 3 /\ n + 1 = 3 * q + 3
      BY <1>0, <2>4 DEF Index
    <3>2. v = o % 64
      BY <1>0, <1>2, <3>1
    <3>3. v \in 0 .. 63
      BY <1>1, <3>2, SixBits, ZenonT(30)
    <3> QED BY <3>2, <3>3, <2>4 DEF Means
  <2> QED BY <2>1, <2>2, <2>3, <2>4
<1> QED BY <1>0, <1>1, <1>3, Zenon DEF Letter

\* Every number is some fours and a rest.
LEMMA InFours == ASSUME NEW k \in Nat PROVE \E q \in Nat, r \in 0 .. 3 : k = 4 * q + r
<1>1. k \div 4 \in Nat /\ k % 4 \in 0 .. 3 /\ k = 4 * (k \div 4) + (k % 4)
  OBVIOUS
<1> QED BY <1>1

\* The letters that mean something mean six bits.
LEMMA SextetRange == ASSUME NEW s \in Seq(Octet), NEW k \in Nat PROVE Sextet(s, 6 * k) \in 0 .. 63
<1>1. PICK q \in Nat, r \in 0 .. 3 : k = 4 * q + r
  BY InFours
<1>2. Letter(s, q, r)
  BY LetterAt
<1> QED BY <1>1, <1>2 DEF Letter

\* The accumulator of a state that is in progress.
Bears(bits, acc, o) ==
    /\ bits = 2 => acc % 4 = o \div 64
    /\ bits = 4 => acc % 16 = o \div 16
    /\ bits = 6 => acc % 64 = o \div 4

\* A letter more: it ends the byte it is in, or begins one.
LEMMA ProgressStep ==
    ASSUME NEW s \in Seq(Octet), NEW k \in Nat, 6 * k < 8 * Len(s), NEW st, Progress(st, s, k)
    PROVE  Progress(Take(st, Ascii(Sextet(s, 6 * k))), s, k + 1)
<1>1. st \in Decoding
  BY DEF Progress
<1>2. PICK a, b, out, n : a = st.acc /\ b = st.bits /\ out = st.out /\ n = Len(out)
  OBVIOUS
<1>3. a \in Nat /\ b \in Spare /\ b \in {0, 2, 4, 6} /\ out \in Seq(Octet) /\ n \in Nat
  <2>1. a \in Nat /\ b \in Spare /\ out \in Seq(Octet)
    BY <1>1, <1>2, StateIs
  <2>2. Len(out) \in Nat
    BY <2>1
  <2> QED BY <1>2, <2>1, <2>2 DEF Spare
<1>4. PICK o, p, v, c : o = OctetAt(s, n + 1) /\ p = OctetAt(s, n + 2) /\ v = Sextet(s, 6 * k) /\ c = Ascii(v)
  OBVIOUS
<1>5. /\ 8 * n + b = 6 * k /\ Bears(b, a, o)
      /\ Begins(out, s)
  BY <1>2, <1>4, Zenon DEF Progress, Bears
<1>6. PICK q \in Nat, r \in 0 .. 3 : k = 4 * q + r
  BY InFours
<1>7. /\ r = 0 => b = 0 /\ n = 3 * q /\ 8 * n + 6 = 6 * (k + 1)
      /\ r = 1 => b = 6 /\ n = 3 * q /\ 8 * (n + 1) + 4 = 6 * (k + 1)
      /\ r = 2 => b = 4 /\ n = 3 * q + 1 /\ 8 * (n + 1) + 2 = 6 * (k + 1)
      /\ r = 3 => b = 2 /\ n = 3 * q + 2 /\ 8 * (n + 1) + 0 = 6 * (k + 1)
  BY <1>3, <1>5, <1>6, Place
<1>8. /\ o \in 0 .. 255 /\ p \in 0 .. 255 /\ v \in 0 .. 63
      /\ r = 0 => v = o \div 4
      /\ r = 1 => v = (o % 4) * 16 + (p \div 16)
      /\ r = 2 => v = (o % 16) * 4 + (p \div 64)
      /\ r = 3 => v = o % 64
  <2>1. n = Index(q, r)
    BY <1>6, <1>7 DEF Index
  <2>2. o \in 0 .. 255 /\ p \in 0 .. 255 /\ v \in 0 .. 63 /\ Means(r, v, o, p)
    <3>1. Letter(s, q, r)
      BY LetterAt
    <3> QED BY <1>4, <1>6, <2>1, <3>1, Zenon DEF Letter
  <2> QED BY <2>2 DEF Means
<1>9. c \in Octet /\ val(c) = v
  BY <1>4, <1>8, Alphabet
<1> DEFINE acc == (a * 64 + v) % Wide
           new == Take(st, c)
<1>10. new \in Decoding
  BY <1>1, <1>9, TakeTyped
<1>11. /\ b = 0 => new = State(acc, 6, out)
       /\ b = 2 => new = State(acc, 0, Append(out, acc % 256))
       /\ b = 4 => new = State(acc, 2, Append(out, (acc \div 4) % 256))
       /\ b = 6 => new = State(acc, 4, Append(out, (acc \div 16) % 256))
  <2> DEFINE ac == (st.acc * 64 + v) % Wide
  <2>1. /\ st.bits = 0 => Take(st, c) = State(ac, 6, st.out)
        /\ st.bits = 2 => Take(st, c) = State(ac, 0, Append(st.out, ac % 256))
        /\ st.bits = 4 => Take(st, c) = State(ac, 2, Append(st.out, (ac \div 4) % 256))
        /\ st.bits = 6 => Take(st, c) = State(ac, 4, Append(st.out, (ac \div 16) % 256))
    <3>1. Taken(st, v, Take(st, c))
      BY <1>1, <1>8, <1>9, TakeIs
    <3> QED BY <3>1, Zenon DEF Taken
  <2> QED BY <1>2, <2>1
<1>12. /\ v = o \div 4 => acc % 64 = o \div 4
       /\ a % 64 = o \div 4 /\ v = (o % 4) * 16 + (p \div 16)
              => (acc \div 16) % 256 = o /\ acc % 16 = p \div 16
       /\ a % 16 = o \div 16 /\ v = (o % 16) * 4 + (p \div 64)
              => (acc \div 4) % 256 = o /\ acc % 4 = p \div 64
       /\ a % 4 = o \div 64 /\ v = o % 64 => acc % 256 = o
  <2>1. v \in Nat
    BY <1>8
  <2>2. Shift(a, o, p, v)
    BY <1>3, <1>8, <2>1, Shifted
  <2> QED BY <2>2, Zenon DEF Shift
<1>13. n + 1 <= Len(s)
  BY <1>3, <1>5
<1>14. /\ Append(out, o) \in Seq(Octet) /\ Len(Append(out, o)) = n + 1
       /\ Begins(Append(out, o), s)
  BY <1>2, <1>3, <1>4, <1>5, <1>13, OctetMore
<1> HIDE DEF acc, new
<1>15. CASE r = 0
  <2>1. b = 0 /\ 8 * n + 6 = 6 * (k + 1) /\ acc % 64 = o \div 4
    BY <1>7, <1>8, <1>12, <1>15
  <2>2. new.out = out /\ new.bits = 6 /\ new.acc = acc
    BY <1>11, <2>1 DEF State
  <2>3. Bears(6, acc, o)
    BY <2>1 DEF Bears
  <2>4. Progress(new, s, k + 1)
    BY <1>2, <1>4, <1>5, <1>10, <2>1, <2>2, <2>3, Zenon DEF Progress, Bears
  <2> QED BY <1>4, <2>4 DEF new
<1>16. ASSUME NEW d \in {0, 2, 4}, new = State(acc, d, Append(out, o)),
              8 * (n + 1) + d = 6 * (k + 1), Bears(d, acc, p)
       PROVE  Progress(new, s, k + 1)
  <2>1. new.out = Append(out, o) /\ new.bits = d /\ new.acc = acc
    BY <1>16 DEF State
  <2>2. n + 2 = (n + 1) + 1
    BY <1>3
  <2>3. Len(new.out) = n + 1
    BY <1>14, <2>1
  <2>4. p = OctetAt(s, (n + 1) + 1)
    BY <1>4, <2>2
  <2> QED BY <1>10, <1>14, <1>16, <2>1, <2>3, <2>4, Zenon DEF Progress, Bears
<1>17. CASE r = 1
  <2>1. b = 6 /\ 8 * (n + 1) + 4 = 6 * (k + 1) /\ (acc \div 16) % 256 = o /\ acc % 16 = p \div 16
    BY <1>5, <1>7, <1>8, <1>12, <1>17 DEF Bears
  <2>2. new = State(acc, 4, Append(out, o)) /\ Bears(4, acc, p)
    BY <1>11, <2>1 DEF Bears
  <2> QED BY <1>4, <1>16, <2>1, <2>2 DEF new
<1>18. CASE r = 2
  <2>1. b = 4 /\ 8 * (n + 1) + 2 = 6 * (k + 1) /\ (acc \div 4) % 256 = o /\ acc % 4 = p \div 64
    BY <1>5, <1>7, <1>8, <1>12, <1>18 DEF Bears
  <2>2. new = State(acc, 2, Append(out, o)) /\ Bears(2, acc, p)
    BY <1>11, <2>1 DEF Bears
  <2> QED BY <1>4, <1>16, <2>1, <2>2 DEF new
<1>19. CASE r = 3
  <2>1. b = 2 /\ 8 * (n + 1) + 0 = 6 * (k + 1) /\ acc % 256 = o
    BY <1>5, <1>7, <1>8, <1>12, <1>19 DEF Bears
  <2>2. new = State(acc, 0, Append(out, o)) /\ Bears(0, acc, p)
    BY <1>11, <2>1 DEF Bears
  <2> QED BY <1>4, <1>16, <2>1, <2>2 DEF new
<1> QED BY <1>15, <1>17, <1>18, <1>19

\* A piece from the start, and one element longer.
LEMMA SubSeqMore ==
    ASSUME NEW S, NEW x \in Seq(S), NEW k \in Nat, k + 1 <= Len(x)
    PROVE  /\ SubSeq(x, 1, k) \in Seq(S) /\ x[k + 1] \in S
           /\ SubSeq(x, 1, k + 1) = Append(SubSeq(x, 1, k), x[k + 1])
<1> DEFINE a == SubSeq(x, 1, k)
           b == SubSeq(x, 1, k + 1)
<1>1. k <= Len(x) /\ Len(x) \in Nat /\ x[k + 1] \in S
  OBVIOUS
<1>2. /\ a \in Seq(S) /\ Len(a) = k /\ \A i \in 1 .. k : a[i] = x[i]
      /\ b \in Seq(S) /\ Len(b) = k + 1 /\ \A i \in 1 .. k + 1 : b[i] = x[i]
  <2>1. 0 + k <= Len(x) /\ 0 + (k + 1) <= Len(x) /\ 0 \in Nat /\ k + 1 \in Nat /\ 0 + 1 = 1 /\ 0 + k = k /\ 0 + (k + 1) = k + 1
    BY <1>1
  <2>2. /\ SubSeq(x, 0 + 1, 0 + k) \in Seq(S) /\ Len(SubSeq(x, 0 + 1, 0 + k)) = k
        /\ \A i \in 1 .. k : SubSeq(x, 0 + 1, 0 + k)[i] = x[0 + i]
    BY <2>1, SubSeqFacts
  <2>3. /\ SubSeq(x, 0 + 1, 0 + (k + 1)) \in Seq(S) /\ Len(SubSeq(x, 0 + 1, 0 + (k + 1))) = k + 1
        /\ \A i \in 1 .. k + 1 : SubSeq(x, 0 + 1, 0 + (k + 1))[i] = x[0 + i]
    BY <2>1, SubSeqFacts
  <2>4. \A i \in 1 .. k + 1 : 0 + i = i
    OBVIOUS
  <2> QED BY <2>1, <2>2, <2>3, <2>4
<1> HIDE DEF a, b
<1>3. /\ Append(a, x[k + 1]) \in Seq(S) /\ Len(Append(a, x[k + 1])) = k + 1
      /\ \A i \in 1 .. k + 1 : Append(a, x[k + 1])[i] = x[i]
  BY <1>1, <1>2
<1>4. b = Append(a, x[k + 1])
  BY <1>2, <1>3, SameElements
<1> QED BY <1>1, <1>2, <1>4 DEF a, b

\* The letters of a text, decoded one by one, then the padding.
LEMMA LettersDecoded ==
    ASSUME NEW s \in Seq(Octet)
    PROVE  Base64(s) \in Seq(Octet) /\ Decode(Base64(s)).out = s
<1> DEFINE n == Len(s)
           digits == (8 * n + 5) \div 6
           m == 4 * ((digits + 3) \div 4)
           x == Base64(s)
           D(k) == Decode(SubSeq(x, 1, k))
<1>1. n \in Nat /\ digits \in Nat /\ m \in Nat /\ digits <= m
      /\ 8 * n <= 6 * digits /\ 6 * digits <= 8 * n + 5
      /\ \A k \in Nat : k < digits => 6 * k < 8 * n
  OBVIOUS
<1>2. x = [ k \in 1 .. m |-> IF k > digits THEN 61 ELSE Ascii(Sextet(s, 6 * (k - 1))) ]
  BY Zenon DEF Base64
<1>3. ASSUME NEW k \in Nat PROVE Sextet(s, 6 * k) \in 0 .. 63
  BY SextetRange
<1> HIDE DEF n, digits, m
<1>4. x \in Seq(Octet) /\ Len(x) = m
  <2>1. ASSUME NEW k \in 1 .. m
        PROVE  (IF k > digits THEN 61 ELSE Ascii(Sextet(s, 6 * (k - 1)))) \in Octet
    <3>1. CASE k > digits
      BY <3>1, Alphabet
    <3>2. CASE ~(k > digits)
      <4>1. k - 1 \in Nat /\ k - 1 < digits
        BY <1>1, <3>2
      <4>2. Sextet(s, 6 * (k - 1)) \in 0 .. 63
        BY <1>3, <4>1
      <4> QED BY <3>2, <4>2, Alphabet
    <3> QED BY <3>1, <3>2
  <2> QED BY <1>1, <1>2, <2>1
<1>5. ASSUME NEW k \in 1 .. m PROVE x[k] = IF k > digits THEN 61 ELSE Ascii(Sextet(s, 6 * (k - 1)))
  BY <1>2
<1> HIDE DEF x
<1> DEFINE T == { k \in Nat : k <= digits => Progress(D(k), s, k) }
<1>6. 0 \in T
  <2>1. SubSeq(x, 1, 0) = <<>>
    BY <1>4
  <2>2. D(0) = Fresh
    BY <2>1, DecodeNone
  <2>3. Progress(Fresh, s, 0)
    <3>1. Fresh \in Decoding /\ Fresh.acc = 0 /\ Fresh.bits = 0 /\ Fresh.out = <<>>
      BY FreshIs
    <3>2. Len(<<>>) = 0 /\ 1 .. 0 = {}
      OBVIOUS
    <3>3. Begins(<<>>, s) /\ 8 * 0 + 0 = 6 * 0
      BY <3>2 DEF Begins
    <3> QED BY <3>1, <3>2, <3>3 DEF Progress
  <2> QED BY <2>2, <2>3
<1>7. ASSUME NEW k \in T PROVE k + 1 \in T
  <2>1. CASE k + 1 <= digits
    <3>1. k \in Nat /\ k <= digits /\ k < digits /\ k + 1 <= m /\ k + 1 \in 1 .. m /\ (k + 1) - 1 = k /\ ~(k + 1 > digits)
      BY <1>1, <2>1
    <3>2. Progress(D(k), s, k) /\ 6 * k < 8 * n
      BY <1>1, <3>1
    <3>3. x[k + 1] = Ascii(Sextet(s, 6 * k))
      BY <1>5, <3>1
    <3>4. SubSeq(x, 1, k) \in Seq(Octet) /\ x[k + 1] \in Octet /\ SubSeq(x, 1, k + 1) = Append(SubSeq(x, 1, k), x[k + 1])
      BY <1>4, <3>1, SubSeqMore
    <3>5. D(k + 1) = Take(D(k), Ascii(Sextet(s, 6 * k)))
      BY <3>3, <3>4, DecodeMore
    <3>6. Progress(D(k + 1), s, k + 1)
      <4> HIDE DEF D
      <4> QED BY <3>1, <3>2, <3>5, ProgressStep DEF n
    <3> QED BY <3>1, <3>6
  <2>2. CASE ~(k + 1 <= digits)
    BY <2>2
  <2> QED BY <2>1, <2>2
<1>8. T = Nat
  <2> HIDE DEF T
  <2>1. T \subseteq Nat
    BY DEF T
  <2> QED BY <1>6, <1>7, <2>1, Induct
<1>9. D(digits).out = s
  <2>1. digits \in T /\ digits <= digits
    <3> HIDE DEF T
    <3> QED BY <1>1, <1>8
  <2>2. Progress(D(digits), s, digits)
    BY <2>1
  <2> DEFINE st == D(digits)
  <2> HIDE DEF st
  <2>3. /\ st \in Decoding /\ 8 * Len(st.out) + st.bits = 6 * digits
        /\ \A i \in 1 .. Len(st.out) : i <= Len(s) /\ st.out[i] = s[i]
    BY <2>2 DEF Progress, Begins, st
  <2>4. st.out \in Seq(Octet) /\ st.bits \in {0, 2, 4, 6} /\ Len(st.out) \in Nat
    BY <2>3, StateIs DEF Spare
  <2>5. Len(st.out) = n
    <3>1. Len(st.out) <= n
      <4>1. CASE Len(st.out) = 0
        BY <1>1, <4>1
      <4>2. CASE Len(st.out) # 0
        <5>1. Len(st.out) \in 1 .. Len(st.out)
          BY <2>4, <4>2
        <5> QED BY <2>3, <5>1 DEF n
      <4> QED BY <4>1, <4>2
    <3>2. 8 * n <= 8 * Len(st.out) + 6
      BY <1>1, <2>3, <2>4
    <3> QED BY <1>1, <2>4, <3>1, <3>2
  <2>6. st.out = s
    BY <2>3, <2>4, <2>5, SameElements DEF n
  <2> QED BY <2>6 DEF st
<1> HIDE DEF T
<1> DEFINE U == { k \in Nat : digits + k <= m => D(digits + k).out = s }
<1>10. 0 \in U
  <2>1. digits + 0 = digits
    BY <1>1
  <2> QED BY <1>9, <2>1
<1>11. ASSUME NEW k \in U PROVE k + 1 \in U
  <2>1. CASE digits + (k + 1) <= m
    <3> DEFINE j == digits + k
    <3>1. k \in Nat /\ j \in Nat /\ j <= m /\ digits + (k + 1) = j + 1 /\ j + 1 \in 1 .. m /\ j + 1 > digits /\ j + 1 <= m
      BY <1>1, <2>1
    <3>2. D(j).out = s
      BY <3>1
    <3> HIDE DEF j
    <3>3. x[j + 1] = 61 /\ val(61) = -1
      BY <1>5, <3>1, Alphabet
    <3>4. SubSeq(x, 1, j) \in Seq(Octet) /\ x[j + 1] \in Octet /\ SubSeq(x, 1, j + 1) = Append(SubSeq(x, 1, j), x[j + 1])
      BY <1>4, <3>1, SubSeqMore
    <3>5. D(j + 1) = Take(D(j), 61)
      <4>1. Decode(Append(SubSeq(x, 1, j), x[j + 1])) = Take(Decode(SubSeq(x, 1, j)), x[j + 1])
        BY <3>4, DecodeMore
      <4> QED BY <3>3, <3>4, <4>1, Zenon
    <3>6. Take(D(j), 61) = D(j)
      BY <3>3, Zenon DEF Take
    <3> QED BY <3>1, <3>2, <3>5, <3>6
  <2>2. CASE ~(digits + (k + 1) <= m)
    BY <2>2
  <2> QED BY <2>1, <2>2
<1>12. U = Nat
  <2> HIDE DEF U
  <2>1. U \subseteq Nat
    BY DEF U
  <2> QED BY <1>10, <1>11, <2>1, Induct
<1>13. D(m).out = s
  <2>1. m - digits \in U /\ digits + (m - digits) = m /\ m <= m
    <3> HIDE DEF U
    <3> QED BY <1>1, <1>12
  <2> QED BY <2>1
<1>14. SubSeq(x, 1, m) = x
  BY <1>4
<1> QED BY <1>4, <1>13, <1>14 DEF x

\* Line breaks are skipped.
LEMMA LinesDecoded ==
    ASSUME NEW x \in Seq(Octet)
    PROVE  Decode(Lines(x)) = Decode(x)
<1> DEFINE n == Len(x)
           p == [ i \in 1 .. n |-> IF i % 4 = 0 THEN <<x[i], 13, 10>> ELSE <<x[i]>> ]
           S == Seq(Octet)
           A(k) == FlattenSeq(SubSeq(p, 1, k))
           B(k) == SubSeq(x, 1, k)
           T == { k \in Nat : k <= n => Decode(A(k)) = Decode(B(k)) }
<1>1. Lines(x) = FlattenSeq(p)
  BY Zenon DEF Lines
<1>2. n \in Nat /\ \A i \in 1 .. n : x[i] \in Octet
  OBVIOUS
<1>3. 13 \in Octet /\ 10 \in Octet /\ val(13) = -1 /\ val(10) = -1
  BY Alphabet
<1>4. p \in Seq(S) /\ Len(p) = n /\ \A i \in 1 .. n : p[i] = IF i % 4 = 0 THEN <<x[i], 13, 10>> ELSE <<x[i]>>
  <2>1. ASSUME NEW i \in 1 .. n PROVE (IF i % 4 = 0 THEN <<x[i], 13, 10>> ELSE <<x[i]>>) \in S
    <3>1. x[i] \in Octet
      BY <1>2
    <3>2. <<x[i], 13, 10>> \in S /\ <<x[i]>> \in S
      BY <1>3, <3>1
    <3> QED BY <3>2
  <2> HIDE DEF S
  <2> QED BY <1>2, <2>1
<1> HIDE DEF p, n
<1>5. 0 \in T
  <2>1. SubSeq(p, 1, 0) = <<>> /\ SubSeq(x, 1, 0) = <<>>
    BY <1>4
  <2>2. A(0) = B(0)
    BY <2>1, FlattenNone
  <2> QED BY <2>2
<1>6. ASSUME NEW k \in T PROVE k + 1 \in T
  <2>1. CASE k + 1 <= n
    <3>1. k \in Nat /\ k <= n /\ k + 1 \in 1 .. n
      BY <1>2, <2>1
    <3>2. Decode(A(k)) = Decode(B(k))
      BY <3>1
    <3>3. B(k) \in Seq(Octet) /\ x[k + 1] \in Octet /\ B(k + 1) = Append(B(k), x[k + 1])
      BY <1>2, <2>1, <3>1, SubSeqMore DEF n
    <3>4. SubSeq(p, 1, k) \in Seq(S) /\ p[k + 1] \in S /\ SubSeq(p, 1, k + 1) = Append(SubSeq(p, 1, k), p[k + 1])
      <4>1. k + 1 <= Len(p)
        BY <1>4, <2>1
      <4> HIDE DEF S
      <4> QED BY <1>4, <3>1, <4>1, SubSeqMore
    <3>5. A(k) \in S /\ A(k + 1) = A(k) \o p[k + 1]
      BY <3>4, FlattenPiece, FlattenTyped
    <3> DEFINE a == A(k)
               c == x[k + 1]
    <3>6. Decode(B(k + 1)) = Take(Decode(a), c)
      BY <3>2, <3>3, DecodeMore
    <3> HIDE DEF A, B, a, c
    <3>7. a \in Seq(Octet) /\ c \in Octet
      BY <3>3, <3>5 DEF a, c
    <3>8. Decode(Append(a, c)) = Take(Decode(a), c) /\ Append(a, c) \in Seq(Octet)
      BY <3>7, DecodeMore
    <3>9. CASE (k + 1) % 4 = 0
      <4> DEFINE a1 == Append(a, c)
                 a2 == Append(a1, 13)
                 a3 == Append(a2, 10)
      <4>1. A(k + 1) = a \o <<c, 13, 10>>
        BY <1>4, <3>1, <3>5, <3>9 DEF a, c
      <4>2. a \o <<c, 13, 10>> = a3
        BY <3>7
      <4>3. a1 \in Seq(Octet) /\ a2 \in Seq(Octet)
        BY <1>3, <3>8
      <4> HIDE DEF a1, a2
      <4>4. Decode(a2) = Take(Decode(a1), 13) /\ Decode(a3) = Take(Decode(a2), 10)
        BY <1>3, <4>3, DecodeMore DEF a2
      <4>5. Take(Decode(a1), 13) = Decode(a1) /\ Take(Decode(a2), 10) = Decode(a2)
        BY <1>3, Zenon DEF Take
      <4>6. Decode(A(k + 1)) = Decode(B(k + 1))
        BY <3>6, <3>8, <4>1, <4>2, <4>4, <4>5 DEF a1
      <4> QED BY <3>1, <4>6
    <3>10. CASE (k + 1) % 4 # 0
      <4>1. A(k + 1) = a \o <<c>>
        BY <1>4, <3>1, <3>5, <3>10 DEF a, c
      <4>2. a \o <<c>> = Append(a, c)
        BY <3>7
      <4>3. Decode(A(k + 1)) = Decode(B(k + 1))
        BY <3>6, <3>8, <4>1, <4>2
      <4> QED BY <3>1, <4>3
    <3> QED BY <3>9, <3>10
  <2>2. CASE ~(k + 1 <= n)
    BY <2>2
  <2> QED BY <2>1, <2>2
<1>7. T = Nat
  <2> HIDE DEF T
  <2>1. T \subseteq Nat
    BY DEF T
  <2> QED BY <1>5, <1>6, <2>1, Induct
<1>8. Decode(A(n)) = Decode(B(n))
  <2>1. n \in T /\ n <= n
    <3> HIDE DEF T
    <3> QED BY <1>2, <1>7
  <2> HIDE DEF A, B
  <2> QED BY <2>1
<1>9. SubSeq(p, 1, n) = p /\ SubSeq(x, 1, n) = x
  <2> HIDE DEF S
  <2> QED BY <1>4 DEF n
<1> QED BY <1>1, <1>8, <1>9

\* Samples of any length come out of their base64 as they went in, in one line
\* or broken into many.
THEOREM Base64RoundTrip ==
    \A s \in Seq(Octet) : decode_base64(Base64(s)) = s /\ decode_base64(Lines(Base64(s))) = s
<1>1. ASSUME NEW input PROVE decode_base64(input) = Decode(input).out
  BY Zenon DEF decode_base64, Decode, Take, Fresh
<1>2. ASSUME NEW s \in Seq(Octet)
      PROVE  decode_base64(Base64(s)) = s /\ decode_base64(Lines(Base64(s))) = s
  BY <1>1, LettersDecoded, LinesDecoded
<1> QED BY <1>2

\* The bytes of an audio.chunk are bytes.
Sampled == subject = "audio" => item \in Seq(Octet)

\* See AudioDecoded.
THEOREM AudioHeard == Spec => []AudioDecoded
<1>1. Init => Sampled
  BY DEF Init, Sampled
<1>2. Sampled /\ [Next]_vars => Sampled'
  <2> SUFFICES ASSUME Sampled, [Next]_vars PROVE Sampled'
    OBVIOUS
  <2>1. CASE AddByte
    <3>1. subject' = subject /\ \E s \in {<<0>>, <<255>>, <<77>>, <<128>>} : item' = item \o s
      BY <2>1 DEF AddByte, Longer
    <3>2. PICK s : s \in {<<0>>, <<255>>, <<77>>, <<128>>} /\ item' = item \o s
      BY <3>1
    <3>3. PICK b : b \in {0, 255, 77, 128} /\ s = <<b>>
      BY <3>2
    <3>4. b \in Octet
      BY <3>3 DEF Octet
    <3> QED BY <3>1, <3>2, <3>3, <3>4 DEF Sampled
  <2>2. CASE AddMember \/ AddSymbol \/ AddChar \/ Configure \/ AddCertificate \/ AddExtension
    BY <2>2 DEF AddMember, AddSymbol, AddChar, Longer, Configure, AddCertificate, AddExtension, Sampled
  <2>3. CASE UNCHANGED vars
    BY <2>3 DEF vars, Sampled
  <2> QED BY <2>1, <2>2, <2>3 DEF Next
<1>3. Sampled => AudioDecoded
  BY Base64RoundTrip DEF Sampled, AudioDecoded
<1> QED BY <1>1, <1>2, <1>3, PTL DEF Spec

-----------------------------------------------------------------------------
(* The scanner.                                                            *)

\* Where the string ends that goes on at j, for every j, as scan_string finds it.
Ends(p) ==
    CHOOSE f : f = [ j \in 1 .. Len(p) + 2 |->
        CASE j > Len(p)   -> Nowhere
          [] At(p, j, Bs) -> f[j + 2]
          [] At(p, j, Quote) -> j + 1
          [] OTHER -> f[j + 1] ]

\* See Ends.
LEMMA ScanString == \A p, i : scan_string(p, i) = IF At(p, i, Quote) THEN Ends(p)[i + 1] ELSE Nowhere
BY Zenon DEF scan_string, Ends

\* The recursion, and that an end is behind a quote.
LEMMA EndsIs ==
    ASSUME NEW S, NEW p \in Seq(S)
    PROVE  /\ \A j \in 1 .. Len(p) : Ends(p)[j] = IF p[j] = Bs THEN Ends(p)[j + 2]
                                                  ELSE IF p[j] = Quote THEN j + 1 ELSE Ends(p)[j + 1]
           /\ Ends(p)[Len(p) + 1] = Nowhere /\ Ends(p)[Len(p) + 2] = Nowhere
<1> DEFINE n == Len(p)
           D == 1 .. n + 2
           A == Nat
           Rec(f) == [ j \in 1 .. Len(p) + 2 |->
                         CASE j > Len(p)   -> Nowhere
                           [] At(p, j, Bs) -> f[j + 2]
                           [] At(p, j, Quote) -> j + 1
                           [] OTHER -> f[j + 1] ]
           Body(x, g) == IF x > n THEN Nowhere ELSE IF p[x] = Bs THEN g[x + 2]
                         ELSE IF p[x] = Quote THEN x + 1 ELSE g[x + 1]
           m == [ x \in D |-> (n + 2) - x ]
           step == [ x \in D |-> [ g \in [ D -> A ] |-> Body(x, g) ] ]
<1>1. n \in Nat /\ Quote # Bs /\ Nowhere \in A /\ n + 2 \in Nat
  BY DEF Quote, Bs, Nowhere
<1>2. ASSUME NEW j \in D, NEW f
      PROVE  (CASE j > Len(p)   -> Nowhere
                [] At(p, j, Bs) -> f[j + 2]
                [] At(p, j, Quote) -> j + 1
                [] OTHER -> f[j + 1]) = Body(j, f)
  <2>1. At(p, j, Bs) <=> j <= n /\ p[j] = Bs
    BY DEF At
  <2>2. At(p, j, Quote) <=> j <= n /\ p[j] = Quote
    BY DEF At
  <2>3. j > n <=> ~(j <= n)
    BY <1>1
  <2> QED BY <1>1, <2>1, <2>2, <2>3
<1>3. \A f : Rec(f) = [ j \in D |-> Body(j, f) ]
  <2> HIDE DEF Body
  <2> QED BY <1>2
<1> HIDE DEF n, Rec
<1>4. \A x \in D, g \in [ D -> A ] : Body(x, g) \in A
  <2>1. ASSUME NEW x \in D, NEW g \in [ D -> A ], x <= n PROVE x + 1 \in D /\ x + 2 \in D /\ x \in Nat
    BY <1>1, <2>1
  <2> QED BY <1>1, <2>1
<1>5. step \in [ D -> [ [ D -> A ] -> A ] ]
  <2> HIDE DEF Body, A
  <2> QED BY <1>4
<1>6. Local(step, D, m)
  <2>1. ASSUME NEW x \in D, NEW f \in [ D -> A ], NEW g \in [ D -> A ], \A y \in D : m[y] < m[x] => f[y] = g[y]
        PROVE  Body(x, f) = Body(x, g)
    <3>1. CASE x <= n
      <4>1. x + 1 \in D /\ x + 2 \in D /\ m[x + 1] < m[x] /\ m[x + 2] < m[x]
        BY <1>1, <3>1
      <4>2. f[x + 1] = g[x + 1] /\ f[x + 2] = g[x + 2]
        BY <2>1, <4>1
      <4> QED BY <4>2
    <3>2. CASE ~(x <= n)
      BY <1>1, <3>2
    <3> QED BY <3>1, <3>2
  <2> HIDE DEF Body, A, m, D
  <2>2. \A x \in D : DOMAIN step[x] = [ D -> A ] /\ \A f \in [ D -> A ] : step[x][f] = Body(x, f)
    OBVIOUS
  <2> HIDE DEF step
  <2> QED BY <2>1, <2>2 DEF Local
<1>7. m \in [ D -> 0 .. n + 2 ]
  BY <1>1
<1>8. PICK f \in [ D -> A ] : \A x \in D : f[x] = step[x][f]
  <2> HIDE DEF m, D, step
  <2>1. Recursive(step, D, A, Nowhere, m, n + 2)
    BY <1>1, <1>5, <1>6, <1>7 DEF Recursive
  <2> QED BY <2>1, Recursion
<1>9. f = Rec(f)
  <2>1. \A x \in D : f[x] = Body(x, f)
    <3> HIDE DEF D, Body
    <3> QED BY <1>8
  <2> HIDE DEF Body
  <2> QED BY <1>3, <1>8, <2>1
<1>10. Ends(p) = Rec(Ends(p))
  <2>1. Ends(p) = CHOOSE h : h = Rec(h)
    BY Zenon DEF Ends, Rec
  <2> QED BY <1>9, <2>1
<1>11. \A j \in D : Ends(p)[j] = Body(j, Ends(p))
  <2> HIDE DEF Body
  <2> QED BY <1>3, <1>10
<1> QED BY <1>1, <1>11 DEF n

\* An end is behind a quote.
LEMMA EndsTyped ==
    ASSUME NEW S, NEW p \in Seq(S)
    PROVE  \A j \in 1 .. Len(p) + 2 :
              LET e == Ends(p)[j]
              IN e = Nowhere \/ (e \in Nat /\ j < e /\ e <= Len(p) + 1 /\ p[e - 1] = Quote)
<1> DEFINE n == Len(p)
           D == 1 .. n + 2
           m == [ x \in D |-> (n + 2) - x ]
           Fine(j) == LET e == Ends(p)[j]
                      IN e = Nowhere \/ (e \in Nat /\ j < e /\ e <= n + 1 /\ p[e - 1] = Quote)
           T == { j \in D : Fine(j) }
<1>1. n \in Nat /\ m \in [ D -> Nat ]
  OBVIOUS
<1>2. /\ \A j \in 1 .. n : Ends(p)[j] = IF p[j] = Bs THEN Ends(p)[j + 2]
                                        ELSE IF p[j] = Quote THEN j + 1 ELSE Ends(p)[j + 1]
      /\ Ends(p)[n + 1] = Nowhere /\ Ends(p)[n + 2] = Nowhere
  BY EndsIs
<1> HIDE DEF n
<1>3. ASSUME NEW x \in D, \A y \in D : m[y] < m[x] => y \in T PROVE x \in T
  <2>1. CASE x \in 1 .. n
    <3>1. x + 1 \in D /\ x + 2 \in D /\ m[x + 1] < m[x] /\ m[x + 2] < m[x] /\ x \in Nat
      BY <1>1, <2>1
    <3>2. Fine(x + 1) /\ Fine(x + 2)
      BY <1>3, <3>1
    <3>3. (x + 1) - 1 = x
      BY <3>1
    <3>4. Fine(x)
      BY <1>1, <1>2, <2>1, <3>1, <3>2, <3>3
    <3> QED BY <3>4
  <2>2. CASE ~(x \in 1 .. n)
    <3>1. x = n + 1 \/ x = n + 2
      BY <1>1, <2>2
    <3> QED BY <1>2, <3>1
  <2> QED BY <2>1, <2>2
<1>4. \A x \in D : x \in T
  <2> HIDE DEF T, D, m
  <2> QED BY <1>1, <1>3, Descend
<1> QED BY <1>4 DEF n

\* The first of some positions, or the one behind them.
LEMMA Earliest ==
    ASSUME NEW n \in Nat, NEW i \in 1 .. n + 1, NEW X \in SUBSET (i .. n)
    PROVE  LET j == Min(X \union {n + 1})
           IN j \in i .. n + 1 /\ (j <= n => j \in X) /\ (\A k \in X : j <= k) /\ (X = {} => j = n + 1)
<1> DEFINE T == X \union {n + 1}
           j == Min(T)
<1>1. T \subseteq Nat /\ T # {} /\ \A k \in T : k \in i .. n + 1
  OBVIOUS
<1>2. j \in T /\ \A k \in T : j <= k
  BY <1>1, MinOf
<1> HIDE DEF j
<1>3. j \in i .. n + 1 /\ (j <= n => j \in X) /\ (\A k \in X : j <= k) /\ (X = {} => j = n + 1)
  BY <1>1, <1>2
<1> QED BY <1>3 DEF j

\* Where the run of elements of X that begins at i ends.
Past(p, i, X) == Min({ j \in i .. Len(p) : p[j] \notin X } \union {Len(p) + 1})

\* See Past.
LEMMA PastIs ==
    ASSUME NEW S, NEW p \in Seq(S), NEW i \in 1 .. Len(p) + 1, NEW X
    PROVE  /\ Past(p, i, X) \in i .. Len(p) + 1
           /\ Past(p, i, X) <= Len(p) => p[Past(p, i, X)] \notin X
           /\ \A k \in i .. Past(p, i, X) - 1 : p[k] \in X
<1> DEFINE Y == { k \in i .. Len(p) : p[k] \notin X }
           j == Past(p, i, X)
<1>1. Len(p) \in Nat /\ Y \in SUBSET (i .. Len(p)) /\ j = Min(Y \union {Len(p) + 1})
  BY DEF Past
<1> HIDE DEF j, Y
<1>2. j \in i .. Len(p) + 1 /\ (j <= Len(p) => j \in Y) /\ (\A k \in Y : j <= k)
  BY <1>1, Earliest
<1>3. ASSUME NEW k \in i .. j - 1 PROVE p[k] \in X
  <2>1. k \in i .. Len(p) /\ ~(j <= k)
    BY <1>1, <1>2
  <2> QED BY <1>2, <2>1 DEF Y
<1>4. j <= Len(p) => p[j] \notin X
  BY <1>2 DEF Y
<1> QED BY <1>2, <1>3, <1>4 DEF j

\* Where a run ends is the first place that is not in X.
LEMMA PastTo ==
    ASSUME NEW S, NEW p \in Seq(S), NEW i \in 1 .. Len(p) + 1, NEW X, NEW j \in i .. Len(p) + 1,
           j <= Len(p) => p[j] \notin X, \A k \in i .. j - 1 : p[k] \in X
    PROVE  Past(p, i, X) = j
<1> DEFINE r == Past(p, i, X)
<1>1. /\ r \in i .. Len(p) + 1 /\ (r <= Len(p) => p[r] \notin X) /\ (\A k \in i .. r - 1 : p[k] \in X)
      /\ Len(p) \in Nat /\ i \in Nat
  BY PastIs
<1> HIDE DEF r
<1>2. ~(r < j)
  <2>1. r < j => r \in i .. j - 1 /\ r <= Len(p)
    BY <1>1
  <2> QED BY <1>1, <2>1
<1>3. ~(j < r)
  <2>1. j < r => j \in i .. r - 1 /\ j <= Len(p)
    BY <1>1
  <2> QED BY <1>1, <2>1
<1>4. r = j
  BY <1>1, <1>2, <1>3
<1> QED BY <1>4 DEF r

\* White space is skipped.
LEMMA SkipIs == \A p, i : skip_ws(p, i) = IF Past(p, i, Blank) > Len(p) THEN Nowhere ELSE Past(p, i, Blank)
BY Zenon DEF skip_ws, From, Past

\* See SkipIs.
LEMMA SkipTyped ==
    ASSUME NEW S, NEW p \in Seq(S), NEW i \in 1 .. Len(p) + 1
    PROVE  skip_ws(p, i) = Nowhere \/ skip_ws(p, i) \in i .. Len(p)
<1>1. Past(p, i, Blank) \in i .. Len(p) + 1 /\ Len(p) \in Nat /\ i \in Nat
  BY PastIs
<1>2. skip_ws(p, i) = IF Past(p, i, Blank) > Len(p) THEN Nowhere ELSE Past(p, i, Blank)
  BY SkipIs
<1> QED BY <1>1, <1>2

\* What a value that is no string, number or word begins with, and the words.
Opens == {"{", "["}
Words == {"true", "false", "null"}

\* A quote, an open bracket and a word are not each other.
LEMMA Kinds == Quote \notin Opens /\ Quote \notin Words /\ Opens \cap Words = {}
BY Zenon DEF Quote, Opens, Words

\* A number ends where its symbols do.
LEMMA ScanValue ==
    \A p, i : scan_value(p, i) =
        IF p[i] = Quote THEN scan_string(p, i)
        ELSE IF p[i] \in Opens THEN scan_nested(p, i)
        ELSE IF p[i] \in Words THEN i + 1
        ELSE IF Past(p, i, InNumber) > i THEN Past(p, i, InNumber) ELSE Nowhere
<1> TAKE p, i
<1>1. scan_value(p, i) =
        CASE p[i] = Quote -> scan_string(p, i)
         [] p[i] \in Opens -> scan_nested(p, i)
         [] p[i] \in Words -> i + 1
         [] OTHER -> IF Past(p, i, InNumber) > i THEN Past(p, i, InNumber) ELSE Nowhere
  BY Zenon DEF scan_value, From, Past, Opens, Words
<1> QED BY <1>1, Kinds

\* Where the value ends that goes on at at[1], at[2] brackets deep.
Nests(p, open, close) ==
    CHOOSE f : f = [ at \in (1 .. Len(p) + 1) \X Int |->
        LET j == at[1]
            depth == at[2]
        IN CASE j > Len(p) -> Nowhere
             [] At(p, j, Quote) ->
                   IF scan_string(p, j) = Nowhere THEN Nowhere ELSE f[<<scan_string(p, j), depth>>]
             [] At(p, j, open) -> f[<<j + 1, depth + 1>>]
             [] At(p, j, close) -> IF depth = 1 THEN j + 1 ELSE f[<<j + 1, depth - 1>>]
             [] OTHER -> f[<<j + 1, depth>>] ]
Closing(open) == IF open = "{" THEN "}" ELSE "]"

\* What closes is not what opens.
LEMMA Brackets == \A o \in Opens : o # Quote /\ Closing(o) # o /\ Closing(o) # Quote
BY Zenon DEF Closing, Quote, Opens

\* See Nests.
LEMMA ScanNested == \A p, i : scan_nested(p, i) = Nests(p, p[i], Closing(p[i]))[<<i, 0>>]
BY Zenon DEF scan_nested, Nests, Closing

\* A value ends behind where it goes on.
Onward(p, N) ==
    \A j \in 1 .. Len(p) + 1, depth \in Int : N[<<j, depth>>] = Nowhere \/ N[<<j, depth>>] \in j + 1 .. Len(p) + 1

\* The recursion over the places of a value.
Counts(p, open, close, N) ==
    \A j \in 1 .. Len(p) + 1, depth \in Int :
        N[<<j, depth>>] =
            IF j > Len(p) THEN Nowhere
            ELSE IF p[j] = Quote
            THEN (IF scan_string(p, j) = Nowhere THEN Nowhere ELSE N[<<scan_string(p, j), depth>>])
            ELSE IF p[j] = open THEN N[<<j + 1, depth + 1>>]
            ELSE IF p[j] = close THEN (IF depth = 1 THEN j + 1 ELSE N[<<j + 1, depth - 1>>])
            ELSE N[<<j + 1, depth>>]

\* See Counts.
LEMMA NestsIs ==
    ASSUME NEW S, NEW p \in Seq(S), NEW open, NEW close, open # close, open # Quote, close # Quote
    PROVE  Onward(p, Nests(p, open, close)) /\ Counts(p, open, close, Nests(p, open, close))
<1> DEFINE n == Len(p)
           D == (1 .. n + 1) \X Int
           A == Nat
           Rec(f) == [ at \in (1 .. Len(p) + 1) \X Int |->
                LET j == at[1]
                    depth == at[2]
                IN CASE j > Len(p) -> Nowhere
                     [] At(p, j, Quote) ->
                           IF scan_string(p, j) = Nowhere THEN Nowhere ELSE f[<<scan_string(p, j), depth>>]
                     [] At(p, j, open) -> f[<<j + 1, depth + 1>>]
                     [] At(p, j, close) -> IF depth = 1 THEN j + 1 ELSE f[<<j + 1, depth - 1>>]
                     [] OTHER -> f[<<j + 1, depth>>] ]
           e(j) == scan_string(p, j)
           Body(j, d, f) == IF j > n THEN Nowhere
                            ELSE IF p[j] = Quote THEN (IF e(j) = Nowhere THEN Nowhere ELSE f[<<e(j), d>>])
                            ELSE IF p[j] = open THEN f[<<j + 1, d + 1>>]
                            ELSE IF p[j] = close THEN (IF d = 1 THEN j + 1 ELSE f[<<j + 1, d - 1>>])
                            ELSE f[<<j + 1, d>>]
           m == [ at \in D |-> (n + 1) - at[1] ]
           step == [ at \in D |-> [ g \in [ D -> A ] |-> Body(at[1], at[2], g) ] ]
<1>1. n \in Nat /\ Nowhere \in A /\ n + 1 \in Nat
  BY DEF Nowhere
<1>2. ASSUME NEW j \in 1 .. n PROVE e(j) = Nowhere \/ e(j) \in j + 1 .. n + 1
  <2>1. j + 1 \in 1 .. Len(p) + 2 /\ j \in Nat
    BY <1>1
  <2>2. Ends(p)[j + 1] = Nowhere \/ (Ends(p)[j + 1] \in Nat /\ j + 1 < Ends(p)[j + 1] /\ Ends(p)[j + 1] <= Len(p) + 1)
    BY <2>1, EndsTyped
  <2>3. e(j) = Nowhere \/ e(j) = Ends(p)[j + 1]
    BY ScanString, Zenon
  <2> HIDE DEF e
  <2> QED BY <2>1, <2>2, <2>3
<1> HIDE DEF e
<1>3. ASSUME NEW j \in 1 .. n + 1, NEW d \in Int, NEW f
      PROVE  (CASE j > Len(p) -> Nowhere
                [] At(p, j, Quote) -> IF e(j) = Nowhere THEN Nowhere ELSE f[<<e(j), d>>]
                [] At(p, j, open) -> f[<<j + 1, d + 1>>]
                [] At(p, j, close) -> IF d = 1 THEN j + 1 ELSE f[<<j + 1, d - 1>>]
                [] OTHER -> f[<<j + 1, d>>]) = Body(j, d, f)
  <2>1. \A x : At(p, j, x) <=> j <= n /\ p[j] = x
    BY DEF At
  <2>2. j > n <=> ~(j <= n)
    BY <1>1
  <2> QED BY <1>1, <2>1, <2>2
<1>4. \A f : Rec(f) = [ at \in D |-> Body(at[1], at[2], f) ]
  <2> TAKE f
  <2>1. \A at \in D : at[1] \in 1 .. n + 1 /\ at[2] \in Int
    OBVIOUS
  <2> HIDE DEF Body, n
  <2> QED BY <1>3, <2>1 DEF n, e
<1> HIDE DEF n, Rec
<1>5. ASSUME NEW j \in 1 .. n + 1, NEW d \in Int, NEW f \in [ D -> A ] PROVE Body(j, d, f) \in A
  <2>1. CASE j > n
    BY <1>1, <2>1
  <2>2. CASE ~(j > n)
    <3>1. j \in 1 .. n /\ j + 1 \in 1 .. n + 1 /\ j + 1 \in Nat /\ d + 1 \in Int /\ d - 1 \in Int
      BY <1>1, <2>2
    <3>2. e(j) = Nowhere \/ e(j) \in 1 .. n + 1
      BY <1>1, <1>2, <3>1
    <3>3. \A i \in 1 .. n + 1, k \in Int : f[<<i, k>>] \in A
      OBVIOUS
    <3> HIDE DEF A
    <3> QED BY <1>1, <3>1, <3>2, <3>3 DEF A
  <2> QED BY <2>1, <2>2
<1>6. step \in [ D -> [ [ D -> A ] -> A ] ]
  <2>1. \A at \in D, g \in [ D -> A ] : Body(at[1], at[2], g) \in A
    <3>1. \A at \in D : at[1] \in 1 .. n + 1 /\ at[2] \in Int
      OBVIOUS
    <3> HIDE DEF Body, A, D
    <3> QED BY <1>5, <3>1
  <2> HIDE DEF Body, A, D
  <2> QED BY <2>1
<1>7. Local(step, D, m)
  <2>1. ASSUME NEW x \in D, NEW f \in [ D -> A ], NEW g \in [ D -> A ], \A y \in D : m[y] < m[x] => f[y] = g[y]
        PROVE  Body(x[1], x[2], f) = Body(x[1], x[2], g)
    <3>1. PICK j \in 1 .. n + 1, d \in Int : x = <<j, d>>
      OBVIOUS
    <3>2. ASSUME NEW i \in j + 1 .. n + 1, NEW k \in Int PROVE f[<<i, k>>] = g[<<i, k>>]
      <4>1. <<i, k>> \in D /\ m[<<i, k>>] = (n + 1) - i /\ m[x] = (n + 1) - j
        BY <1>1, <3>1
      <4>2. (n + 1) - i < (n + 1) - j
        BY <1>1, <3>1
      <4> QED BY <2>1, <4>1, <4>2
    <3>3. Body(j, d, f) = Body(j, d, g)
      <4>1. CASE j > n
        BY <4>1
      <4>2. CASE ~(j > n)
        <5>1. j \in 1 .. n /\ j + 1 \in j + 1 .. n + 1 /\ d + 1 \in Int /\ d - 1 \in Int
          BY <1>1, <4>2
        <5>2. e(j) = Nowhere \/ e(j) \in j + 1 .. n + 1
          BY <1>2, <5>1
        <5>3. /\ f[<<j + 1, d + 1>>] = g[<<j + 1, d + 1>>] /\ f[<<j + 1, d - 1>>] = g[<<j + 1, d - 1>>]
              /\ f[<<j + 1, d>>] = g[<<j + 1, d>>] /\ (e(j) # Nowhere => f[<<e(j), d>>] = g[<<e(j), d>>])
          BY <3>2, <5>1, <5>2
        <5> QED BY <5>3
      <4> QED BY <4>1, <4>2
    <3> HIDE DEF Body
    <3> QED BY <3>1, <3>3
  <2> HIDE DEF Body, A, m, D
  <2>2. \A x \in D : DOMAIN step[x] = [ D -> A ] /\ \A f \in [ D -> A ] : step[x][f] = Body(x[1], x[2], f)
    OBVIOUS
  <2> HIDE DEF step
  <2> QED BY <2>1, <2>2 DEF Local
<1>8. m \in [ D -> 0 .. n + 1 ]
  BY <1>1
<1>9. PICK f \in [ D -> A ] : \A x \in D : f[x] = step[x][f]
  <2> HIDE DEF m, D, step
  <2>1. Recursive(step, D, A, Nowhere, m, n + 1)
    BY <1>1, <1>6, <1>7, <1>8 DEF Recursive
  <2> QED BY <2>1, Recursion
<1>10. f = Rec(f)
  <2>1. \A x \in D : f[x] = Body(x[1], x[2], f)
    <3> HIDE DEF D, Body
    <3> QED BY <1>9
  <2> HIDE DEF Body, D
  <2> QED BY <1>4, <1>9, <2>1
<1> DEFINE N == Nests(p, open, close)
<1>11. N = Rec(N)
  <2>1. N = CHOOSE h : h = Rec(h)
    BY Zenon DEF Nests, Rec
  <2> HIDE DEF N
  <2> QED BY <1>10, <2>1
<1> HIDE DEF N
<1>12. ASSUME NEW j \in 1 .. n + 1, NEW d \in Int PROVE N[<<j, d>>] = Body(j, d, N)
  <2>1. <<j, d>> \in D /\ <<j, d>>[1] = j /\ <<j, d>>[2] = d
    OBVIOUS
  <2> HIDE DEF Body, D
  <2> QED BY <1>4, <1>11, <2>1
<1> DEFINE W(x) == N[x] = Nowhere \/ N[x] \in x[1] + 1 .. n + 1
           T == { x \in D : W(x) }
<1>13. ASSUME NEW x \in D, \A y \in D : m[y] < m[x] => y \in T PROVE x \in T
  <2>1. PICK j \in 1 .. n + 1, d \in Int : x = <<j, d>>
    OBVIOUS
  <2>2. ASSUME NEW i \in j + 1 .. n + 1, NEW k \in Int PROVE N[<<i, k>>] = Nowhere \/ N[<<i, k>>] \in j + 1 .. n + 1
    <3>1. <<i, k>> \in D /\ m[<<i, k>>] = (n + 1) - i /\ m[x] = (n + 1) - j
      BY <1>1, <2>1
    <3>2. (n + 1) - i < (n + 1) - j
      BY <1>1, <2>1
    <3>3. N[<<i, k>>] = Nowhere \/ N[<<i, k>>] \in i + 1 .. n + 1
      BY <1>13, <3>1, <3>2
    <3>4. i + 1 .. n + 1 \subseteq j + 1 .. n + 1
      BY <1>1
    <3> QED BY <3>3, <3>4
  <2>3. N[<<j, d>>] = Body(j, d, N)
    BY <1>12
  <2>4. N[<<j, d>>] = Nowhere \/ N[<<j, d>>] \in j + 1 .. n + 1
    <3>1. CASE j > n
      BY <2>3, <3>1
    <3>2. CASE ~(j > n)
      <4>1. j \in 1 .. n /\ j + 1 \in j + 1 .. n + 1 /\ d + 1 \in Int /\ d - 1 \in Int
        BY <1>1, <3>2
      <4>2. e(j) = Nowhere \/ e(j) \in j + 1 .. n + 1
        BY <1>2, <4>1
      <4> DEFINE F(y) == N[y] = Nowhere \/ N[y] \in j + 1 .. n + 1
      <4>3. F(<<j + 1, d + 1>>) /\ F(<<j + 1, d - 1>>) /\ F(<<j + 1, d>>) /\ (e(j) # Nowhere => F(<<e(j), d>>))
        BY <2>2, <4>1, <4>2
      <4> QED BY <2>3, <4>1, <4>3
    <3> QED BY <3>1, <3>2
  <2> QED BY <2>1, <2>4
<1>14. \A x \in D : x \in T
  <2>1. m \in [ D -> Nat ]
    BY <1>8
  <2> HIDE DEF T, D, m
  <2> QED BY <1>13, <2>1, Descend
<1>15. ASSUME NEW j \in 1 .. n + 1, NEW d \in Int
       PROVE  N[<<j, d>>] = Nowhere \/ N[<<j, d>>] \in j + 1 .. n + 1
  <2>1. <<j, d>> \in T /\ <<j, d>>[1] = j
    <3>1. <<j, d>> \in D /\ <<j, d>>[1] = j
      OBVIOUS
    <3> HIDE DEF T, D
    <3> QED BY <1>14, <3>1
  <2> QED BY <2>1
<1>16. Onward(p, N)
  BY <1>15 DEF n, Onward
<1>17. Counts(p, open, close, N)
  BY <1>12 DEF n, e, Counts
<1> QED BY <1>16, <1>17 DEF N

\* A string ends behind where it begins.
LEMMA StringTyped ==
    ASSUME NEW S, NEW p \in Seq(S), NEW j \in Nat
    PROVE  LET e == scan_string(p, j)
           IN e = Nowhere \/ /\ j \in 1 .. Len(p) /\ p[j] = Quote /\ e \in j + 2 .. Len(p) + 1
                             /\ e = Ends(p)[j + 1] /\ p[e - 1] = Quote
<1> DEFINE e == scan_string(p, j)
<1>1. e = IF At(p, j, Quote) THEN Ends(p)[j + 1] ELSE Nowhere
  BY ScanString, Zenon
<1>2. CASE At(p, j, Quote)
  <2>1. j \in 1 .. Len(p) /\ p[j] = Quote /\ j + 1 \in 1 .. Len(p) + 2 /\ Len(p) \in Nat
    BY <1>2 DEF At
  <2>2. LET x == Ends(p)[j + 1] IN x = Nowhere \/ (x \in Nat /\ j + 1 < x /\ x <= Len(p) + 1 /\ p[x - 1] = Quote)
    BY <2>1, EndsTyped
  <2>3. e = Ends(p)[j + 1]
    BY <1>1, <1>2
  <2> HIDE DEF e
  <2>4. e = Nowhere \/ (e \in j + 2 .. Len(p) + 1 /\ p[e - 1] = Quote)
    BY <2>1, <2>2, <2>3
  <2> QED BY <2>1, <2>3, <2>4 DEF e
<1> QED BY <1>1, <1>2

\* A value ends behind where it begins.
LEMMA ValueTyped ==
    ASSUME NEW S, NEW p \in Seq(S), NEW v \in 1 .. Len(p)
    PROVE  scan_value(p, v) = Nowhere \/ scan_value(p, v) \in v + 1 .. Len(p) + 1
<1> DEFINE e == scan_value(p, v)
           m == Past(p, v, InNumber)
<1>1. e = IF p[v] = Quote THEN scan_string(p, v)
          ELSE IF p[v] \in Opens THEN scan_nested(p, v)
          ELSE IF p[v] \in Words THEN v + 1
          ELSE IF m > v THEN m ELSE Nowhere
  BY ScanValue, Zenon
<1>2. v \in Nat /\ Len(p) \in Nat /\ v \in 1 .. Len(p) + 1
  OBVIOUS
<1>3. scan_string(p, v) = Nowhere \/ scan_string(p, v) \in v + 1 .. Len(p) + 1
  <2>1. scan_string(p, v) = Nowhere \/ scan_string(p, v) \in v + 2 .. Len(p) + 1
    BY <1>2, StringTyped
  <2> QED BY <1>2, <2>1
<1>4. p[v] \in Opens => scan_nested(p, v) = Nowhere \/ scan_nested(p, v) \in v + 1 .. Len(p) + 1
  <2> SUFFICES ASSUME p[v] \in Opens PROVE scan_nested(p, v) = Nowhere \/ scan_nested(p, v) \in v + 1 .. Len(p) + 1
    OBVIOUS
  <2> DEFINE open == p[v]
             close == Closing(open)
  <2>1. open # close /\ open # Quote /\ close # Quote
    BY Brackets
  <2>2. scan_nested(p, v) = Nests(p, open, close)[<<v, 0>>]
    BY ScanNested, Zenon
  <2> HIDE DEF open, close
  <2>3. Onward(p, Nests(p, open, close))
    BY <2>1, NestsIs
  <2>4. Nests(p, open, close)[<<v, 0>>] = Nowhere \/ Nests(p, open, close)[<<v, 0>>] \in v + 1 .. Len(p) + 1
    <3>1. 0 \in Int
      OBVIOUS
    <3> QED BY <1>2, <2>3, <3>1, Zenon DEF Onward
  <2> QED BY <2>2, <2>4
<1>5. m > v => m \in v + 1 .. Len(p) + 1
  <2>1. m \in v .. Len(p) + 1
    BY <1>2, PastIs
  <2> HIDE DEF m
  <2> QED BY <1>2, <2>1
<1>6. v + 1 \in v + 1 .. Len(p) + 1
  BY <1>2
<1> DEFINE F(x) == x = Nowhere \/ x \in v + 1 .. Len(p) + 1
<1>7. F(e)
  <2>1. F(scan_string(p, v)) /\ F(v + 1) /\ F(Nowhere) /\ (m > v => F(m)) /\ (p[v] \in Opens => F(scan_nested(p, v)))
    BY <1>3, <1>4, <1>5, <1>6
  <2> HIDE DEF e, m, F
  <2> QED BY <1>1, <2>1
<1> QED BY <1>7

-----------------------------------------------------------------------------
(* The entries of a payload.                                               *)

\* Where the parts of the entry are that is looked for from i on.
KeyAt(p, i)   == skip_ws(p, i)
KeyEnd(p, i)  == scan_string(p, KeyAt(p, i))
ColonAt(p, i) == skip_ws(p, KeyEnd(p, i))
ValAt(p, i)   == skip_ws(p, ColonAt(p, i) + 1)
ValEnd(p, i)  == scan_value(p, ValAt(p, i))
After(p, i)   == skip_ws(p, ValEnd(p, i))
\* Is there one, what is it, and is there another?
Has(p, i)   == KeyEnd(p, i) # Nowhere /\ At(p, ColonAt(p, i), ":") /\ ValAt(p, i) # Nowhere /\ ValEnd(p, i) # Nowhere
Entry(p, i) == [ key |-> SubSeq(p, KeyAt(p, i) + 1, KeyEnd(p, i) - 2), value |-> SubSeq(p, ValAt(p, i), ValEnd(p, i) - 1) ]
Goes(p, i)  == At(p, After(p, i), ",")

\* The entries that are found from i on.
Heads(p) ==
    CHOOSE f : f = [ i \in 1 .. Len(p) + 1 |->
            LET More(k) == IF At(p, k, ",") THEN f[k + 1] ELSE <<>>
                Value(key, v, end) ==
                    IF end = Nowhere THEN <<>>
                    ELSE <<[key |-> key, value |-> SubSeq(p, v, end - 1)]>> \o More(skip_ws(p, end))
                Colon(key, k) ==
                    LET v == skip_ws(p, k + 1)
                    IN IF At(p, k, ":") /\ v # Nowhere THEN Value(key, v, scan_value(p, v)) ELSE <<>>
                Key(j, end) ==
                    IF end = Nowhere THEN <<>> ELSE Colon(SubSeq(p, j + 1, end - 2), skip_ws(p, end))
                j == skip_ws(p, i)
            IN Key(j, scan_string(p, j)) ]

\* See Heads.
LEMMA EntriesIs ==
    \A p : Entries(p) = IF At(p, skip_ws(p, 1), "{") THEN Heads(p)[skip_ws(p, 1) + 1] ELSE <<>>
BY Zenon DEF Entries, Heads

\* The parts of an entry follow each other.
LEMMA HasTyped ==
    ASSUME NEW S, NEW p \in Seq(S), NEW i \in 1 .. Len(p) + 1, Has(p, i)
    PROVE  /\ KeyAt(p, i) \in i .. Len(p) /\ KeyEnd(p, i) \in KeyAt(p, i) + 2 .. Len(p) + 1
           /\ ColonAt(p, i) \in KeyEnd(p, i) .. Len(p) /\ p[ColonAt(p, i)] = ":"
           /\ ValAt(p, i) \in ColonAt(p, i) + 1 .. Len(p) /\ ValEnd(p, i) \in ValAt(p, i) + 1 .. Len(p) + 1
           /\ After(p, i) = Nowhere \/ After(p, i) \in ValEnd(p, i) .. Len(p)
           /\ Entry(p, i) \in [ key : Seq(S), value : Seq(S) ]
<1>1. PICK j, end, k, v, vend : /\ j = KeyAt(p, i) /\ end = KeyEnd(p, i) /\ k = ColonAt(p, i)
                                /\ v = ValAt(p, i) /\ vend = ValEnd(p, i)
  OBVIOUS
<1>2. Len(p) \in Nat /\ i \in Nat
  OBVIOUS
<1>3. end = scan_string(p, j) /\ end # Nowhere /\ k = skip_ws(p, end) /\ k \in 1 .. Len(p) /\ p[k] = ":"
      /\ v = skip_ws(p, k + 1) /\ v # Nowhere /\ vend = scan_value(p, v) /\ vend # Nowhere
  BY <1>1, Zenon DEF Has, At, KeyAt, KeyEnd, ColonAt, ValAt, ValEnd
<1>4. j = Nowhere \/ j \in i .. Len(p)
  BY <1>1, SkipTyped DEF KeyAt
<1>5. j \in Nat /\ j \in i .. Len(p) /\ end \in j + 2 .. Len(p) + 1
  <2>1. j \in Nat
    BY <1>2, <1>4 DEF Nowhere
  <2>2. j \in 1 .. Len(p) /\ end \in j + 2 .. Len(p) + 1
    BY <1>3, <2>1, StringTyped
  <2> QED BY <1>2, <1>4, <2>1, <2>2 DEF Nowhere
<1>6. k \in end .. Len(p)
  <2>1. end \in 1 .. Len(p) + 1
    BY <1>2, <1>5
  <2>2. k = Nowhere \/ k \in end .. Len(p)
    BY <1>3, <2>1, SkipTyped
  <2>3. Nowhere \notin 1 .. Len(p)
    BY <1>2 DEF Nowhere
  <2> QED BY <1>3, <2>2, <2>3
<1>7. v \in k + 1 .. Len(p)
  <2>1. k + 1 \in 1 .. Len(p) + 1
    BY <1>2, <1>3
  <2> QED BY <1>3, <2>1, SkipTyped
<1>8. v \in 1 .. Len(p) /\ v \in Nat
  BY <1>2, <1>3, <1>7
<1>9. vend \in v + 1 .. Len(p) + 1
  BY <1>3, <1>8, ValueTyped
<1>10. skip_ws(p, vend) = Nowhere \/ skip_ws(p, vend) \in vend .. Len(p)
  <2>1. vend \in 1 .. Len(p) + 1
    BY <1>2, <1>8, <1>9
  <2> QED BY <2>1, SkipTyped
<1>11. SubSeq(p, j + 1, end - 2) \in Seq(S) /\ SubSeq(p, v, vend - 1) \in Seq(S)
  <2>1. ASSUME NEW a \in Nat, NEW b \in Int, 1 <= a, b <= Len(p) PROVE SubSeq(p, a, b) \in Seq(S)
    BY <2>1
  <2>2. j + 1 \in Nat /\ end - 2 \in Int /\ 1 <= j + 1 /\ end - 2 <= Len(p)
    BY <1>2, <1>5
  <2>3. vend - 1 \in Int /\ 1 <= v /\ vend - 1 <= Len(p)
    BY <1>2, <1>8, <1>9
  <2> QED BY <1>8, <2>1, <2>2, <2>3
<1>12. Entry(p, i) = [ key |-> SubSeq(p, j + 1, end - 2), value |-> SubSeq(p, v, vend - 1) ]
  BY <1>1, Zenon DEF Entry
<1>13. Entry(p, i) \in [ key : Seq(S), value : Seq(S) ]
  BY <1>11, <1>12
<1>14. After(p, i) = skip_ws(p, vend)
  BY <1>1 DEF After
<1> QED BY <1>1, <1>3, <1>5, <1>6, <1>7, <1>9, <1>10, <1>13, <1>14

\* Another entry begins behind this one.
LEMMA GoesOn ==
    ASSUME NEW S, NEW p \in Seq(S), NEW i \in 1 .. Len(p) + 1, Has(p, i), Goes(p, i)
    PROVE  /\ After(p, i) \in ValEnd(p, i) .. Len(p) /\ p[After(p, i)] = ","
           /\ After(p, i) + 1 \in i + 1 .. Len(p) + 1
<1>1. After(p, i) \in 1 .. Len(p) /\ p[After(p, i)] = ","
  BY Zenon DEF Goes, At
<1>2. Len(p) \in Nat /\ i \in Nat
  OBVIOUS
<1>3. Nowhere \notin 1 .. Len(p)
  BY DEF Nowhere
<1>4. PICK j, end, k, v, vend, a : /\ j = KeyAt(p, i) /\ end = KeyEnd(p, i) /\ k = ColonAt(p, i)
                                   /\ v = ValAt(p, i) /\ vend = ValEnd(p, i) /\ a = After(p, i)
  OBVIOUS
<1>5. /\ j \in i .. Len(p) /\ end \in j + 2 .. Len(p) + 1 /\ k \in end .. Len(p)
      /\ v \in k + 1 .. Len(p) /\ vend \in v + 1 .. Len(p) + 1
      /\ a = Nowhere \/ a \in vend .. Len(p)
  BY <1>4, HasTyped
<1>6. a \in vend .. Len(p)
  BY <1>1, <1>3, <1>4, <1>5
<1>7. j >= i /\ end >= j /\ k >= end /\ v >= k /\ vend >= v /\ a >= vend
  BY <1>2, <1>5, <1>6
<1>8. /\ j \in Nat /\ end \in Nat /\ k \in Nat /\ v \in Nat /\ vend \in Nat /\ a \in Nat /\ a <= Len(p)
  <2>1. j \in Nat
    BY <1>2, <1>5
  <2>2. end \in Nat
    BY <1>2, <1>5, <2>1
  <2>3. k \in Nat
    BY <1>2, <1>5, <2>2
  <2>4. v \in Nat
    BY <1>2, <1>5, <2>3
  <2>5. vend \in Nat
    BY <1>2, <1>5, <2>4
  <2> QED BY <1>2, <1>6, <2>1, <2>2, <2>3, <2>4, <2>5
<1>9. a + 1 \in i + 1 .. Len(p) + 1
  BY <1>2, <1>7, <1>8
<1> QED BY <1>1, <1>4, <1>6, <1>9

\* The recursion over entries.
Reads(p, f, i) ==
    IF Has(p, i) THEN <<Entry(p, i)>> \o (IF Goes(p, i) THEN f[After(p, i) + 1] ELSE <<>>) ELSE <<>>

\* See Reads.
LEMMA HeadsIs ==
    ASSUME NEW S, NEW p \in Seq(S)
    PROVE  \A i \in 1 .. Len(p) + 1 :
              Heads(p)[i] \in Seq([ key : Seq(S), value : Seq(S) ]) /\ Heads(p)[i] = Reads(p, Heads(p), i)
<1> DEFINE n == Len(p)
           D == 1 .. n + 1
           E == [ key : Seq(S), value : Seq(S) ]
           A == Seq(E)
           Rec(f) == [ i \in 1 .. Len(p) + 1 |->
            LET More(k) == IF At(p, k, ",") THEN f[k + 1] ELSE <<>>
                Value(key, v, end) ==
                    IF end = Nowhere THEN <<>>
                    ELSE <<[key |-> key, value |-> SubSeq(p, v, end - 1)]>> \o More(skip_ws(p, end))
                Colon(key, k) ==
                    LET v == skip_ws(p, k + 1)
                    IN IF At(p, k, ":") /\ v # Nowhere THEN Value(key, v, scan_value(p, v)) ELSE <<>>
                Key(j, end) ==
                    IF end = Nowhere THEN <<>> ELSE Colon(SubSeq(p, j + 1, end - 2), skip_ws(p, end))
                j == skip_ws(p, i)
            IN Key(j, scan_string(p, j)) ]
           m == [ x \in D |-> (n + 1) - x ]
           step == [ x \in D |-> [ g \in [ D -> A ] |-> Reads(p, g, x) ] ]
<1>1. n \in Nat /\ n + 1 \in Nat /\ <<>> \in A
  OBVIOUS
<1>2. \A f : Rec(f) = [ i \in D |-> Reads(p, f, i) ]
  <2> TAKE f
  <2>1. Rec(f) = [ i \in 1 .. Len(p) + 1 |->
                     IF KeyEnd(p, i) = Nowhere THEN <<>>
                     ELSE IF At(p, ColonAt(p, i), ":") /\ ValAt(p, i) # Nowhere
                     THEN (IF ValEnd(p, i) = Nowhere THEN <<>>
                           ELSE <<Entry(p, i)>> \o (IF Goes(p, i) THEN f[After(p, i) + 1] ELSE <<>>))
                     ELSE <<>> ]
    BY Zenon DEF KeyAt, KeyEnd, ColonAt, ValAt, ValEnd, After, Entry, Goes
  <2>2. ASSUME NEW i
        PROVE  (IF KeyEnd(p, i) = Nowhere THEN <<>>
                ELSE IF At(p, ColonAt(p, i), ":") /\ ValAt(p, i) # Nowhere
                THEN (IF ValEnd(p, i) = Nowhere THEN <<>>
                      ELSE <<Entry(p, i)>> \o (IF Goes(p, i) THEN f[After(p, i) + 1] ELSE <<>>))
                ELSE <<>>) = Reads(p, f, i)
    <3>1. CASE Has(p, i)
      BY <3>1, Zenon DEF Has, Reads
    <3>2. CASE ~Has(p, i)
      BY <3>2, Zenon DEF Has, Reads
    <3> QED BY <3>1, <3>2
  <2> HIDE DEF Rec
  <2> QED BY <2>1, <2>2, Zenon
<1> HIDE DEF n, Rec
<1>3. ASSUME NEW i \in D, Goes(p, i), Has(p, i) PROVE After(p, i) + 1 \in D /\ After(p, i) + 1 > i
  <2>1. After(p, i) + 1 \in i + 1 .. n + 1
    BY <1>3, GoesOn DEF n
  <2> QED BY <1>1, <2>1
<1>4. ASSUME NEW i \in D, NEW g \in [ D -> A ] PROVE Reads(p, g, i) \in A
  <2>1. CASE Has(p, i)
    <3>1. Entry(p, i) \in E
      BY <2>1, HasTyped DEF n
    <3> HIDE DEF E
    <3>2. \A e \in E, r \in A : <<e>> \o r \in A
      OBVIOUS
    <3> DEFINE r == IF Goes(p, i) THEN g[After(p, i) + 1] ELSE <<>>
    <3>3. r \in A
      BY <1>1, <1>3, <2>1
    <3> HIDE DEF A, r
    <3>4. Reads(p, g, i) = <<Entry(p, i)>> \o r
      BY <2>1, Zenon DEF Reads, r
    <3> QED BY <3>1, <3>2, <3>3, <3>4
  <2>2. CASE ~Has(p, i)
    BY <1>1, <2>2, Zenon DEF Reads
  <2> QED BY <2>1, <2>2
<1>5. step \in [ D -> [ [ D -> A ] -> A ] ]
  <2> HIDE DEF A, D
  <2> QED BY <1>4
<1>6. Local(step, D, m)
  <2>1. ASSUME NEW x \in D, NEW f \in [ D -> A ], NEW g \in [ D -> A ], \A y \in D : m[y] < m[x] => f[y] = g[y]
        PROVE  Reads(p, f, x) = Reads(p, g, x)
    <3>1. CASE Has(p, x) /\ Goes(p, x)
      <4>1. After(p, x) + 1 \in D /\ After(p, x) + 1 > x
        BY <1>3, <3>1
      <4>2. m[After(p, x) + 1] < m[x]
        BY <1>1, <4>1
      <4>3. f[After(p, x) + 1] = g[After(p, x) + 1]
        BY <2>1, <4>1, <4>2
      <4> QED BY <4>3, Zenon DEF Reads
    <3>2. CASE ~(Has(p, x) /\ Goes(p, x))
      BY <3>2, Zenon DEF Reads
    <3> QED BY <3>1, <3>2
  <2> HIDE DEF A, m, D
  <2>2. \A x \in D : DOMAIN step[x] = [ D -> A ] /\ \A f \in [ D -> A ] : step[x][f] = Reads(p, f, x)
    OBVIOUS
  <2> HIDE DEF step
  <2> QED BY <2>1, <2>2 DEF Local
<1>7. m \in [ D -> 0 .. n + 1 ]
  BY <1>1
<1>8. PICK f \in [ D -> A ] : \A x \in D : f[x] = step[x][f]
  <2> HIDE DEF m, D, A, step
  <2>1. Recursive(step, D, A, <<>>, m, n + 1)
    BY <1>1, <1>5, <1>6, <1>7 DEF Recursive
  <2> QED BY <2>1, Recursion
<1>9. f = Rec(f)
  <2>1. \A x \in D : f[x] = Reads(p, f, x)
    <3> HIDE DEF D, A
    <3> QED BY <1>8
  <2> HIDE DEF D, A
  <2> QED BY <1>2, <1>8, <2>1
<1> DEFINE H == Heads(p)
<1>10. H = Rec(H)
  <2>1. H = CHOOSE h : h = Rec(h)
    BY Zenon DEF Heads, Rec
  <2> HIDE DEF H
  <2> QED BY <1>9, <2>1
<1> HIDE DEF H
<1>11. \A i \in D : H[i] = Reads(p, H, i)
  <2> HIDE DEF D
  <2> QED BY <1>2, <1>10
<1>12. ASSUME NEW x \in D, \A y \in D : m[y] < m[x] => H[y] \in A PROVE H[x] \in A
  <2>1. CASE Has(p, x)
    <3>1. Entry(p, x) \in E
      BY <2>1, HasTyped DEF n
    <3> HIDE DEF E
    <3>2. \A e \in E, r \in A : <<e>> \o r \in A
      OBVIOUS
    <3> DEFINE r == IF Goes(p, x) THEN H[After(p, x) + 1] ELSE <<>>
    <3>3. r \in A
      <4>1. CASE Goes(p, x)
        <5>1. After(p, x) + 1 \in D /\ After(p, x) + 1 > x
          BY <1>3, <2>1, <4>1
        <5>2. m[After(p, x) + 1] < m[x]
          BY <1>1, <5>1
        <5> HIDE DEF A
        <5> QED BY <1>12, <4>1, <5>1, <5>2
      <4>2. CASE ~Goes(p, x)
        BY <1>1, <4>2
      <4> QED BY <4>1, <4>2
    <3> HIDE DEF A, r
    <3>4. H[x] = <<Entry(p, x)>> \o r
      BY <1>11, <2>1, Zenon DEF Reads, r
    <3> QED BY <3>1, <3>2, <3>3, <3>4
  <2>2. CASE ~Has(p, x)
    BY <1>1, <1>11, <2>2, Zenon DEF Reads
  <2> QED BY <2>1, <2>2
<1>13. \A x \in D : H[x] \in A
  <2> HIDE DEF A, D, m
  <2>1. Inherits(H, D, A, m, n + 1)
    BY <1>1, <1>7, <1>12 DEF Inherits
  <2> QED BY <2>1, Solved
<1> QED BY <1>11, <1>13 DEF H, n

\* The entries of a payload are entries.
LEMMA EntriesTyped ==
    ASSUME NEW S, NEW p \in Seq(S)
    PROVE  /\ Entries(p) \in Seq([ key : Seq(S), value : Seq(S) ])
           /\ Entries(p) = <<>> \/ \E i \in 1 .. Len(p) + 1 : Entries(p) = Heads(p)[i]
<1>1. CASE At(p, skip_ws(p, 1), "{")
  <2>1. skip_ws(p, 1) \in 1 .. Len(p)
    BY <1>1, Zenon DEF At
  <2>2. skip_ws(p, 1) + 1 \in 1 .. Len(p) + 1
    BY <2>1
  <2>3. Entries(p) = Heads(p)[skip_ws(p, 1) + 1]
    BY <1>1, EntriesIs, Zenon
  <2>4. Heads(p)[skip_ws(p, 1) + 1] \in Seq([ key : Seq(S), value : Seq(S) ])
    BY <2>2, HeadsIs
  <2> QED BY <2>2, <2>3, <2>4, Zenon
<1>2. CASE ~At(p, skip_ws(p, 1), "{")
  <2>1. Entries(p) = <<>>
    BY <1>2, EntriesIs, Zenon
  <2> QED BY <2>1
<1> QED BY <1>1, <1>2

\* Every entry was found somewhere.
LEMMA Drawn ==
    ASSUME NEW S, NEW p \in Seq(S), NEW q \in 1 .. Len(Entries(p))
    PROVE  \E i \in 1 .. Len(p) + 1 : Has(p, i) /\ Entries(p)[q] = Entry(p, i)
<1> DEFINE n == Len(p)
           D == 1 .. n + 1
           A == [ key : Seq(S), value : Seq(S) ]
           H == Heads(p)
           Of(e) == \E i \in D : Has(p, i) /\ e = Entry(p, i)
           B == { e \in A : Of(e) }
           m == [ x \in D |-> (n + 1) - x ]
<1>1. n \in Nat /\ n + 1 \in Nat /\ m \in [ D -> 0 .. n + 1 ]
  OBVIOUS
<1>2. ASSUME NEW x \in D, \A y \in D : m[y] < m[x] => H[y] \in Seq(B) PROVE H[x] \in Seq(B)
  <2>1. H[x] = Reads(p, H, x)
    BY HeadsIs
  <2>2. CASE Has(p, x)
    <3>1. Entry(p, x) \in A
      BY <2>2, HasTyped
    <3>2. Entry(p, x) \in B
      BY <2>2, <3>1
    <3> DEFINE r == IF Goes(p, x) THEN H[After(p, x) + 1] ELSE <<>>
    <3>3. r \in Seq(B)
      <4>1. CASE Goes(p, x)
        <5>1. After(p, x) + 1 \in x + 1 .. Len(p) + 1
          BY <2>2, <4>1, GoesOn
        <5>2. PICK a : a = After(p, x) + 1
          OBVIOUS
        <5>3. a \in D /\ m[a] < m[x]
          BY <1>1, <5>1, <5>2
        <5> HIDE DEF m, B, D, H
        <5> QED BY <1>2, <4>1, <5>2, <5>3
      <4>2. CASE ~Goes(p, x)
        BY <4>2
      <4> QED BY <4>1, <4>2
    <3>4. H[x] = <<Entry(p, x)>> \o r
      BY <2>1, <2>2, Zenon DEF Reads
    <3> HIDE DEF r, B, H
    <3> QED BY <3>2, <3>3, <3>4
  <2>3. CASE ~Has(p, x)
    <3>1. H[x] = <<>>
      BY <2>1, <2>3, Zenon DEF Reads
    <3> QED BY <3>1
  <2> QED BY <2>2, <2>3
<1>3. \A x \in D : H[x] \in Seq(B)
  <2> HIDE DEF B, D, m, H
  <2>1. Inherits(H, D, Seq(B), m, n + 1)
    BY <1>1, <1>2 DEF Inherits
  <2> QED BY <2>1, Solved
<1>4. Entries(p) = <<>> \/ \E i \in D : Entries(p) = H[i]
  BY EntriesTyped
<1>5. Entries(p) \in Seq(B)
  <2> HIDE DEF B, D, H
  <2> QED BY <1>3, <1>4
<1>6. Entries(p)[q] \in B
  <2> HIDE DEF B
  <2> QED BY <1>5
<1> QED BY <1>6

\* The places of the entries with a key.
Places(es, key) == { i \in 1 .. Len(es) : es[i].key = <<key>> }

\* The value of a key is that of the first entry that has it.
LEMMA RawIs ==
    ASSUME NEW p, NEW key
    PROVE  /\ Places(Entries(p), key) = {} => json_raw(p, key) = Missing
           /\ \A i \in Places(Entries(p), key) :
                 (\A j \in Places(Entries(p), key) : i <= j) => json_raw(p, key) = Entries(p)[i].value
           /\ Places(Entries(p), key) # {} =>
                 \E i \in Places(Entries(p), key) : \A j \in Places(Entries(p), key) : i <= j
<1> DEFINE es == Entries(p)
           I == Places(es, key)
           k == IF I # {} THEN Min(I) ELSE 0
<1>1. json_raw(p, key) = IF k = 0 THEN Missing ELSE es[k].value
  BY Zenon DEF json_raw, SelectInSeq, Places
<1>2. I \subseteq Nat /\ 0 \notin I
  BY DEF Places
<1> HIDE DEF es, I
<1>3. I # {} => Min(I) \in I /\ \A y \in I : Min(I) <= y
  BY <1>2, MinOf
<1>4. I = {} => json_raw(p, key) = Missing
  BY <1>1
<1>5. ASSUME NEW i \in I, \A j \in I : i <= j PROVE json_raw(p, key) = es[i].value
  <2>1. I # {} /\ i \in Nat /\ i # 0
    BY <1>2
  <2>2. Min(I) \in Nat /\ Min(I) <= i /\ i <= Min(I)
    BY <1>2, <1>3, <1>5, <2>1
  <2>3. Min(I) = i
    BY <2>1, <2>2
  <2>4. k = i /\ k # 0
    BY <2>1, <2>3
  <2> QED BY <1>1, <2>4
<1>6. I # {} => \E i \in I : \A j \in I : i <= j
  BY <1>3
<1> QED BY <1>4, <1>5, <1>6 DEF I, es

\* What json_raw finds, it found somewhere.
LEMMA RawDrawn ==
    ASSUME NEW S, NEW p \in Seq(S), NEW key
    PROVE  json_raw(p, key) = Missing \/ \E i \in 1 .. Len(p) + 1 : Has(p, i) /\ json_raw(p, key) = Entry(p, i).value
<1> DEFINE I == Places(Entries(p), key)
<1>1. CASE I = {}
  BY <1>1, RawIs
<1>2. CASE I # {}
  <2>1. PICK k \in I : \A j \in I : k <= j
    BY <1>2, RawIs
  <2>2. json_raw(p, key) = Entries(p)[k].value
    BY <2>1, RawIs
  <2>3. k \in 1 .. Len(Entries(p))
    BY <2>1 DEF Places
  <2>4. PICK i \in 1 .. Len(p) + 1 : Has(p, i) /\ Entries(p)[k] = Entry(p, i)
    BY <2>3, Drawn
  <2> QED BY <2>2, <2>4
<1> QED BY <1>1, <1>2

-----------------------------------------------------------------------------
(* Pieces.                                                                 *)

\* The first k pieces, flattened.
Joined(P, k) == FlattenSeq(SubSeq(P, 1, k))

\* Piece by piece.
LEMMA JoinedIs ==
    ASSUME NEW S, NEW P \in Seq(Seq(S))
    PROVE  /\ Joined(P, 0) = <<>> /\ Joined(P, Len(P)) = FlattenSeq(P)
           /\ \A k \in 0 .. Len(P) : Joined(P, k) \in Seq(S)
           /\ \A k \in 0 .. Len(P) - 1 : Joined(P, k + 1) = Joined(P, k) \o P[k + 1]
<1> DEFINE A == Seq(S)
<1>1. P \in Seq(A) /\ Len(P) \in Nat
  OBVIOUS
<1>2. \A k \in 1 .. Len(P) : P[k] \in A
  BY <1>1
<1> HIDE DEF A
<1>3. SubSeq(P, 1, 0) = <<>> /\ SubSeq(P, 1, Len(P)) = P
  BY <1>1
<1>4. \A k \in 0 .. Len(P) : SubSeq(P, 1, k) \in Seq(A)
  BY <1>1
<1>5. \A k \in 0 .. Len(P) : Joined(P, k) \in Seq(S)
  BY <1>4, FlattenTyped DEF Joined, A
<1>6. ASSUME NEW k \in 0 .. Len(P) - 1 PROVE Joined(P, k + 1) = Joined(P, k) \o P[k + 1]
  <2>1. k \in 0 .. Len(P) /\ k + 1 \in 1 .. Len(P) /\ k \in Nat
    BY <1>1
  <2> DEFINE q == SubSeq(P, 1, k)
             r == SubSeq(P, 1, k + 1)
  <2>2. q \in Seq(A) /\ Len(q) = k /\ r \in Seq(A) /\ Len(r) = k + 1
    BY <1>1, <2>1
  <2>3. (\A i \in 1 .. k : q[i] = P[i]) /\ (\A i \in 1 .. k + 1 : r[i] = P[i])
    BY <1>1, <2>1
  <2> HIDE DEF q, r
  <2>4. P[k + 1] \in A
    BY <1>2, <2>1
  <2>5. Append(q, P[k + 1]) \in Seq(A) /\ Len(Append(q, P[k + 1])) = k + 1
    BY <2>2, <2>4
  <2>6. \A i \in 1 .. k + 1 : Append(q, P[k + 1])[i] = r[i]
    <3>1. \A x \in A, i \in 1 .. k + 1 : Append(q, x)[i] = IF i <= k THEN q[i] ELSE x
      BY <2>1, <2>2
    <3>2. ASSUME NEW i \in 1 .. k + 1 PROVE (IF i <= k THEN q[i] ELSE P[k + 1]) = r[i]
      <4>1. (i <= k /\ i \in 1 .. k) \/ (~(i <= k) /\ i = k + 1)
        BY <2>1
      <4> QED BY <2>3, <4>1
    <3> QED BY <2>4, <3>1, <3>2
  <2>7. r = Append(q, P[k + 1])
    BY <2>2, <2>5, <2>6, SameElements
  <2>8. FlattenSeq(r) = FlattenSeq(q) \o P[k + 1]
    BY <2>2, <2>4, <2>7, FlattenPiece DEF A
  <2> QED BY <2>8 DEF Joined, q, r
<1> QED BY <1>3, <1>5, <1>6, FlattenNone DEF Joined

\* A piece lies behind those before it.
LEMMA PieceAt ==
    ASSUME NEW S, NEW P \in Seq(Seq(S)), NEW k \in 0 .. Len(P) - 1
    PROVE  /\ Len(Joined(P, k + 1)) = Len(Joined(P, k)) + Len(P[k + 1])
           /\ Len(Joined(P, k)) + Len(P[k + 1]) <= Len(FlattenSeq(P))
           /\ \A i \in 1 .. Len(P[k + 1]) : FlattenSeq(P)[Len(Joined(P, k)) + i] = P[k + 1][i]
<1> DEFINE n == Len(P)
           a == Joined(P, k)
           b == P[k + 1]
           Holds(m) == /\ Len(a) + Len(b) <= Len(Joined(P, m))
                       /\ \A i \in 1 .. Len(a) + Len(b) : Joined(P, m)[i] = (a \o b)[i]
           T == { d \in Nat : k + 1 + d <= n => Holds(k + 1 + d) }
<1>1. n \in Nat /\ k \in Nat /\ k + 1 <= n /\ k \in 0 .. n /\ k + 1 \in 1 .. n
  OBVIOUS
<1>2. a \in Seq(S) /\ b \in Seq(S) /\ Joined(P, k + 1) = a \o b
  BY <1>1, JoinedIs, SMTT(20)
<1>3. \A m \in 0 .. n : Joined(P, m) \in Seq(S)
  BY JoinedIs
<1>4. \A m \in 0 .. n - 1 : Joined(P, m + 1) = Joined(P, m) \o P[m + 1] /\ P[m + 1] \in Seq(S)
  BY JoinedIs, SMTT(20)
<1>5. FlattenSeq(P) = Joined(P, n)
  BY JoinedIs
<1> HIDE DEF n, a, b
<1>6. /\ a \o b \in Seq(S) /\ Len(a \o b) = Len(a) + Len(b) /\ Len(a) \in Nat /\ Len(b) \in Nat
      /\ \A i \in 1 .. Len(b) : (a \o b)[Len(a) + i] = b[i]
  BY <1>2, ConcatFacts
<1>7. 0 \in T
  <2>1. Holds(k + 1)
    BY <1>2, <1>6
  <2>2. k + 1 + 0 = k + 1
    BY <1>1
  <2> HIDE DEF Holds
  <2> QED BY <2>1, <2>2
<1>8. ASSUME NEW d \in T PROVE d + 1 \in T
  <2>1. CASE k + 1 + (d + 1) <= n
    <3>1. PICK m : m = k + 1 + d
      OBVIOUS
    <3>2. m \in 0 .. n - 1 /\ m \in 0 .. n /\ m + 1 = k + 1 + (d + 1) /\ Holds(m)
      BY <1>1, <2>1, <3>1
    <3>3. PICK x \in Seq(S), y \in Seq(S) : x = Joined(P, m) /\ y = P[m + 1] /\ Joined(P, m + 1) = x \o y
      BY <1>3, <1>4, <3>2
    <3>4. Len(x \o y) >= Len(x) /\ \A i \in 1 .. Len(x) : (x \o y)[i] = x[i]
      <4>1. Len(x \o y) = Len(x) + Len(y) /\ Len(y) \in Nat /\ Len(x) \in Nat
        BY ConcatFacts
      <4> QED BY <4>1, ConcatFacts
    <3>5. Holds(m + 1)
      <4>1. PICK z \in Seq(S) : z = x \o y
        <5>1. x \o y \in Seq(S)
          BY ConcatFacts
        <5> QED BY <5>1
      <4>2. Len(a) + Len(b) <= Len(x) /\ \A i \in 1 .. Len(a) + Len(b) : x[i] = (a \o b)[i]
        BY <3>2, <3>3
      <4>3. Len(a) + Len(b) <= Len(z)
        BY <1>6, <3>4, <4>1, <4>2
      <4>4. ASSUME NEW i \in 1 .. Len(a) + Len(b) PROVE z[i] = (a \o b)[i]
        <5>1. i \in 1 .. Len(x)
          BY <1>6, <4>2
        <5> QED BY <3>4, <4>1, <4>2, <5>1
      <4> QED BY <3>3, <4>1, <4>3, <4>4
    <3>6. d + 1 \in Nat /\ Holds(k + 1 + (d + 1))
      <4>1. d + 1 \in Nat
        OBVIOUS
      <4> HIDE DEF Holds
      <4> QED BY <3>2, <3>5, <4>1
    <3> HIDE DEF Holds
    <3> QED BY <3>6
  <2>2. CASE ~(k + 1 + (d + 1) <= n)
    BY <2>2
  <2> QED BY <2>1, <2>2
<1>9. T = Nat
  <2> HIDE DEF T
  <2>1. T \subseteq Nat
    BY DEF T
  <2> QED BY <1>7, <1>8, <2>1, Induct
<1>10. Holds(n)
  <2>1. n - (k + 1) \in T /\ k + 1 + (n - (k + 1)) = n
    <3>1. n - (k + 1) \in Nat
      BY <1>1
    <3> HIDE DEF T
    <3> QED BY <1>1, <1>9, <3>1
  <2> HIDE DEF Holds
  <2> QED BY <1>1, <2>1
<1>11. ASSUME NEW i \in 1 .. Len(b) PROVE FlattenSeq(P)[Len(a) + i] = b[i]
  <2>1. Len(a) + i \in 1 .. Len(a) + Len(b)
    BY <1>6
  <2> QED BY <1>5, <1>6, <1>10, <2>1
<1> QED BY <1>2, <1>5, <1>6, <1>10, <1>11 DEF a, b, n

\* Pieces of one element each.
LEMMA FlattenSingles ==
    ASSUME NEW S, NEW s \in Seq(S)
    PROVE  FlattenSeq([ i \in 1 .. Len(s) |-> <<s[i]>> ]) = s
<1> DEFINE P == [ i \in 1 .. Len(s) |-> <<s[i]>> ]
           T == { k \in Nat : k <= Len(s) => Joined(P, k) = SubSeq(s, 1, k) }
<1>1. P \in Seq(Seq(S)) /\ Len(P) = Len(s) /\ Len(s) \in Nat /\ \A i \in 1 .. Len(s) : P[i] = <<s[i]>> /\ s[i] \in S
  OBVIOUS
<1> HIDE DEF P
<1>2. 0 \in T
  BY <1>1, JoinedIs
<1>3. ASSUME NEW k \in T PROVE k + 1 \in T
  <2>1. CASE k + 1 <= Len(s)
    <3>1. k \in 0 .. Len(P) - 1 /\ k + 1 \in 1 .. Len(s) /\ Joined(P, k) = SubSeq(s, 1, k)
      BY <1>1, <2>1
    <3>2. Joined(P, k + 1) = SubSeq(s, 1, k) \o <<s[k + 1]>>
      BY <1>1, <3>1, JoinedIs
    <3>3. SubSeq(s, 1, k) \o <<s[k + 1]>> = SubSeq(s, 1, k + 1)
      BY <1>1, <3>1
    <3> QED BY <3>2, <3>3
  <2>2. CASE ~(k + 1 <= Len(s))
    BY <2>2
  <2> QED BY <2>1, <2>2
<1>4. T = Nat
  <2> HIDE DEF T
  <2>1. T \subseteq Nat
    BY DEF T
  <2> QED BY <1>2, <1>3, <2>1, Induct
<1>5. Joined(P, Len(s)) = SubSeq(s, 1, Len(s))
  <2>1. Len(s) \in T
    BY <1>1, <1>4
  <2> QED BY <2>1
<1>6. SubSeq(s, 1, Len(s)) = s
  OBVIOUS
<1>7. FlattenSeq(P) = s
  BY <1>1, <1>5, <1>6, JoinedIs
<1> QED BY <1>7 DEF P

-----------------------------------------------------------------------------
(* Whole characters.                                                       *)

\* No half of a character stands alone, and the loop did not get stuck.
Whole(t) ==
    \A i \in 1 .. Len(t) :
        /\ t[i] # "stuck"
        /\ t[i] = "L" => i < Len(t) /\ t[i + 1] = "C"
        /\ t[i] = "C" => 1 < i /\ t[i - 1] = "L"

\* What is put out whole stays whole behind other whole text.
LEMMA WholeConcat ==
    ASSUME NEW S, NEW a \in Seq(S), NEW b \in Seq(S), Whole(a), Whole(b)
    PROVE  Whole(a \o b)
<1>1. /\ a \o b \in Seq(S) /\ Len(a \o b) = Len(a) + Len(b)
      /\ \A i \in 1 .. Len(a) : (a \o b)[i] = a[i]
      /\ \A i \in 1 .. Len(b) : (a \o b)[Len(a) + i] = b[i]
  BY ConcatFacts
<1>2. PICK c, m, n : c = a \o b /\ m = Len(a) /\ n = Len(b) /\ m \in Nat /\ n \in Nat
  <2>1. Len(a) \in Nat /\ Len(b) \in Nat
    OBVIOUS
  <2> QED BY <2>1, Zenon
<1>3. ASSUME NEW i \in 1 .. m + n
      PROVE  /\ c[i] # "stuck"
             /\ c[i] = "L" => i < m + n /\ c[i + 1] = "C"
             /\ c[i] = "C" => 1 < i /\ c[i - 1] = "L"
  <2>1. CASE i <= m
    <3>1. i \in 1 .. m /\ c[i] = a[i]
      BY <1>1, <1>2, <2>1
    <3>2. i < m => c[i + 1] = a[i + 1]
      BY <1>1, <1>2, <3>1
    <3>3. 1 < i => c[i - 1] = a[i - 1]
      BY <1>1, <1>2, <3>1
    <3> QED BY <1>2, <3>1, <3>2, <3>3 DEF Whole
  <2>2. CASE ~(i <= m)
    <3>1. PICK j \in 1 .. n : i = m + j
      <4>1. i - m \in 1 .. n /\ i = m + (i - m)
        BY <1>2, <2>2
      <4> QED BY <4>1
    <3>2. c[i] = b[j]
      BY <1>1, <1>2, <3>1
    <3>3. j < n => c[i + 1] = b[j + 1]
      <4>1. j < n => j + 1 \in 1 .. n /\ i + 1 = m + (j + 1)
        BY <1>2, <3>1
      <4> QED BY <1>1, <1>2, <4>1
    <3>4. 1 < j => c[i - 1] = b[j - 1]
      <4>1. 1 < j => j - 1 \in 1 .. n /\ i - 1 = m + (j - 1)
        BY <1>2, <3>1
      <4> QED BY <1>1, <1>2, <4>1
    <3>5. (j < n => i < m + n) /\ (1 < j => 1 < i)
      BY <1>2, <3>1
    <3> QED BY <1>2, <3>2, <3>3, <3>4, <3>5 DEF Whole
  <2> QED BY <2>1, <2>2
<1> QED BY <1>1, <1>2, <1>3 DEF Whole

\* A text of one character.
LEMMA WholeOne == \A c : c \notin {"stuck", "L", "C"} => Whole(<<c>>)
BY DEF Whole

\* See WholeOne.
LEMMA WholePair == Whole(<<"L", "C">>) /\ Whole(<<>>)
<1>1. Whole(<<>>)
  BY DEF Whole
<1>2. \A i \in 1 .. Len(<<"L", "C">>) : i = 1 \/ i = 2
  OBVIOUS
<1> QED BY <1>1, <1>2 DEF Whole

\* The pieces that are kept of a text.
Kept(s) ==
    [ i \in 1 .. Len(s) |->
        IF \/ s[i] = "L" /\ ~At(s, i + 1, "C")
           \/ s[i] = "C" /\ ~At(s, i - 1, "L")
        THEN <<>> ELSE <<s[i]>> ]

\* See Kept.
LEMMA LossyIs == \A s : append_utf8_lossy(s) = FlattenSeq(Kept(s))
BY Zenon DEF append_utf8_lossy, Kept

\* The first half of a character was put out and the second follows.
Pending(s, k) == k >= 1 /\ s[k] = "L" /\ At(s, k + 1, "C")

\* Of any bytes, whole characters come out.
LEMMA LossyWhole ==
    ASSUME NEW S, NEW s \in Seq(S), "stuck" \notin S
    PROVE  append_utf8_lossy(s) \in Seq(S) /\ Whole(append_utf8_lossy(s))
<1> DEFINE P == Kept(s)
           n == Len(s)
           Begun(t) == \E r \in Seq(S) : Whole(r) /\ t = r \o <<"L">>
           Good(k) == /\ Pending(s, k) => Begun(Joined(P, k))
                      /\ ~Pending(s, k) => Whole(Joined(P, k))
           T == { k \in Nat : k <= n => Good(k) }
<1>1. P \in Seq(Seq(S)) /\ Len(P) = n /\ n \in Nat
  <2>1. \A i \in 1 .. n : (<<>> \in Seq(S) /\ <<s[i]>> \in Seq(S))
    OBVIOUS
  <2> QED BY <2>1 DEF Kept
<1>2. \A i \in 1 .. n : P[i] = IF \/ s[i] = "L" /\ ~(i < n /\ s[i + 1] = "C")
                                  \/ s[i] = "C" /\ ~(1 < i /\ s[i - 1] = "L")
                               THEN <<>> ELSE <<s[i]>>
  <2>1. \A i \in 1 .. n : (At(s, i + 1, "C") <=> i < n /\ s[i + 1] = "C") /\ (At(s, i - 1, "L") <=> 1 < i /\ s[i - 1] = "L")
    BY DEF At
  <2> QED BY <2>1 DEF Kept
<1>3. \A k \in 0 .. n : Pending(s, k) <=> 1 <= k /\ k < n /\ s[k] = "L" /\ s[k + 1] = "C"
  BY DEF Pending, At
<1> HIDE DEF P, n
<1>4. 0 \in T
  <2>1. ~Pending(s, 0) /\ Joined(P, 0) = <<>> /\ Whole(<<>>)
    BY <1>1, <1>3, JoinedIs, WholePair
  <2> QED BY <2>1
<1>5. ASSUME NEW k \in T PROVE k + 1 \in T
  <2>1. CASE k + 1 <= n
    <3>1. k \in 0 .. n - 1 /\ k \in 0 .. n /\ k + 1 \in 0 .. n /\ k + 1 \in 1 .. n /\ Good(k) /\ (k + 1) - 1 = k
      <4> HIDE DEF Good
      <4> QED BY <1>1, <2>1
    <3>2. PICK c : c = s[k + 1]
      OBVIOUS
    <3>3. c \in S
      BY <3>1, <3>2 DEF n
    <3>4. Joined(P, k + 1) = Joined(P, k) \o P[k + 1] /\ Joined(P, k) \in Seq(S)
      BY <1>1, <3>1, JoinedIs
    <3>5. P[k + 1] = IF \/ c = "L" /\ ~(k + 1 < n /\ s[(k + 1) + 1] = "C")
                        \/ c = "C" /\ ~(1 < k + 1 /\ s[k] = "L")
                     THEN <<>> ELSE <<c>>
      BY <1>2, <3>1, <3>2
    <3>6. Pending(s, k + 1) <=> k + 1 < n /\ c = "L" /\ s[(k + 1) + 1] = "C"
      BY <1>1, <1>3, <3>1, <3>2
    <3>7. Pending(s, k) <=> 1 < k + 1 /\ s[k] = "L" /\ c = "C"
      BY <1>1, <1>3, <3>1, <3>2
    <3>8. CASE Pending(s, k)
      <4>1. PICK r \in Seq(S) : Whole(r) /\ Joined(P, k) = r \o <<"L">>
        BY <3>1, <3>8
      <4>2. c = "C" /\ P[k + 1] = <<"C">> /\ ~Pending(s, k + 1)
        BY <3>5, <3>6, <3>7, <3>8
      <4>3. "L" \in S /\ "C" \in S
        <5>1. s[k] \in S
          BY <1>1, <3>1, <3>7, <3>8 DEF n
        <5> QED BY <3>3, <3>7, <3>8, <4>2, <5>1
      <4>4. (r \o <<"L">>) \o <<"C">> = r \o <<"L", "C">>
        BY <4>3
      <4>5. Whole(r \o <<"L", "C">>)
        <5>1. <<"L", "C">> \in Seq(S)
          BY <4>3
        <5> QED BY <4>1, <5>1, WholePair, WholeConcat
      <4>6. Good(k + 1)
        BY <3>4, <4>1, <4>2, <4>4, <4>5
      <4> HIDE DEF Good
      <4> QED BY <4>6
    <3>9. CASE ~Pending(s, k)
      <4>1. Whole(Joined(P, k))
        BY <3>1, <3>9
      <4>2. PICK t \in Seq(S) : t = Joined(P, k)
        BY <3>4
      <4>3. CASE c = "C"
        <5>1. P[k + 1] = <<>> /\ ~Pending(s, k + 1) /\ t \o <<>> = t
          BY <3>5, <3>6, <3>7, <3>9, <4>3
        <5>2. Good(k + 1)
          BY <3>4, <4>1, <4>2, <5>1
        <5> HIDE DEF Good
        <5> QED BY <5>2
      <4>4. CASE c = "L" /\ Pending(s, k + 1)
        <5>1. P[k + 1] = <<"L">>
          BY <3>5, <3>6, <4>4
        <5>2. Good(k + 1)
          BY <3>4, <4>1, <4>2, <4>4, <5>1
        <5> HIDE DEF Good
        <5> QED BY <5>2
      <4>5. CASE c = "L" /\ ~Pending(s, k + 1)
        <5>1. P[k + 1] = <<>> /\ t \o <<>> = t
          BY <3>5, <3>6, <4>5
        <5>2. Good(k + 1)
          BY <3>4, <4>1, <4>2, <4>5, <5>1
        <5> HIDE DEF Good
        <5> QED BY <5>2
      <4>6. CASE c # "L" /\ c # "C"
        <5>1. P[k + 1] = <<c>> /\ ~Pending(s, k + 1)
          BY <3>5, <3>6, <4>6
        <5>2. Whole(<<c>>) /\ <<c>> \in Seq(S)
          BY <3>3, <4>6, WholeOne
        <5>3. Whole(t \o <<c>>)
          BY <4>1, <4>2, <5>2, WholeConcat
        <5>4. Good(k + 1)
          BY <3>4, <4>2, <5>1, <5>3
        <5> HIDE DEF Good
        <5> QED BY <5>4
      <4> QED BY <4>3, <4>4, <4>5, <4>6
    <3> QED BY <3>8, <3>9
  <2>2. CASE ~(k + 1 <= n)
    BY <2>2
  <2> QED BY <2>1, <2>2
<1>6. T = Nat
  <2> HIDE DEF T
  <2>1. T \subseteq Nat
    BY DEF T
  <2> QED BY <1>4, <1>5, <2>1, Induct
<1>7. ~Pending(s, n)
  BY <1>1, <1>3
<1>8. Whole(Joined(P, n))
  <2>1. n \in T
    <3> HIDE DEF T
    <3> QED BY <1>1, <1>6
  <2> QED BY <1>1, <1>7, <2>1
<1>9. append_utf8_lossy(s) = Joined(P, n) /\ Joined(P, n) \in Seq(S)
  <2>1. append_utf8_lossy(s) = FlattenSeq(P)
    BY LossyIs, Zenon DEF P
  <2>2. n \in 0 .. Len(P)
    BY <1>1
  <2> QED BY <1>1, <2>1, <2>2, JoinedIs
<1> QED BY <1>8, <1>9

\* Whole text is left as it is.
LEMMA LossySame ==
    ASSUME NEW S, NEW s \in Seq(S), Whole(s)
    PROVE  append_utf8_lossy(s) = s
<1>1. Kept(s) = [ i \in 1 .. Len(s) |-> <<s[i]>> ]
  <2>1. \A i \in 1 .. Len(s) : (At(s, i + 1, "C") <=> i < Len(s) /\ s[i + 1] = "C") /\ (At(s, i - 1, "L") <=> 1 < i /\ s[i - 1] = "L")
    BY DEF At
  <2> QED BY <2>1 DEF Kept, Whole
<1>2. append_utf8_lossy(s) = FlattenSeq(Kept(s))
  BY LossyIs, Zenon
<1> QED BY <1>1, <1>2, FlattenSingles

-----------------------------------------------------------------------------
(* Strings.                                                                *)

\* The next backslash.
Slash(s, i) == Min({ j \in i .. Len(s) : s[j] = Bs } \union {Len(s) + 1})

\* See Slash.
LEMMA SlashIs ==
    ASSUME NEW S, NEW s \in Seq(S), NEW i \in 1 .. Len(s) + 1
    PROVE  /\ Slash(s, i) \in i .. Len(s) + 1
           /\ Slash(s, i) <= Len(s) => s[Slash(s, i)] = Bs
           /\ \A k \in i .. Slash(s, i) - 1 : s[k] # Bs
<1> DEFINE Y == { k \in i .. Len(s) : s[k] = Bs }
           j == Slash(s, i)
<1>1. Len(s) \in Nat /\ Y \in SUBSET (i .. Len(s)) /\ j = Min(Y \union {Len(s) + 1})
  <2>1. j = Min(Y \union {Len(s) + 1})
    BY Zenon DEF Slash
  <2> QED BY <2>1
<1> HIDE DEF j, Y
<1>2. j \in i .. Len(s) + 1 /\ (j <= Len(s) => j \in Y) /\ (\A k \in Y : j <= k)
  BY <1>1, Earliest
<1>3. ASSUME NEW k \in i .. j - 1 PROVE s[k] # Bs
  <2>1. k \in i .. Len(s) /\ ~(j <= k)
    BY <1>1, <1>2
  <2> QED BY <1>2, <2>1 DEF Y
<1>4. j <= Len(s) => s[j] = Bs
  BY <1>2 DEF Y
<1> QED BY <1>2, <1>3, <1>4 DEF j

\* What the string means from i on.
Sense(s) ==
    CHOOSE f : f = [ i \in 1 .. Len(s) + 1 |->
            LET j == Slash(s, i)
                cp == parse_u16_hex(s, i + 2)
            IN CASE i > Len(s) -> <<>>
                 [] j > i -> append_utf8_lossy(SubSeq(s, i, j - 1)) \o f[j]
                 [] i = Len(s) /\ j = i -> <<"stuck">>
                 [] OTHER ->
                       IF s[i + 1] # "u" THEN Escaped(s[i + 1]) \o f[i + 2]
                       ELSE IF cp >= 0 THEN Char(cp) \o f[i + 6] ELSE f[i + 2] ]

\* See Sense.
LEMMA UnescapeIs == \A s : unescape(s) = Sense(s)[1]
BY Zenon DEF unescape, Sense, From, Slash

\* The recursion.
Sounds(s, f, i) ==
    IF i > Len(s) THEN <<>>
    ELSE IF Slash(s, i) > i THEN append_utf8_lossy(SubSeq(s, i, Slash(s, i) - 1)) \o f[Slash(s, i)]
    ELSE IF i = Len(s) THEN <<"stuck">>
    ELSE IF s[i + 1] # "u" THEN Escaped(s[i + 1]) \o f[i + 2]
    ELSE IF parse_u16_hex(s, i + 2) >= 0 THEN Char(parse_u16_hex(s, i + 2)) \o f[i + 6] ELSE f[i + 2]

\* What an escape can put out.
Signs == {Quote, Bs, "/", "nl", "cr", "tab", "form", "fffd", "ctl", "other"}
Drops == { <<c>> : c \in Signs } \union {<<>>, <<"L", "C">>}

\* See Drops.
LEMMA CharTyped == \A cp : Char(cp) \in Drops
BY DEF Char, Drops, Signs

\* See Drops.
LEMMA EscapedTyped == \A c : Escaped(c) \in Drops
BY DEF Escaped, Drops, Signs

\* They are whole.
LEMMA DropsWhole == \A t \in Drops : Whole(t)
<1>1. \A c \in Signs : c \notin {"stuck", "L", "C"}
  BY DEF Signs, Quote, Bs
<1> QED BY <1>1, WholeOne, WholePair DEF Drops

\* Four digits that are read are there.
LEMMA HexThere ==
    \A s, k : parse_u16_hex(s, k) >= 0 => k + 3 <= Len(s) /\ \A j \in k .. k + 3 : s[j] \in ToSet(HexDigit)
BY DEF parse_u16_hex

\* See LossyWhole.
LEMMA LossyTyped ==
    ASSUME NEW S, NEW s \in Seq(S)
    PROVE  append_utf8_lossy(s) \in Seq(S)
<1>1. Kept(s) \in Seq(Seq(S))
  <2>1. \A i \in 1 .. Len(s) : (<<>> \in Seq(S) /\ <<s[i]>> \in Seq(S))
    OBVIOUS
  <2> QED BY <2>1 DEF Kept
<1>2. append_utf8_lossy(s) = FlattenSeq(Kept(s))
  BY LossyIs, Zenon
<1> QED BY <1>1, <1>2, FlattenTyped

\* The recursion has a solution.
LEMMA SenseIs ==
    ASSUME NEW S, NEW s \in Seq(S)
    PROVE  \A i \in 1 .. Len(s) + 1 :
              /\ Sense(s)[i] \in Seq(S \union Signs \union {"L", "C", "stuck"})
              /\ Sense(s)[i] = Sounds(s, Sense(s), i)
<1> DEFINE n == Len(s)
           D == 1 .. n + 1
           R == S \union Signs \union {"L", "C", "stuck"}
           A == Seq(R)
           Rec(f) == [ i \in 1 .. Len(s) + 1 |->
            LET j == Slash(s, i)
                cp == parse_u16_hex(s, i + 2)
            IN CASE i > Len(s) -> <<>>
                 [] j > i -> append_utf8_lossy(SubSeq(s, i, j - 1)) \o f[j]
                 [] i = Len(s) /\ j = i -> <<"stuck">>
                 [] OTHER ->
                       IF s[i + 1] # "u" THEN Escaped(s[i + 1]) \o f[i + 2]
                       ELSE IF cp >= 0 THEN Char(cp) \o f[i + 6] ELSE f[i + 2] ]
           m == [ x \in D |-> (n + 1) - x ]
           step == [ x \in D |-> [ g \in [ D -> A ] |-> Sounds(s, g, x) ] ]
<1>1. n \in Nat /\ n + 1 \in Nat /\ <<>> \in A
  OBVIOUS
<1>2. ASSUME NEW i \in D
      PROVE  Slash(s, i) \in i .. n + 1 /\ (Slash(s, i) <= n => s[Slash(s, i)] = Bs)
  BY SlashIs
<1>3. \A f : Rec(f) = [ i \in D |-> Sounds(s, f, i) ]
  <2> TAKE f
  <2>1. ASSUME NEW i \in D
        PROVE  (LET j == Slash(s, i)
                    cp == parse_u16_hex(s, i + 2)
                IN CASE i > Len(s) -> <<>>
                 [] j > i -> append_utf8_lossy(SubSeq(s, i, j - 1)) \o f[j]
                 [] i = Len(s) /\ j = i -> <<"stuck">>
                 [] OTHER ->
                       IF s[i + 1] # "u" THEN Escaped(s[i + 1]) \o f[i + 2]
                       ELSE IF cp >= 0 THEN Char(cp) \o f[i + 6] ELSE f[i + 2]) = Sounds(s, f, i)
    <3>1. PICK j, a, b, c, d, g, h :
               /\ j = Slash(s, i) /\ a = append_utf8_lossy(SubSeq(s, i, j - 1)) \o f[j]
               /\ b = (s[i + 1] # "u") /\ c = (parse_u16_hex(s, i + 2) >= 0) /\ d = Escaped(s[i + 1]) \o f[i + 2]
               /\ g = Char(parse_u16_hex(s, i + 2)) \o f[i + 6] /\ h = f[i + 2]
      OBVIOUS
    <3>2. i > n <=> ~(i <= n)
      BY <1>1
    <3>3. j \in i .. n + 1
      BY <1>2, <3>1
    <3>4. (CASE i > n -> <<>>
             [] j > i -> a
             [] i = n /\ j = i -> <<"stuck">>
             [] OTHER -> IF b THEN d ELSE IF c THEN g ELSE h)
          = IF i > n THEN <<>> ELSE IF j > i THEN a ELSE IF i = n THEN <<"stuck">>
            ELSE IF b THEN d ELSE IF c THEN g ELSE h
      <4>1. i \in Nat /\ j \in Nat /\ n \in Nat /\ i <= n + 1 /\ i <= j /\ j <= n + 1
        BY <1>1, <3>3
      <4>2. CASE i > n
        BY <4>1, <4>2
      <4>3. CASE ~(i > n) /\ j > i
        BY <4>1, <4>3
      <4>4. CASE ~(i > n) /\ ~(j > i) /\ i = n
        BY <4>1, <4>4
      <4>5. CASE ~(i > n) /\ ~(j > i) /\ i # n
        BY <4>1, <4>5
      <4> QED BY <4>2, <4>3, <4>4, <4>5
    <3> QED BY <3>1, <3>4 DEF Sounds
  <2> HIDE DEF Rec
  <2> QED BY <2>1 DEF Rec
<1> HIDE DEF n, Rec
<1>4. ASSUME NEW i \in D, i <= n
      PROVE  /\ Slash(s, i) > i => Slash(s, i) \in i + 1 .. n + 1
             /\ i # n => i + 2 \in i + 1 .. n + 1
             /\ parse_u16_hex(s, i + 2) >= 0 => i + 6 \in i + 1 .. n + 1
  <2>1. i \in Nat /\ Slash(s, i) \in i .. n + 1
    BY <1>1, <1>2
  <2>2. parse_u16_hex(s, i + 2) >= 0 => (i + 2) + 3 <= n
    BY HexThere DEF n
  <2> QED BY <1>1, <1>4, <2>1, <2>2
<1>5. Drops \subseteq A /\ <<"stuck">> \in A
  <2>1. \A c \in Signs : <<c>> \in A
    OBVIOUS
  <2>2. <<>> \in A /\ <<"L", "C">> \in A /\ <<"stuck">> \in A
    OBVIOUS
  <2> HIDE DEF A
  <2> QED BY <2>1, <2>2 DEF Drops
<1>6. ASSUME NEW i \in D, NEW j \in i + 1 .. n + 1 PROVE append_utf8_lossy(SubSeq(s, i, j - 1)) \in A
  <2>1. SubSeq(s, i, j - 1) \in Seq(S)
    <3>1. i \in Nat /\ j - 1 \in Nat /\ 1 <= i /\ j - 1 <= n
      BY <1>1
    <3> QED BY <3>1 DEF n
  <2>2. append_utf8_lossy(SubSeq(s, i, j - 1)) \in Seq(S)
    BY <2>1, LossyTyped
  <2> QED BY <2>2
<1>7. \A a, b \in A : a \o b \in A
  OBVIOUS
<1> HIDE DEF A
\* Any function that has its values in A above i has it at i.
<1>8. ASSUME NEW i \in D, NEW f, \A j \in i + 1 .. n + 1 : f[j] \in A PROVE Sounds(s, f, i) \in A
  <2>1. CASE i > n
    BY <1>1, <2>1, Zenon DEF Sounds, n
  <2>2. CASE ~(i > n)
    <3>1. i <= n
      BY <1>1, <2>2
    <3> DEFINE j == Slash(s, i)
               cp == parse_u16_hex(s, i + 2)
    <3>2. j > i => append_utf8_lossy(SubSeq(s, i, j - 1)) \o f[j] \in A
      BY <1>4, <1>6, <1>7, <1>8, <3>1
    <3>3. i # n => Escaped(s[i + 1]) \o f[i + 2] \in A /\ f[i + 2] \in A
      BY <1>4, <1>5, <1>7, <1>8, <3>1, EscapedTyped
    <3>4. cp >= 0 => Char(cp) \o f[i + 6] \in A
      <4>1. Char(cp) \in A
        BY <1>5, CharTyped
      <4> QED BY <1>4, <1>7, <1>8, <3>1, <4>1
    <3>5. Sounds(s, f, i) = IF j > i THEN append_utf8_lossy(SubSeq(s, i, j - 1)) \o f[j]
                            ELSE IF i = n THEN <<"stuck">>
                            ELSE IF s[i + 1] # "u" THEN Escaped(s[i + 1]) \o f[i + 2]
                            ELSE IF cp >= 0 THEN Char(cp) \o f[i + 6] ELSE f[i + 2]
      BY <2>2 DEF Sounds, n
    <3> HIDE DEF j, cp
    <3> QED BY <1>5, <3>2, <3>3, <3>4, <3>5
  <2> QED BY <2>1, <2>2
<1>9. step \in [ D -> [ [ D -> A ] -> A ] ]
  <2>1. ASSUME NEW i \in D, NEW g \in [ D -> A ] PROVE Sounds(s, g, i) \in A
    <3>1. \A j \in i + 1 .. n + 1 : g[j] \in A
      BY <1>1
    <3> QED BY <1>8, <3>1
  <2> HIDE DEF D
  <2> QED BY <2>1
<1>10. Local(step, D, m)
  <2>1. ASSUME NEW x \in D, NEW f \in [ D -> A ], NEW g \in [ D -> A ], \A y \in D : m[y] < m[x] => f[y] = g[y]
        PROVE  Sounds(s, f, x) = Sounds(s, g, x)
    <3>1. \A j \in x + 1 .. n + 1 : f[j] = g[j]
      <4> TAKE j \in x + 1 .. n + 1
      <4>1. j \in D /\ m[j] < m[x]
        BY <1>1
      <4> QED BY <2>1, <4>1
    <3>2. CASE x > n
      BY <3>2 DEF Sounds, n
    <3>3. CASE ~(x > n)
      <4>1. x <= n
        BY <1>1, <3>3
      <4>2. /\ Slash(s, x) > x => f[Slash(s, x)] = g[Slash(s, x)]
            /\ x # n => f[x + 2] = g[x + 2]
            /\ parse_u16_hex(s, x + 2) >= 0 => f[x + 6] = g[x + 6]
        BY <1>4, <3>1, <4>1
      <4>3. \A h : Sounds(s, h, x) =
                IF Slash(s, x) > x THEN append_utf8_lossy(SubSeq(s, x, Slash(s, x) - 1)) \o h[Slash(s, x)]
                ELSE IF x = n THEN <<"stuck">>
                ELSE IF s[x + 1] # "u" THEN Escaped(s[x + 1]) \o h[x + 2]
                ELSE IF parse_u16_hex(s, x + 2) >= 0 THEN Char(parse_u16_hex(s, x + 2)) \o h[x + 6] ELSE h[x + 2]
        BY <3>3 DEF Sounds, n
      <4> QED BY <4>2, <4>3
    <3> QED BY <3>2, <3>3
  <2> HIDE DEF m, D
  <2>2. \A x \in D : DOMAIN step[x] = [ D -> A ] /\ \A f \in [ D -> A ] : step[x][f] = Sounds(s, f, x)
    OBVIOUS
  <2> HIDE DEF step
  <2> QED BY <2>1, <2>2 DEF Local
<1>11. m \in [ D -> 0 .. n + 1 ]
  BY <1>1
<1>12. PICK f \in [ D -> A ] : \A x \in D : f[x] = step[x][f]
  <2> HIDE DEF m, D, step
  <2>1. Recursive(step, D, A, <<>>, m, n + 1)
    BY <1>1, <1>9, <1>10, <1>11 DEF Recursive
  <2> QED BY <2>1, Recursion
<1>13. f = Rec(f)
  <2>1. \A x \in D : f[x] = Sounds(s, f, x)
    <3> HIDE DEF D
    <3> QED BY <1>12
  <2> HIDE DEF D
  <2> QED BY <1>3, <1>12, <2>1
<1> DEFINE H == Sense(s)
<1>14. H = Rec(H)
  <2>1. H = CHOOSE h : h = Rec(h)
    BY Zenon DEF Sense, Rec
  <2> HIDE DEF H
  <2> QED BY <1>13, <2>1
<1> HIDE DEF H
<1>15. \A i \in D : H[i] = Sounds(s, H, i)
  <2> HIDE DEF D
  <2> QED BY <1>3, <1>14
<1>16. ASSUME NEW x \in D, \A y \in D : m[y] < m[x] => H[y] \in A PROVE H[x] \in A
  <2>1. \A j \in x + 1 .. n + 1 : H[j] \in A
    <3> TAKE j \in x + 1 .. n + 1
    <3>1. j \in D /\ m[j] < m[x]
      BY <1>1
    <3> QED BY <1>16, <3>1
  <2> HIDE DEF D, m
  <2> QED BY <1>8, <1>15, <2>1
<1>17. \A x \in D : H[x] \in A
  <2> HIDE DEF D, m
  <2>1. Inherits(H, D, A, m, n + 1)
    BY <1>1, <1>11, <1>16 DEF Inherits
  <2> QED BY <2>1, Solved
<1> QED BY <1>15, <1>17 DEF H, n, A

\* The digits of numbers.
Figures == {"0", "1", "2", "3", "4", "5", "6", "7", "8", "9", "a", "b", "c", "d", "e", "f"}

\* See Figures.
LEMMA HexIs ==
    /\ HexDigit \in Seq(Figures) /\ Len(HexDigit) = 16 /\ Len(Digit) = 10 /\ Digit \in Seq(Figures)
    /\ \A i \in 1 .. 10 : HexDigit[i] = Digit[i]
    /\ HexDigit[11] = "a" /\ HexDigit[12] = "b" /\ HexDigit[13] = "c" /\ HexDigit[14] = "d"
    /\ HexDigit[15] = "e" /\ HexDigit[16] = "f"
<1> DEFINE more == <<"a", "b", "c", "d", "e", "f">>
<1>1. Digit \in Seq(Figures) /\ Len(Digit) = 10
  BY DEF Digit, Figures
<1>2. more \in Seq(Figures) /\ Len(more) = 6
  BY DEF Figures
<1>3. HexDigit = Digit \o more
  BY DEF HexDigit
<1>4. /\ more[1] = "a" /\ more[2] = "b" /\ more[3] = "c" /\ more[4] = "d" /\ more[5] = "e" /\ more[6] = "f"
  OBVIOUS
<1> HIDE DEF more
<1>5. /\ Digit \o more \in Seq(Figures) /\ Len(Digit \o more) = Len(Digit) + Len(more)
      /\ \A i \in 1 .. Len(Digit) : (Digit \o more)[i] = Digit[i]
      /\ \A i \in 1 .. Len(more) : (Digit \o more)[Len(Digit) + i] = more[i]
  <2>1. \A x, y \in Seq(Figures) : /\ x \o y \in Seq(Figures) /\ Len(x \o y) = Len(x) + Len(y)
                                    /\ (\A i \in 1 .. Len(x) : (x \o y)[i] = x[i])
                                    /\ \A i \in 1 .. Len(y) : (x \o y)[Len(x) + i] = y[i]
    BY ConcatFacts
  <2> QED BY <1>1, <1>2, <2>1
<1>6. HexDigit \in Seq(Figures) /\ Len(HexDigit) = 16
  BY <1>1, <1>2, <1>3, <1>5
<1>7. \A i \in 1 .. 10 : HexDigit[i] = Digit[i]
  BY <1>1, <1>3, <1>5
<1>8. \A i \in 1 .. 6 : HexDigit[10 + i] = more[i]
  BY <1>1, <1>2, <1>3, <1>5
<1>9. 10 + 1 = 11 /\ 10 + 2 = 12 /\ 10 + 3 = 13 /\ 10 + 4 = 14 /\ 10 + 5 = 15 /\ 10 + 6 = 16
  OBVIOUS
<1> QED BY <1>1, <1>4, <1>6, <1>7, <1>8, <1>9

\* A quote and a backslash are no hexadecimal digits.
LEMMA NoHex == Quote \notin ToSet(HexDigit) /\ Bs \notin ToSet(HexDigit)
<1>1. Quote \notin Figures /\ Bs \notin Figures
  BY DEF Figures, Quote, Bs
<1>2. \A c \in ToSet(HexDigit) : c \in Figures
  <2>1. \A s \in Seq(Figures) : \A c \in ToSet(s) : c \in Figures
    BY DEF ToSet
  <2> QED BY <2>1, HexIs
<1> QED BY <1>1, <1>2

\* The bytes of a string, whatever they are, mean whole characters.
LEMMA StringWhole ==
    ASSUME NEW S, NEW p \in Seq(S), "stuck" \notin S, NEW v \in 1 .. Len(p), p[v] = Quote, scan_string(p, v) # Nowhere
    PROVE  Whole(unescape(SubSeq(p, v + 1, scan_string(p, v) - 2)))
<1> DEFINE e == scan_string(p, v)
           s == SubSeq(p, v + 1, e - 2)
           n == e - 2 - v
           H == Sense(s)
           E(i) == Ends(p)[v + i]
           R == S \union Signs \union {"L", "C", "stuck"}
           D == 1 .. n + 1
           m == [ x \in D |-> (n + 1) - x ]
           T == { i \in D : E(i) = e => Whole(H[i]) }
<1>1. v \in Nat /\ Len(p) \in Nat /\ e \in v + 2 .. Len(p) + 1 /\ e = Ends(p)[v + 1]
  <2>1. v \in Nat /\ Len(p) \in Nat
    OBVIOUS
  <2> HIDE DEF e
  <2>2. e = scan_string(p, v)
    BY DEF e
  <2>3. e = Nowhere \/ (e \in v + 2 .. Len(p) + 1 /\ e = Ends(p)[v + 1])
    BY <2>1, <2>2, StringTyped
  <2> QED BY <2>1, <2>2, <2>3
<1> HIDE DEF e
<1>2. n \in Nat /\ e \in Nat /\ e = v + n + 2 /\ v + n + 1 <= Len(p)
  BY <1>1, SMTT(20)
<1>3. s \in Seq(S) /\ Len(s) = n /\ \A i \in 1 .. n : s[i] = p[v + i] /\ v + i \in 1 .. Len(p)
  <2>1. e - 2 = v + n /\ v + n <= Len(p)
    BY <1>2
  <2>2. PICK k \in Nat : k = n
    BY <1>2
  <2> HIDE DEF n
  <2>3. v + k <= Len(p)
    BY <2>1, <2>2
  <2>4. SubSeq(p, v + 1, v + k) \in Seq(S) /\ Len(SubSeq(p, v + 1, v + k)) = k
        /\ \A i \in 1 .. k : SubSeq(p, v + 1, v + k)[i] = p[v + i]
    BY <1>1, <2>3, SubSeqFacts
  <2>5. \A i \in 1 .. n : v + i \in 1 .. Len(p)
    BY <1>1, <1>2
  <2> QED BY <2>1, <2>2, <2>4, <2>5
<1> HIDE DEF s, n
<1>4. \A i \in D : H[i] \in Seq(R) /\ H[i] = Sounds(s, H, i)
  BY <1>3, SenseIs
<1> HIDE DEF H, R
\* Within the string, a quote follows a backslash.
<1>5. ASSUME NEW i \in 1 .. n, E(i) = e
      PROVE  p[v + i] # Quote /\ (p[v + i] = Bs => E(i + 2) = e /\ i # n) /\ (p[v + i] # Bs => E(i + 1) = e)
  <2>1. Ends(p)[v + i] = IF p[v + i] = Bs THEN Ends(p)[v + i + 2]
                         ELSE IF p[v + i] = Quote THEN v + i + 1 ELSE Ends(p)[v + i + 1]
    BY <1>3, EndsIs
  <2>2. v + i + 1 = v + (i + 1) /\ v + i + 2 = v + (i + 2) /\ v + i + 1 # e
    BY <1>1, <1>2
  <2>3. p[v + i] # Quote
    <3>1. Quote # Bs
      BY DEF Quote, Bs
    <3> QED BY <1>5, <2>1, <2>2, <3>1
  <2>4. p[v + i] = Bs => i # n
    <3> SUFFICES ASSUME p[v + i] = Bs, i = n PROVE FALSE
      OBVIOUS
    <3>1. e = Ends(p)[e]
      BY <1>2, <1>5, <2>1, <2>2
    <3>2. e \in 1 .. Len(p) + 2 /\ e # Nowhere
      BY <1>1, <1>2 DEF Nowhere
    <3>3. Ends(p)[e] = Nowhere \/ (Ends(p)[e] \in Nat /\ e < Ends(p)[e])
      BY <3>2, EndsTyped
    <3> QED BY <1>2, <3>1, <3>2, <3>3
  <2> QED BY <1>5, <2>1, <2>2, <2>3, <2>4
\* A run without backslashes ends where it does.
<1>6. ASSUME NEW i \in 1 .. n, E(i) = e, NEW j \in i .. n + 1, \A k \in i .. j - 1 : s[k] # Bs
      PROVE  E(j) = e
  <2> DEFINE U == { d \in Nat : i + d <= j => E(i + d) = e }
  <2>1. i \in Nat /\ j \in Nat /\ i <= j /\ j <= n + 1
    BY <1>2
  <2>2. 0 \in U
    <3>1. i + 0 = i
      BY <2>1
    <3> HIDE DEF E
    <3> QED BY <1>6, <3>1
  <2>3. ASSUME NEW d \in U PROVE d + 1 \in U
    <3>1. CASE i + (d + 1) <= j
      <4>1. PICK k : k = i + d
        OBVIOUS
      <4>2. k \in 1 .. n /\ k \in i .. j - 1 /\ k + 1 = i + (d + 1) /\ i + d <= j /\ d \in Nat
        BY <2>1, <1>2, <3>1, <4>1
      <4>3. E(k) = e
        BY <4>1, <4>2
      <4>4. p[v + k] # Bs
        BY <1>3, <1>6, <4>2
      <4>5. E(k + 1) = e
        BY <1>5, <4>2, <4>3, <4>4
      <4> HIDE DEF E
      <4> QED BY <4>2, <4>5
    <3>2. CASE ~(i + (d + 1) <= j)
      BY <3>2
    <3> QED BY <3>1, <3>2
  <2>4. U = Nat
    <3> HIDE DEF U
    <3>1. U \subseteq Nat
      BY DEF U
    <3> QED BY <2>2, <2>3, <3>1, Induct
  <2>5. j - i \in U /\ i + (j - i) = j
    <3> HIDE DEF U
    <3> QED BY <2>1, <2>4
  <2> HIDE DEF E
  <2> QED BY <2>1, <2>5
<1>7. \A a, b \in Seq(R) : Whole(a) /\ Whole(b) => Whole(a \o b)
  BY WholeConcat
<1>8. Drops \subseteq Seq(R) /\ Seq(S) \subseteq Seq(R)
  <2>1. \A c \in Signs : <<c>> \in Seq(R)
    BY DEF R
  <2>2. <<>> \in Seq(R) /\ <<"L", "C">> \in Seq(R)
    BY DEF R
  <2>3. Seq(S) \subseteq Seq(R)
    BY DEF R
  <2> QED BY <2>1, <2>2, <2>3 DEF Drops
<1>9. ASSUME NEW i \in D, \A y \in D : m[y] < m[i] => y \in T PROVE i \in T
  <2> SUFFICES ASSUME E(i) = e PROVE Whole(H[i])
    OBVIOUS
  <2>1. \A j \in i + 1 .. n + 1 : E(j) = e => Whole(H[j]) /\ H[j] \in Seq(R)
    <3> TAKE j \in i + 1 .. n + 1
    <3>1. j \in D /\ m[j] < m[i]
      BY <1>2
    <3>2. j \in T
      <4> HIDE DEF T, m, D
      <4> QED BY <1>9, <3>1
    <3> QED BY <1>4, <3>1, <3>2
  <2>2. H[i] = Sounds(s, H, i) /\ i \in Nat
    BY <1>2, <1>4
  <2> HIDE DEF T, m
  <2>3. CASE i > n
    <3>1. H[i] = <<>>
      BY <1>3, <2>2, <2>3 DEF Sounds
    <3> QED BY <3>1, WholePair
  <2>4. CASE ~(i > n)
    <3>1. i \in 1 .. n /\ i \in 1 .. Len(s) + 1
      BY <1>2, <1>3, <2>2, <2>4
    <3>2. PICK j : j = Slash(s, i)
      OBVIOUS
    <3>3. j \in i .. n + 1 /\ (j <= n => s[j] = Bs) /\ \A k \in i .. j - 1 : s[k] # Bs
      BY <1>3, <3>1, <3>2, SlashIs
    <3>4. CASE j > i
      <4>1. H[i] = append_utf8_lossy(SubSeq(s, i, j - 1)) \o H[j]
        BY <1>3, <2>2, <2>4, <3>2, <3>4 DEF Sounds
      <4>2. SubSeq(s, i, j - 1) \in Seq(S)
        <5>1. 1 <= i /\ j - 1 <= Len(s) /\ i \in Nat /\ j - 1 \in Int
          BY <1>2, <1>3, <3>1, <3>3
        <5> QED BY <1>3, <5>1
      <4>3. /\ append_utf8_lossy(SubSeq(s, i, j - 1)) \in Seq(S)
            /\ Whole(append_utf8_lossy(SubSeq(s, i, j - 1)))
        BY <4>2, LossyWhole
      <4>4. E(j) = e
        BY <1>6, <3>1, <3>3
      <4>5. j \in i + 1 .. n + 1
        BY <1>2, <3>1, <3>3, <3>4
      <4>6. Whole(H[j]) /\ H[j] \in Seq(R)
        BY <2>1, <4>4, <4>5
      <4> QED BY <1>7, <1>8, <4>1, <4>3, <4>6
    <3>5. CASE ~(j > i)
      <4>1. j = i /\ s[i] = Bs /\ p[v + i] = Bs
        BY <1>2, <1>3, <3>1, <3>3, <3>5, SMTT(20)
      <4>2. E(i + 2) = e /\ i # n
        BY <1>5, <3>1, <4>1
      <4>3. i + 2 \in i + 1 .. n + 1 /\ i + 1 \in 1 .. n
        BY <1>2, <3>1, <4>2
      <4>4. Whole(H[i + 2]) /\ H[i + 2] \in Seq(R)
        BY <2>1, <4>2, <4>3
      <4> DEFINE cp == parse_u16_hex(s, i + 2)
      <4>5. H[i] = IF s[i + 1] # "u" THEN Escaped(s[i + 1]) \o H[i + 2]
                   ELSE IF cp >= 0 THEN Char(cp) \o H[i + 6] ELSE H[i + 2]
        BY <1>3, <2>2, <2>4, <3>2, <3>5, <4>2 DEF Sounds
      <4>6. CASE s[i + 1] # "u"
        <5>1. Escaped(s[i + 1]) \in Drops /\ H[i] = Escaped(s[i + 1]) \o H[i + 2]
          BY <4>5, <4>6, EscapedTyped
        <5> QED BY <1>7, <1>8, <4>4, <5>1, DropsWhole
      <4>7. CASE ~(s[i + 1] # "u") /\ cp >= 0
        <5>1. (i + 2) + 3 <= n /\ \A k \in i + 2 .. (i + 2) + 3 : s[k] # Quote /\ s[k] # Bs
          BY <1>3, <4>7, HexThere, NoHex, ZenonT(30)
        <5>2. i + 2 \in 1 .. n /\ i + 3 \in 1 .. n /\ i + 4 \in 1 .. n /\ i + 5 \in 1 .. n
          BY <1>2, <3>1, <5>1
        <5>3. s[i + 2] # Bs /\ s[i + 3] # Bs /\ s[i + 4] # Bs /\ s[i + 5] # Bs
          <6>1. /\ i + 2 \in i + 2 .. (i + 2) + 3 /\ i + 3 \in i + 2 .. (i + 2) + 3
                /\ i + 4 \in i + 2 .. (i + 2) + 3 /\ i + 5 \in i + 2 .. (i + 2) + 3
            BY <2>2
          <6> QED BY <5>1, <6>1
        <5>4. E(i + 6) = e
          <6>1. \A k \in i + 2 .. (i + 6) - 1 : s[k] # Bs
            <7>1. (i + 6) - 1 = (i + 2) + 3
              BY <2>2
            <7> QED BY <5>1, <7>1
          <6>2. i + 6 \in i + 2 .. n + 1
            BY <1>2, <2>2, <5>1
          <6> QED BY <1>6, <4>2, <5>2, <6>1, <6>2
        <5>5. i + 6 \in i + 1 .. n + 1
          BY <1>2, <2>2, <5>1
        <5>6. Whole(H[i + 6]) /\ H[i + 6] \in Seq(R)
          BY <2>1, <5>4, <5>5
        <5>7. Char(cp) \in Drops /\ H[i] = Char(cp) \o H[i + 6]
          BY <4>5, <4>7, CharTyped
        <5> QED BY <1>7, <1>8, <5>6, <5>7, DropsWhole
      <4>8. CASE ~(s[i + 1] # "u") /\ ~(cp >= 0)
        <5>1. H[i] = H[i + 2]
          BY <4>5, <4>8
        <5> QED BY <4>4, <5>1
      <4> QED BY <4>6, <4>7, <4>8
    <3> QED BY <3>4, <3>5
  <2> QED BY <2>3, <2>4
<1>10. m \in [ D -> Nat ]
  BY <1>2
<1>11. \A x \in D : x \in T
  <2> HIDE DEF T, D, m
  <2> QED BY <1>9, <1>10, Descend
<1>12. 1 \in D /\ E(1) = e
  BY <1>1, <1>2
<1>13. Whole(H[1])
  <2> HIDE DEF D, E
  <2> QED BY <1>11, <1>12
<1>14. unescape(s) = H[1]
  BY UnescapeIs, Zenon DEF H
<1> QED BY <1>13, <1>14 DEF s, e

\* For every payload, whatever its bytes: what json_string puts out has no
\* half characters, and its loop ends.
THEOREM StringsWhole ==
    ASSUME NEW S, NEW p \in Seq(S), "stuck" \notin S, NEW key
    PROVE  json_string(p, key) = Missing \/ Whole(json_string(p, key))
<1> DEFINE raw == json_raw(p, key)
<1>1. json_string(p, key) = IF raw # Missing /\ raw[1] = Quote THEN unescape(SubSeq(raw, 2, Len(raw) - 1)) ELSE Missing
  BY Zenon DEF json_string
<1>2. CASE raw # Missing /\ raw[1] = Quote
  <2>1. PICK i \in 1 .. Len(p) + 1 : Has(p, i) /\ raw = Entry(p, i).value
    BY <1>2, RawDrawn
  <2>2. PICK v, e : v = ValAt(p, i) /\ e = ValEnd(p, i)
    OBVIOUS
  <2>3. v \in 1 .. Len(p) /\ e \in v + 1 .. Len(p) + 1
    <3>1. PICK k : k = ColonAt(p, i)
      OBVIOUS
    <3>2. k \in 1 .. Len(p)
      BY <2>1, <3>1, Zenon DEF Has, At
    <3>3. v \in k + 1 .. Len(p) /\ e \in v + 1 .. Len(p) + 1
      BY <2>1, <2>2, <3>1, HasTyped
    <3>4. v \in 1 .. Len(p)
      BY <3>2, <3>3
    <3> QED BY <3>3, <3>4
  <2>4. v \in Nat /\ e \in Nat /\ Len(p) \in Nat
    BY <2>3
  <2>5. raw = SubSeq(p, v, e - 1)
    <3>1. Entry(p, i).value = SubSeq(p, v, e - 1)
      BY <2>2 DEF Entry
    <3> QED BY <2>1, <3>1
  <2>6. Len(raw) = e - v /\ \A j \in 1 .. e - v : raw[j] = p[v + j - 1]
    <3>1. \A j \in 1 .. e - v : SubSeq(p, v, e - 1)[j] = p[v + j - 1]
      BY <2>3, <2>4
    <3>2. Len(SubSeq(p, v, e - 1)) = e - v
      BY <2>3, <2>4
    <3> QED BY <2>5, <3>1, <3>2
  <2>7. p[v] = Quote
    <3>1. 1 \in 1 .. e - v /\ v + 1 - 1 = v
      BY <2>3, <2>4
    <3> QED BY <1>2, <2>6, <3>1
  <2>8. e = scan_string(p, v) /\ e # Nowhere
    <3>1. e = scan_value(p, v)
      BY <2>2 DEF ValEnd
    <3>2. e # Nowhere
      BY <2>3 DEF Nowhere
    <3> QED BY <2>7, <3>1, <3>2, ScanValue
  <2>9. SubSeq(raw, 2, Len(raw) - 1) = SubSeq(p, v + 1, e - 2)
    <3>1. e \in v + 2 .. Len(p) + 1
      BY <2>4, <2>8, StringTyped
    <3>2. SubSeq(SubSeq(p, v, e - 1), 2, (e - v) - 1) = SubSeq(p, v + 1, e - 2)
      BY <2>3, <2>4, <3>1
    <3> QED BY <2>5, <2>6, <3>2
  <2>10. Whole(unescape(SubSeq(p, v + 1, e - 2)))
    BY <2>3, <2>7, <2>8, StringWhole
  <2> QED BY <1>1, <1>2, <2>9, <2>10
<1>3. CASE ~(raw # Missing /\ raw[1] = Quote)
  BY <1>1, <1>3
<1> QED BY <1>2, <1>3

-----------------------------------------------------------------------------
(* Numbers.                                                                *)

\* The value of a digit, and of a row of them.
Figure(table, d) == SelectInSeq(table, LAMBDA h : h = d) - 1
Number(table, base, s) == FoldLeft(LAMBDA v, d : v * base + SelectInSeq(table, LAMBDA h : h = d) - 1, 0, s)
Grown(table, base, v, d) == v * base + SelectInSeq(table, LAMBDA h : h = d) - 1

\* A digit has the value of its place.
LEMMA FigureIs ==
    ASSUME NEW S, NEW table \in Seq(S), NEW k \in 1 .. Len(table), \A i \in 1 .. k - 1 : table[i] # table[k]
    PROVE  Figure(table, table[k]) = k - 1
<1> DEFINE d == table[k]
           I == { i \in 1 .. Len(table) : table[i] = d }
<1>1. SelectInSeq(table, LAMBDA h : h = d) = IF I # {} THEN Min(I) ELSE 0
  BY Zenon DEF SelectInSeq
<1>2. k \in I /\ I \subseteq Nat /\ k \in Nat
  OBVIOUS
<1>3. Min(I) \in I /\ Min(I) <= k
  <2> HIDE DEF I
  <2>1. I # {}
    BY <1>2
  <2> QED BY <1>2, <2>1, MinOf
<1>4. PICK m \in Nat : m = Min(I)
  <2> HIDE DEF I
  <2> QED BY <1>2, <1>3
<1>5. m \in 1 .. Len(table) /\ table[m] = table[k] /\ m <= k
  BY <1>3, <1>4
<1>6. ~(m < k)
  <2>1. m < k => m \in 1 .. k - 1
    BY <1>2, <1>5
  <2> QED BY <1>5, <2>1
<1>7. m = k
  BY <1>2, <1>5, <1>6
<1>8. SelectInSeq(table, LAMBDA h : h = d) = k
  <2>1. I # {}
    BY <1>2
  <2> HIDE DEF I
  <2> QED BY <1>1, <1>4, <1>7, <2>1
<1>9. Figure(table, table[k]) = SelectInSeq(table, LAMBDA h : h = d) - 1
  BY DEF Figure
<1> QED BY <1>2, <1>8, <1>9

\* A value, one digit on.
LEMMA GrownIs ==
    ASSUME NEW S, NEW table \in Seq(S), NEW base \in Nat, NEW v \in Int, NEW d
    PROVE  Grown(table, base, v, d) \in Int /\ Grown(table, base, v, d) = v * base + Figure(table, d)
<1> DEFINE I == { i \in 1 .. Len(table) : table[i] = d }
           k == SelectInSeq(table, LAMBDA h : h = d)
<1>1. k = IF I # {} THEN Min(I) ELSE 0
  BY Zenon DEF SelectInSeq
<1>2. k \in Nat
  <2>1. I \subseteq Nat
    OBVIOUS
  <2>2. I # {} => Min(I) \in Nat
    <3> HIDE DEF I
    <3> QED BY <2>1, MinOf
  <2> HIDE DEF I, k
  <2> QED BY <1>1, <2>2
<1>3. Figure(table, d) = k - 1 /\ Grown(table, base, v, d) = v * base + k - 1
  BY Zenon DEF Figure, Grown
<1>4. v * base \in Int
  OBVIOUS
<1> HIDE DEF k
<1>5. PICK w \in Int : w = v * base
  BY <1>4
<1>6. w + k - 1 = w + (k - 1) /\ w + k - 1 \in Int
  BY <1>2
<1> QED BY <1>3, <1>5, <1>6

\* The values a row of digits goes through.
Grows(g, table, base, s) == g[0] = 0 /\ \A i \in 1 .. Len(s) : g[i] = Grown(table, base, g[i - 1], s[i])

\* See Grows.
LEMMA NumberTrace ==
    ASSUME NEW S, NEW table \in Seq(S), NEW base \in Nat, NEW R, NEW s \in Seq(R)
    PROVE  \E g \in [ 0 .. Len(s) -> Int ] : Grows(g, table, base, s) /\ Number(table, base, s) = g[Len(s)]
<1> DEFINE A == Int
           n == Len(s)
           Rec(h) == [ x \in SUBSET (DOMAIN s) |->
                         IF x = {} THEN 0 ELSE Grown(table, base, h[x \ {Max(x)}], s[Max(x)]) ]
           I == CHOOSE iter : iter = Rec(iter)
           step == [ p \in (1 .. n) \X A |-> Grown(table, base, p[2], s[p[1]]) ]
<1>1. Number(table, base, s) = I[DOMAIN s]
  BY Zenon DEF Number, Grown, FoldLeft, MapThenFoldSet
<1>2. n \in Nat /\ DOMAIN s = 1 .. n /\ 0 \in A
  OBVIOUS
<1>3. step \in [ (1 .. n) \X A -> A ]
  BY <1>2, GrownIs
<1> HIDE DEF n, A
<1>4. \A i \in 1 .. n, a \in A : step[<<i, a>>] = Grown(table, base, a, s[i])
  OBVIOUS
<1> HIDE DEF step
<1>5. PICK h \in [ SUBSET (1 .. n) -> A ] : Folds(h, 0, n, step)
  BY <1>2, <1>3, FoldExists
<1>6. h = Rec(h)
  <2>1. ASSUME NEW x \in SUBSET (1 .. n)
        PROVE  h[x] = IF x = {} THEN 0 ELSE Grown(table, base, h[x \ {Max(x)}], s[Max(x)])
    <3>1. CASE x # {}
      <4>1. Max(x) \in 1 .. n /\ h[x \ {Max(x)}] \in A
        BY <1>2, <1>5, <3>1, MaxOf
      <4> QED BY <1>4, <1>5, <3>1, <4>1 DEF Folds
    <3>2. CASE x = {}
      BY <1>5, <3>2 DEF Folds
    <3> QED BY <3>1, <3>2
  <2> QED BY <1>2, <1>5, <2>1
<1>7. I = Rec(I)
  <2> HIDE DEF Rec
  <2> QED BY <1>6
<1> HIDE DEF I
<1>8. I[{}] = 0 /\ \A x \in SUBSET (1 .. n) : x # {} => I[x] = Grown(table, base, I[x \ {Max(x)}], s[Max(x)])
  BY <1>2, <1>7
<1>9. ASSUME NEW x \in SUBSET (1 .. n), x # {}, I[x \ {Max(x)}] \in A
      PROVE  I[x] = step[<<Max(x), I[x \ {Max(x)}]>>]
  <2>1. Max(x) \in 1 .. n
    BY <1>2, <1>9, MaxOf
  <2> QED BY <1>4, <1>8, <1>9, <2>1
<1>10. PICK g \in [ 0 .. n -> A ] : Traces(g, 0, I[1 .. n], n, step)
  BY <1>2, <1>3, <1>8, <1>9, FoldTrace, ZenonT(30)
<1>11. g[0] = 0 /\ g[n] = Number(table, base, s) /\ \A i \in 1 .. n : g[i] = step[<<i, g[i - 1]>>]
  BY <1>1, <1>2, <1>10 DEF Traces
<1>12. ASSUME NEW i \in 1 .. n PROVE g[i] = Grown(table, base, g[i - 1], s[i])
  <2>1. i - 1 \in 0 .. n
    BY <1>2
  <2> QED BY <1>4, <1>10, <1>11, <2>1
<1>13. Grows(g, table, base, s)
  BY <1>11, <1>12 DEF Grows, n
<1> QED BY <1>10, <1>11, <1>13 DEF A, n

\* No digits, and one more.
LEMMA NumberNone == ASSUME NEW S, NEW table \in Seq(S), NEW base \in Nat PROVE Number(table, base, <<>>) = 0
<1>1. <<>> \in Seq(S) /\ Len(<<>>) = 0
  OBVIOUS
<1>2. PICK g : Grows(g, table, base, <<>>) /\ Number(table, base, <<>>) = g[0]
  BY <1>1, NumberTrace
<1> QED BY <1>2 DEF Grows

\* See NumberNone.
LEMMA NumberMore ==
    ASSUME NEW S, NEW table \in Seq(S), NEW base \in Nat, NEW R, NEW s \in Seq(R), NEW c \in R
    PROVE  Number(table, base, s) \in Int /\ Number(table, base, Append(s, c)) = Grown(table, base, Number(table, base, s), c)
<1> DEFINE n == Len(s)
           more == Append(s, c)
<1>1. more \in Seq(R) /\ Len(more) = n + 1 /\ n \in Nat /\ more[n + 1] = c
      /\ \A i \in 1 .. n : more[i] = s[i]
  OBVIOUS
<1> HIDE DEF more
<1>2. PICK f \in [ 0 .. n -> Int ] : Grows(f, table, base, s) /\ Number(table, base, s) = f[n]
  BY NumberTrace
<1>3. PICK g \in [ 0 .. n + 1 -> Int ] : Grows(g, table, base, more) /\ Number(table, base, more) = g[n + 1]
  <2>1. \A r \in Seq(R) : \E g \in [ 0 .. Len(r) -> Int ] :
            Grows(g, table, base, r) /\ Number(table, base, r) = g[Len(r)]
    BY NumberTrace
  <2> HIDE DEF n
  <2>2. \E g \in [ 0 .. Len(more) -> Int ] : Grows(g, table, base, more) /\ Number(table, base, more) = g[Len(more)]
    BY <1>1, <2>1
  <2> QED BY <1>1, <2>2
<1> HIDE DEF n
<1>4. f[0] = 0 /\ g[0] = 0
  BY <1>2, <1>3 DEF Grows
<1>5. /\ \A i \in 1 .. n : f[i] = Grown(table, base, f[i - 1], s[i])
      /\ \A i \in 1 .. n + 1 : g[i] = Grown(table, base, g[i - 1], more[i])
  BY <1>1, <1>2, <1>3 DEF Grows, n
<1>6. ASSUME NEW i \in 1 .. n, f[i - 1] = g[i - 1] PROVE f[i] = g[i]
  <2>1. i \in 1 .. n + 1
    BY <1>1
  <2> QED BY <1>1, <1>5, <1>6, <2>1
<1>7. f[n] = g[n]
  <2>1. \A i \in 0 .. n : f[i] = g[i]
    <3>1. n \in Nat /\ Lockstep(f, g, n)
      BY <1>1, <1>4, <1>6 DEF Lockstep
    <3>2. Alike(f, g, n)
      BY <3>1, Agree
    <3> QED BY <3>2 DEF Alike
  <2> QED BY <1>1, <2>1
<1>8. n + 1 \in 1 .. n + 1 /\ (n + 1) - 1 = n /\ n \in 0 .. n
  BY <1>1
<1>9. g[n + 1] = Grown(table, base, g[n], c)
  BY <1>1, <1>5, <1>8
<1>10. f[n] \in Int
  BY <1>2, <1>8
<1> QED BY <1>2, <1>3, <1>7, <1>9, <1>10 DEF more

\* The digits that are read in the strings of this module.
LEMMA Figured ==
    /\ Figure(HexDigit, "0") = 0 /\ Figure(HexDigit, "1") = 1 /\ Figure(HexDigit, "9") = 9 /\ Figure(HexDigit, "e") = 14
    /\ "0" \in ToSet(HexDigit) /\ "1" \in ToSet(HexDigit) /\ "9" \in ToSet(HexDigit) /\ "e" \in ToSet(HexDigit)
<1>1. /\ HexDigit[1] = "0" /\ HexDigit[2] = "1" /\ HexDigit[3] = "2" /\ HexDigit[4] = "3" /\ HexDigit[5] = "4"
      /\ HexDigit[6] = "5" /\ HexDigit[7] = "6" /\ HexDigit[8] = "7" /\ HexDigit[9] = "8" /\ HexDigit[10] = "9"
  BY HexIs DEF Digit
<1>2. /\ HexDigit[11] = "a" /\ HexDigit[12] = "b" /\ HexDigit[13] = "c" /\ HexDigit[14] = "d" /\ HexDigit[15] = "e"
      /\ Len(HexDigit) = 16 /\ HexDigit \in Seq(Figures)
  BY HexIs
<1>3. Figure(HexDigit, "0") = 0
  <2>1. 1 \in 1 .. Len(HexDigit) /\ \A i \in 1 .. 1 - 1 : HexDigit[i] # HexDigit[1]
    BY <1>2
  <2>2. Figure(HexDigit, HexDigit[1]) = 1 - 1
    BY <1>2, <2>1, FigureIs
  <2> QED BY <1>1, <2>2
<1>4. Figure(HexDigit, "1") = 1
  <2>1. \A i \in 1 .. 2 - 1 : i = 1
    OBVIOUS
  <2>2. 2 \in 1 .. Len(HexDigit) /\ \A i \in 1 .. 2 - 1 : HexDigit[i] # HexDigit[2]
    BY <1>1, <1>2, <2>1
  <2>3. Figure(HexDigit, HexDigit[2]) = 2 - 1
    BY <1>2, <2>2, FigureIs
  <2> QED BY <1>1, <2>3
<1>5. Figure(HexDigit, "9") = 9
  <2>1. \A i \in 1 .. 10 - 1 : i = 1 \/ i = 2 \/ i = 3 \/ i = 4 \/ i = 5 \/ i = 6 \/ i = 7 \/ i = 8 \/ i = 9
    OBVIOUS
  <2>2. \A i \in 1 .. 10 - 1 : HexDigit[i] # HexDigit[10]
    BY <1>1, <2>1
  <2>3. 10 \in 1 .. Len(HexDigit)
    BY <1>2
  <2>4. Figure(HexDigit, HexDigit[10]) = 10 - 1
    BY <1>2, <2>2, <2>3, FigureIs
  <2> QED BY <1>1, <2>4
<1>6. Figure(HexDigit, "e") = 14
  <2>1. \A i \in 1 .. 15 - 1 : i = 1 \/ i = 2 \/ i = 3 \/ i = 4 \/ i = 5 \/ i = 6 \/ i = 7 \/ i = 8 \/ i = 9
                               \/ i = 10 \/ i = 11 \/ i = 12 \/ i = 13 \/ i = 14
    OBVIOUS
  <2>2. \A i \in 1 .. 15 - 1 : HexDigit[i] # HexDigit[15]
    BY <1>1, <1>2, <2>1
  <2>3. 15 \in 1 .. Len(HexDigit)
    BY <1>2
  <2>4. Figure(HexDigit, HexDigit[15]) = 15 - 1
    BY <1>2, <2>2, <2>3, FigureIs
  <2> QED BY <1>2, <2>4
<1>7. "0" \in ToSet(HexDigit) /\ "1" \in ToSet(HexDigit) /\ "9" \in ToSet(HexDigit) /\ "e" \in ToSet(HexDigit)
  <2>1. \A i \in 1 .. 16 : HexDigit[i] \in ToSet(HexDigit)
    <3>1. DOMAIN HexDigit = 1 .. 16
      BY <1>2
    <3> QED BY <3>1 DEF ToSet
  <2>2. 1 \in 1 .. 16 /\ 2 \in 1 .. 16 /\ 10 \in 1 .. 16 /\ 15 \in 1 .. 16
    OBVIOUS
  <2> QED BY <1>1, <1>2, <2>1, <2>2
<1> QED BY <1>3, <1>4, <1>5, <1>6, <1>7

\* The value of four digits.
Fours(a, b, c, d) ==
    \E w, x, y \in Int :
        /\ w = Figure(HexDigit, a) /\ x = w * 16 + Figure(HexDigit, b)
        /\ y = x * 16 + Figure(HexDigit, c)
        /\ Number(HexDigit, 16, <<a, b, c, d>>) = y * 16 + Figure(HexDigit, d)

\* See Fours.
LEMMA NumberFour ==
    ASSUME NEW R, NEW a \in R, NEW b \in R, NEW c \in R, NEW d \in R
    PROVE  Fours(a, b, c, d)
<1> DEFINE N(s) == Number(HexDigit, 16, s)
<1>0. HexDigit \in Seq(Figures) /\ 16 \in Nat
  BY HexIs
<1>1. N(<<>>) = 0
  BY <1>0, NumberNone
<1>2. ASSUME NEW s \in Seq(R), NEW e \in R
      PROVE  N(Append(s, e)) \in Int /\ N(Append(s, e)) = N(s) * 16 + Figure(HexDigit, e)
  <2>1. N(s) \in Int /\ N(Append(s, e)) = Grown(HexDigit, 16, N(s), e)
    BY <1>0, NumberMore
  <2>2. \A v \in Int : Grown(HexDigit, 16, v, e) \in Int /\ Grown(HexDigit, 16, v, e) = v * 16 + Figure(HexDigit, e)
    BY <1>0, GrownIs
  <2> QED BY <2>1, <2>2
<1> HIDE DEF N
<1>3. /\ <<>> \in Seq(R) /\ <<a>> \in Seq(R) /\ <<a, b>> \in Seq(R) /\ <<a, b, c>> \in Seq(R)
      /\ <<a>> = Append(<<>>, a) /\ <<a, b>> = Append(<<a>>, b) /\ <<a, b, c>> = Append(<<a, b>>, c)
      /\ <<a, b, c, d>> = Append(<<a, b, c>>, d)
  OBVIOUS
<1>4. N(<<a>>) \in Int /\ N(<<a>>) = 0 * 16 + Figure(HexDigit, a)
  BY <1>1, <1>2, <1>3
<1>5. N(<<a, b>>) \in Int /\ N(<<a, b>>) = N(<<a>>) * 16 + Figure(HexDigit, b)
  BY <1>2, <1>3
<1>6. N(<<a, b, c>>) \in Int /\ N(<<a, b, c>>) = N(<<a, b>>) * 16 + Figure(HexDigit, c)
  BY <1>2, <1>3
<1>7. N(<<a, b, c, d>>) = N(<<a, b, c>>) * 16 + Figure(HexDigit, d)
  BY <1>2, <1>3
<1>8. Figure(HexDigit, a) \in Int
  <2>1. Grown(HexDigit, 16, 0, a) \in Int /\ Grown(HexDigit, 16, 0, a) = 0 * 16 + Figure(HexDigit, a)
    BY <1>0, GrownIs
  <2>2. Figure(HexDigit, a) \in Int
    <3>1. SelectInSeq(HexDigit, LAMBDA h : h = a) \in Nat
      <4> DEFINE I == { i \in 1 .. Len(HexDigit) : HexDigit[i] = a }
      <4>1. SelectInSeq(HexDigit, LAMBDA h : h = a) = IF I # {} THEN Min(I) ELSE 0
        BY Zenon DEF SelectInSeq
      <4>2. I \subseteq Nat
        OBVIOUS
      <4>3. I # {} => Min(I) \in Nat
        <5> HIDE DEF I
        <5> QED BY <4>2, MinOf
      <4> HIDE DEF I
      <4> QED BY <4>1, <4>3
    <3>2. PICK k \in Nat : k = SelectInSeq(HexDigit, LAMBDA h : h = a)
      BY <3>1
    <3>3. Figure(HexDigit, a) = k - 1
      BY <3>2, Zenon DEF Figure
    <3> QED BY <3>3
  <2> QED BY <2>2
<1>9. N(<<a>>) = Figure(HexDigit, a)
  BY <1>4, <1>8
<1> QED BY <1>4, <1>5, <1>6, <1>7, <1>9 DEF N, Fours

\* The escapes of the control character 1 and of the character outside ASCII.
LEMMA Hexes ==
    ASSUME NEW S, NEW s \in Seq(S), NEW k \in 1 .. Len(s), k + 3 <= Len(s), s[k] = "0", s[k + 1] = "0"
    PROVE  /\ s[k + 2] = "0" /\ s[k + 3] = "1" => parse_u16_hex(s, k) = 1
           /\ s[k + 2] = "e" /\ s[k + 3] = "9" => parse_u16_hex(s, k) = 233
<1>1. ASSUME NEW a \in S, NEW b \in S, NEW c \in S, NEW d \in S,
             a = s[k], b = s[k + 1], c = s[k + 2], d = s[k + 3],
             {a, b, c, d} \subseteq ToSet(HexDigit)
      PROVE  parse_u16_hex(s, k) = Number(HexDigit, 16, <<a, b, c, d>>)
  <2>1. \A j \in k .. k + 3 : j = k \/ j = k + 1 \/ j = k + 2 \/ j = k + 3
    OBVIOUS
  <2>2. \A j \in k .. k + 3 : s[j] \in ToSet(HexDigit)
    BY <1>1, <2>1
  <2>3. SubSeq(s, k, k + 3) = <<a, b, c, d>>
    <3>1. SubSeq(s, k, k + 3) \in Seq(S) /\ Len(SubSeq(s, k, k + 3)) = 4
      OBVIOUS
    <3>2. SubSeq(s, k, k + 3)[1] = s[k] /\ SubSeq(s, k, k + 3)[2] = s[k + 1]
          /\ SubSeq(s, k, k + 3)[3] = s[k + 2] /\ SubSeq(s, k, k + 3)[4] = s[k + 3]
      OBVIOUS
    <3>3. \A t \in Seq(S) : Len(t) = 4 /\ t[1] = a /\ t[2] = b /\ t[3] = c /\ t[4] = d => t = <<a, b, c, d>>
      OBVIOUS
    <3> QED BY <1>1, <3>1, <3>2, <3>3
  <2>4. parse_u16_hex(s, k) = HexValue(<<a, b, c, d>>)
    BY <2>2, <2>3 DEF parse_u16_hex
  <2>5. \A x : HexValue(x) = Number(HexDigit, 16, x)
    BY Zenon DEF HexValue, Number
  <2> QED BY <2>4, <2>5
<1>2. s[k] \in S /\ s[k + 1] \in S /\ s[k + 2] \in S /\ s[k + 3] \in S
  OBVIOUS
<1>3. CASE s[k + 2] = "0" /\ s[k + 3] = "1"
  <2>1. parse_u16_hex(s, k) = Number(HexDigit, 16, <<"0", "0", "0", "1">>)
    BY <1>1, <1>2, <1>3, Figured
  <2>2. PICK w, x, y \in Int :
              /\ w = Figure(HexDigit, "0") /\ x = w * 16 + Figure(HexDigit, "0")
              /\ y = x * 16 + Figure(HexDigit, "0")
              /\ Number(HexDigit, 16, <<"0", "0", "0", "1">>) = y * 16 + Figure(HexDigit, "1")
    <3>1. "0" \in Figures /\ "1" \in Figures
      BY DEF Figures
    <3>2. Fours("0", "0", "0", "1")
      BY <3>1, NumberFour
    <3> QED BY <3>2 DEF Fours
  <2>3. Number(HexDigit, 16, <<"0", "0", "0", "1">>) = 1
    BY <2>2, Figured
  <2> QED BY <1>3, <2>1, <2>3
<1>4. CASE s[k + 2] = "e" /\ s[k + 3] = "9"
  <2>1. parse_u16_hex(s, k) = Number(HexDigit, 16, <<"0", "0", "e", "9">>)
    BY <1>1, <1>2, <1>4, Figured
  <2>2. PICK w, x, y \in Int :
              /\ w = Figure(HexDigit, "0") /\ x = w * 16 + Figure(HexDigit, "0")
              /\ y = x * 16 + Figure(HexDigit, "e")
              /\ Number(HexDigit, 16, <<"0", "0", "e", "9">>) = y * 16 + Figure(HexDigit, "9")
    <3>1. "0" \in Figures /\ "e" \in Figures /\ "9" \in Figures
      BY DEF Figures
    <3>2. Fours("0", "0", "e", "9")
      BY <3>1, NumberFour
    <3> QED BY <3>2 DEF Fours
  <2>3. w = 0 /\ x = 0 /\ y = 14 /\ 14 * 16 + 9 = 233
    BY <2>2, Figured, SMTT(20)
  <2>4. Number(HexDigit, 16, <<"0", "0", "e", "9">>) = 233
    BY <2>2, <2>3, Figured
  <2> QED BY <1>4, <2>1, <2>4
<1> QED BY <1>3, <1>4

\* The ten digits and their values.
Tens == {"0", "1", "2", "3", "4", "5", "6", "7", "8", "9"}

\* See Tens.
LEMMA TensIs ==
    /\ Digit \in Seq(Tens) /\ Len(Digit) = 10 /\ ToSet(Digit) = Tens
    /\ \A k \in 0 .. 9 : Figure(Digit, Digit[k + 1]) = k
<1>1. Digit \in Seq(Tens) /\ Len(Digit) = 10
  BY DEF Digit, Tens
<1>2. /\ Digit[1] = "0" /\ Digit[2] = "1" /\ Digit[3] = "2" /\ Digit[4] = "3" /\ Digit[5] = "4"
      /\ Digit[6] = "5" /\ Digit[7] = "6" /\ Digit[8] = "7" /\ Digit[9] = "8" /\ Digit[10] = "9"
  BY DEF Digit
<1>3. \A i \in 1 .. 10 : i = 1 \/ i = 2 \/ i = 3 \/ i = 4 \/ i = 5 \/ i = 6 \/ i = 7 \/ i = 8 \/ i = 9 \/ i = 10
  OBVIOUS
<1>4. ToSet(Digit) = Tens
  <2>1. DOMAIN Digit = 1 .. 10
    BY <1>1
  <2>2. \A i \in 1 .. 10 : Digit[i] \in Tens
    <3>1. \A s \in Seq(Tens) : \A i \in 1 .. Len(s) : s[i] \in Tens
      OBVIOUS
    <3> QED BY <1>1, <3>1
  <2>3. \A c \in Tens : \E i \in 1 .. 10 : c = Digit[i]
    <3>1. 1 \in 1 .. 10 /\ 2 \in 1 .. 10 /\ 3 \in 1 .. 10 /\ 4 \in 1 .. 10 /\ 5 \in 1 .. 10 /\ 6 \in 1 .. 10
          /\ 7 \in 1 .. 10 /\ 8 \in 1 .. 10 /\ 9 \in 1 .. 10 /\ 10 \in 1 .. 10
      OBVIOUS
    <3> HIDE DEF Digit
    <3>2. \A c \in Tens : \/ c = "0" \/ c = "1" \/ c = "2" \/ c = "3" \/ c = "4" \/ c = "5" \/ c = "6"
                          \/ c = "7" \/ c = "8" \/ c = "9"
      BY DEF Tens
    <3> QED BY <1>2, <3>1, <3>2, Zenon
  <2>4. ToSet(Digit) = { Digit[i] : i \in 1 .. 10 }
    BY <2>1 DEF ToSet
  <2> QED BY <2>2, <2>3, <2>4
\* No digit occurs twice.
<1>5. ASSUME NEW i \in 1 .. 10, NEW j \in 1 .. 10, Digit[i] = Digit[j] PROVE i = j
  <2>1. Digit[i] = "0" => i = 1
    BY <1>2, <1>3
  <2>2. Digit[i] = "1" => i = 2
    BY <1>2, <1>3
  <2>3. Digit[i] = "2" => i = 3
    BY <1>2, <1>3
  <2>4. Digit[i] = "3" => i = 4
    BY <1>2, <1>3
  <2>5. Digit[i] = "4" => i = 5
    BY <1>2, <1>3
  <2>6. Digit[i] = "5" => i = 6
    BY <1>2, <1>3
  <2>7. Digit[i] = "6" => i = 7
    BY <1>2, <1>3
  <2>8. Digit[i] = "7" => i = 8
    BY <1>2, <1>3
  <2>9. Digit[i] = "8" => i = 9
    BY <1>2, <1>3
  <2>10. Digit[i] = "9" => i = 10
    BY <1>2, <1>3
  <2> QED BY <1>2, <1>3, <1>5, <2>1, <2>2, <2>3, <2>4, <2>5, <2>6, <2>7, <2>8, <2>9, <2>10
<1>6. ASSUME NEW k \in 0 .. 9 PROVE Figure(Digit, Digit[k + 1]) = k
  <2>1. k + 1 \in 1 .. Len(Digit) /\ (k + 1) - 1 = k
    BY <1>1
  <2>2. \A i \in 1 .. (k + 1) - 1 : Digit[i] # Digit[k + 1]
    <3> TAKE i \in 1 .. (k + 1) - 1
    <3>1. i \in 1 .. 10 /\ k + 1 \in 1 .. 10 /\ i # k + 1
      OBVIOUS
    <3> QED BY <1>5, <3>1
  <2>3. Figure(Digit, Digit[k + 1]) = (k + 1) - 1
    BY <1>1, <2>1, <2>2, FigureIs
  <2> QED BY <2>1, <2>3
<1> QED BY <1>1, <1>4, <1>6

\* The digits of every number up to n.
Digits(n) == CHOOSE f : f = [ k \in 0 .. n |-> IF k < 10 THEN <<Digit[k + 1]>> ELSE f[k \div 10] \o <<Digit[(k % 10) + 1]>> ]

\* A row of digits that has this value.
Means10(s, k) == s \in Seq(Tens) /\ s # <<>> /\ Number(Digit, 10, s) = k

\* The digits of a number have its value.
LEMMA DecimalIs == ASSUME NEW n \in Nat PROVE Means10(Decimal(n), n)
<1> DEFINE D == 0 .. n
           A == Seq(Tens)
           Body(k, f) == IF k < 10 THEN <<Digit[k + 1]>> ELSE f[k \div 10] \o <<Digit[(k % 10) + 1]>>
           Rec(f) == [ k \in 0 .. n |-> IF k < 10 THEN <<Digit[k + 1]>> ELSE f[k \div 10] \o <<Digit[(k % 10) + 1]>> ]
           m == [ k \in D |-> k ]
           step == [ k \in D |-> [ g \in [ D -> A ] |-> Body(k, g) ] ]
<1>1. Decimal(n) = Digits(n)[n]
  BY Zenon DEF Decimal, Digits
<1>2. \A f : Rec(f) = [ k \in D |-> Body(k, f) ]
  OBVIOUS
<1>3. \A i \in 1 .. 10 : Digit[i] \in Tens
  <2>1. \A s \in Seq(Tens) : \A i \in 1 .. Len(s) : s[i] \in Tens
    OBVIOUS
  <2> QED BY <2>1, TensIs
<1>4. ASSUME NEW k \in D
      PROVE  /\ k < 10 => k \in 0 .. 9 /\ k + 1 \in 1 .. 10
             /\ ~(k < 10) => /\ k \div 10 \in D /\ k \div 10 < k /\ k % 10 \in 0 .. 9 /\ (k % 10) + 1 \in 1 .. 10
                             /\ k = 10 * (k \div 10) + (k % 10)
  <2>1. k \in Nat /\ k <= n
    OBVIOUS
  <2>2. PICK q, r : q = k \div 10 /\ r = k % 10
    OBVIOUS
  <2>3. q \in Nat /\ r \in 0 .. 9 /\ k = 10 * q + r
    BY <2>1, <2>2
  <2>4. k < 10 => k \in 0 .. 9 /\ k + 1 \in 1 .. 10
    BY <2>1
  <2>5. ~(k < 10) => q \in D /\ q < k /\ r + 1 \in 1 .. 10
    BY <2>1, <2>3
  <2> QED BY <2>2, <2>3, <2>4, <2>5
<1> HIDE DEF Rec
<1>5. ASSUME NEW k \in D, NEW f \in [ D -> A ] PROVE Body(k, f) \in A
  <2>1. CASE k < 10
    <3>1. Digit[k + 1] \in Tens /\ Body(k, f) = <<Digit[k + 1]>>
      BY <1>3, <1>4, <2>1
    <3>2. \A c \in Tens : <<c>> \in Seq(Tens)
      OBVIOUS
    <3> HIDE DEF Body
    <3> QED BY <3>1, <3>2
  <2>2. CASE ~(k < 10)
    <3>1. f[k \div 10] \in Seq(Tens) /\ Digit[(k % 10) + 1] \in Tens
      BY <1>3, <1>4, <2>2
    <3>2. Body(k, f) = f[k \div 10] \o <<Digit[(k % 10) + 1]>>
      BY <2>2
    <3>3. \A s \in Seq(Tens), c \in Tens : s \o <<c>> \in Seq(Tens)
      OBVIOUS
    <3> QED BY <3>1, <3>2, <3>3
  <2> QED BY <2>1, <2>2
<1>6. step \in [ D -> [ [ D -> A ] -> A ] ]
  <2> HIDE DEF Body, A, D
  <2> QED BY <1>5
<1>7. Local(step, D, m)
  <2>1. ASSUME NEW x \in D, NEW f \in [ D -> A ], NEW g \in [ D -> A ], \A y \in D : m[y] < m[x] => f[y] = g[y]
        PROVE  Body(x, f) = Body(x, g)
    <3>1. CASE x < 10
      BY <3>1
    <3>2. CASE ~(x < 10)
      <4>1. PICK q \in D : q = x \div 10 /\ q < x
        BY <1>4, <3>2
      <4>2. f[q] = g[q]
        BY <2>1, <4>1
      <4> QED BY <3>2, <4>1, <4>2
    <3> QED BY <3>1, <3>2
  <2> HIDE DEF Body, A, m, D
  <2>2. \A x \in D : DOMAIN step[x] = [ D -> A ] /\ \A f \in [ D -> A ] : step[x][f] = Body(x, f)
    OBVIOUS
  <2> HIDE DEF step
  <2> QED BY <2>1, <2>2 DEF Local
<1>8. m \in [ D -> 0 .. n ]
  OBVIOUS
<1>9. PICK f \in [ D -> A ] : \A x \in D : f[x] = step[x][f]
  <2>1. <<>> \in A
    OBVIOUS
  <2> HIDE DEF m, D, A, step
  <2>2. Recursive(step, D, A, <<>>, m, n)
    BY <1>6, <1>7, <1>8, <2>1 DEF Recursive
  <2> QED BY <2>2, Recursion
<1>10. f = Rec(f)
  <2>1. \A x \in D : f[x] = Body(x, f)
    <3> HIDE DEF D, Body, A
    <3> QED BY <1>9
  <2> HIDE DEF Body, D, A
  <2> QED BY <1>2, <1>9, <2>1
<1> DEFINE H == Digits(n)
<1>11. H = Rec(H)
  <2>1. H = CHOOSE h : h = Rec(h)
    BY Zenon DEF Digits, Rec
  <2> HIDE DEF H
  <2> QED BY <1>10, <2>1
<1> HIDE DEF H
<1>12. \A k \in D : H[k] = Body(k, H)
  <2> HIDE DEF D, Body
  <2> QED BY <1>2, <1>11
<1> DEFINE T == { k \in D : Means10(H[k], k) }
<1>13. Number(Digit, 10, <<>>) = 0 /\ 10 \in Nat
  BY TensIs, NumberNone
<1>14. ASSUME NEW s \in Seq(Tens), NEW k \in 0 .. 9
       PROVE  /\ Number(Digit, 10, s) \in Int
              /\ Number(Digit, 10, Append(s, Digit[k + 1])) = Number(Digit, 10, s) * 10 + k
  <2>1. Digit[k + 1] \in Tens
    <3>1. k + 1 \in 1 .. 10
      OBVIOUS
    <3> QED BY <1>3, <3>1
  <2>2. Number(Digit, 10, s) \in Int /\ Number(Digit, 10, Append(s, Digit[k + 1])) = Grown(Digit, 10, Number(Digit, 10, s), Digit[k + 1])
    BY <1>13, <2>1, TensIs, NumberMore
  <2>3. \A v \in Int : Grown(Digit, 10, v, Digit[k + 1]) = v * 10 + Figure(Digit, Digit[k + 1])
    BY <1>13, TensIs, GrownIs
  <2>4. Figure(Digit, Digit[k + 1]) = k
    BY TensIs
  <2> QED BY <2>2, <2>3, <2>4
<1>15. ASSUME NEW x \in D, \A y \in D : m[y] < m[x] => y \in T PROVE x \in T
  <2>1. CASE x < 10
    <3>1. x \in 0 .. 9 /\ H[x] = <<Digit[x + 1]>> /\ Digit[x + 1] \in Tens
      BY <1>3, <1>4, <1>12, <2>1
    <3>2. <<Digit[x + 1]>> = Append(<<>>, Digit[x + 1]) /\ <<>> \in Seq(Tens)
      OBVIOUS
    <3>3. Number(Digit, 10, <<Digit[x + 1]>>) = x
      <4>1. Number(Digit, 10, Append(<<>>, Digit[x + 1])) = Number(Digit, 10, <<>>) * 10 + x
        BY <1>14, <3>1, <3>2
      <4>2. 0 * 10 + x = x
        OBVIOUS
      <4> QED BY <1>13, <3>2, <4>1, <4>2
    <3>4. \A c \in Tens : <<c>> \in Seq(Tens) /\ <<c>> # <<>>
      OBVIOUS
    <3>5. Means10(H[x], x)
      BY <3>1, <3>3, <3>4 DEF Means10
    <3> QED BY <3>5
  <2>2. CASE ~(x < 10)
    <3>1. PICK q, r : q = x \div 10 /\ r = x % 10
      OBVIOUS
    <3>2. q \in D /\ q < x /\ r \in 0 .. 9 /\ r + 1 \in 1 .. 10 /\ x = 10 * q + r
      BY <1>4, <2>2, <3>1
    <3>3. Means10(H[q], q)
      <4>1. m[q] < m[x]
        BY <3>2
      <4> HIDE DEF m, D
      <4> QED BY <1>15, <3>2, <4>1
    <3>4. H[x] = H[q] \o <<Digit[r + 1]>>
      BY <1>12, <2>2, <3>1
    <3>5. Digit[r + 1] \in Tens
      BY <1>3, <3>2
    <3>6. \A s \in Seq(Tens), c \in Tens : s \o <<c>> = Append(s, c) /\ s \o <<c>> \in Seq(Tens) /\ s \o <<c>> # <<>>
      OBVIOUS
    <3>7. H[q] \in Seq(Tens) /\ Number(Digit, 10, H[q]) = q
      BY <3>3 DEF Means10
    <3>8. Number(Digit, 10, H[x]) = q * 10 + r
      BY <1>14, <3>2, <3>4, <3>5, <3>6, <3>7
    <3>9. q * 10 + r = x
      BY <3>2
    <3>10. H[x] \in Seq(Tens) /\ H[x] # <<>>
      BY <3>4, <3>5, <3>6, <3>7
    <3> QED BY <3>8, <3>9, <3>10 DEF Means10
  <2> QED BY <2>1, <2>2
<1>16. \A x \in D : x \in T
  <2>1. m \in [ D -> Nat ]
    OBVIOUS
  <2> HIDE DEF T, D, m
  <2> QED BY <1>15, <2>1, Descend
<1>17. n \in D
  OBVIOUS
<1> QED BY <1>1, <1>16, <1>17 DEF H

\* A number is read as it was written.
LEMMA NumberRead ==
    ASSUME NEW n \in Nat, NEW p, NEW key, json_raw(p, key) = Decimal(n)
    PROVE  json_u32(p, key) = n
<1> DEFINE raw == json_raw(p, key)
           Unsigned == IF At(raw, 1, "+") THEN Tail(raw) ELSE raw
<1>1. json_u32(p, key) = IF Unsigned # <<>> /\ ToSet(Unsigned) \subseteq ToSet(Digit)
                         THEN Number(Digit, 10, Unsigned) ELSE -1
  BY Zenon DEF json_u32, Number
<1>2. raw \in Seq(Tens) /\ raw # <<>> /\ Number(Digit, 10, raw) = n
  BY DecimalIs DEF Means10
<1> HIDE DEF raw
<1>3. ~At(raw, 1, "+")
  <2>1. "+" \notin Tens
    BY DEF Tens
  <2> QED BY <1>2, <2>1 DEF At
<1>4. ToSet(raw) \subseteq Tens
  BY <1>2 DEF ToSet
<1> QED BY <1>1, <1>2, <1>3, <1>4, TensIs

-----------------------------------------------------------------------------
(* Strings that are written.                                               *)

\* What spells a character: itself, an escape, or for the two halves of the
\* one outside ASCII the escape of both and nothing.
Spell(w, c, ascii) ==
    \/ c \notin {Quote, Bs} /\ (ascii => c \notin {"L", "C"}) /\ w = <<c>>
    \/ c \in Signs /\ \E e : e # "u" /\ Escaped(e) = <<c>> /\ w = <<Bs, e>>
    \/ c = "ctl" /\ w = <<Bs, "u", "0", "0", "0", "1">>
    \/ c = "L" /\ ascii /\ w = <<Bs, "u", "0", "0", "e", "9">>
    \/ c = "C" /\ ascii /\ w = <<>>
Spells(P, chars, ascii) == Len(P) = Len(chars) /\ \A k \in 1 .. Len(chars) : Spell(P[k], chars[k], ascii)

\* What stands at a place.
Placed(p, v, w) == v + Len(w) - 1 <= Len(p) /\ \A i \in 1 .. Len(w) : p[v + i - 1] = w[i]

\* The end of a string is behind what spells a character in it.
LEMMA EndsOver ==
    ASSUME NEW S, NEW p \in Seq(S), NEW v \in Nat \ {0}, NEW c, NEW ascii, NEW w, Spell(w, c, ascii), Placed(p, v, w)
    PROVE  Ends(p)[v] = Ends(p)[v + Len(w)]
<1> USE DEF Placed
<1>0. Quote # Bs /\ Len(p) \in Nat /\ v \in Nat /\ v >= 1
  BY DEF Quote, Bs
<1>1. ASSUME NEW j \in 1 .. Len(p)
      PROVE  /\ p[j] = Bs => Ends(p)[j] = Ends(p)[j + 2]
             /\ p[j] # Bs /\ p[j] # Quote => Ends(p)[j] = Ends(p)[j + 1]
  BY <1>0, EndsIs
<1>2. CASE c \notin {Quote, Bs} /\ w = <<c>>
  <2>1. Len(w) = 1 /\ w[1] = c
    BY <1>2
  <2>2. v \in 1 .. Len(p) /\ p[v] = c
    <3>1. 1 \in 1 .. Len(w) /\ v + 1 - 1 = v
      BY <1>0, <2>1
    <3> QED BY <1>0, <2>1, <3>1
  <2> QED BY <1>1, <1>2, <2>1, <2>2
<1>3. CASE \E e : w = <<Bs, e>>
  <2>1. Len(w) = 2 /\ w[1] = Bs
    BY <1>3
  <2>2. v \in 1 .. Len(p) /\ p[v] = Bs
    <3>1. 1 \in 1 .. Len(w) /\ v + 1 - 1 = v
      BY <1>0, <2>1
    <3> QED BY <1>0, <2>1, <3>1
  <2> QED BY <1>1, <2>1, <2>2
<1>4. CASE \E a, b : w = <<Bs, "u", "0", "0", a, b>> /\ a \in {"0", "e"} /\ b \in {"1", "9"}
  <2>1. /\ Len(w) = 6 /\ w[1] = Bs /\ w[3] = "0" /\ w[4] = "0" /\ w[5] \in {"0", "e"} /\ w[6] \in {"1", "9"}
    BY <1>4
  <2>2. \A i \in 1 .. 6 : p[v + i - 1] = w[i] /\ v + i - 1 \in 1 .. Len(p)
    BY <1>0, <2>1
  <2>3. /\ 1 \in 1 .. 6 /\ 3 \in 1 .. 6 /\ 4 \in 1 .. 6 /\ 5 \in 1 .. 6 /\ 6 \in 1 .. 6
        /\ v + 1 - 1 = v /\ v + 3 - 1 = v + 2 /\ v + 4 - 1 = v + 3 /\ v + 5 - 1 = v + 4 /\ v + 6 - 1 = v + 5
    BY <1>0
  <2>4. /\ p[v] = Bs /\ v \in 1 .. Len(p)
        /\ p[v + 2] = "0" /\ v + 2 \in 1 .. Len(p)
        /\ p[v + 3] = "0" /\ v + 3 \in 1 .. Len(p)
        /\ p[v + 4] \in {"0", "e"} /\ v + 4 \in 1 .. Len(p)
        /\ p[v + 5] \in {"1", "9"} /\ v + 5 \in 1 .. Len(p)
    BY <2>1, <2>2, <2>3
  <2>5. \A x \in {"0", "1", "e", "9"} : x # Bs /\ x # Quote
    BY DEF Quote, Bs
  <2>6. Ends(p)[v] = Ends(p)[v + 2]
    BY <1>1, <2>4
  <2>7. Ends(p)[v + 2] = Ends(p)[v + 2 + 1]
    BY <1>1, <2>4, <2>5
  <2>8. Ends(p)[v + 3] = Ends(p)[v + 3 + 1]
    BY <1>1, <2>4, <2>5
  <2>9. Ends(p)[v + 4] = Ends(p)[v + 4 + 1]
    BY <1>1, <2>4, <2>5
  <2>10. Ends(p)[v + 5] = Ends(p)[v + 5 + 1]
    BY <1>1, <2>4, <2>5
  <2>11. v + 2 + 1 = v + 3 /\ v + 3 + 1 = v + 4 /\ v + 4 + 1 = v + 5 /\ v + 5 + 1 = v + 6
    BY <1>0
  <2> QED BY <2>1, <2>6, <2>7, <2>8, <2>9, <2>10, <2>11
<1>5. CASE w = <<>>
  <2>1. Len(w) = 0 /\ v + 0 = v
    BY <1>0, <1>5
  <2> QED BY <2>1
<1>6. \/ c \notin {Quote, Bs} /\ w = <<c>>
      \/ \E e : w = <<Bs, e>>
      \/ \E a, b : w = <<Bs, "u", "0", "0", a, b>> /\ a \in {"0", "e"} /\ b \in {"1", "9"}
      \/ w = <<>>
  BY DEF Spell
<1> QED BY <1>2, <1>3, <1>4, <1>5, <1>6

\* A string, between quotes.
Quoted(P) == <<Quote>> \o FlattenSeq(P) \o <<Quote>>

\* Its symbols.
LEMMA QuotedIs ==
    ASSUME NEW S, Quote \in S, NEW P \in Seq(Seq(S))
    PROVE  /\ Quoted(P) \in Seq(S) /\ Len(Quoted(P)) = Len(FlattenSeq(P)) + 2
           /\ Quoted(P)[1] = Quote /\ Quoted(P)[Len(FlattenSeq(P)) + 2] = Quote
           /\ \A i \in 1 .. Len(FlattenSeq(P)) : Quoted(P)[i + 1] = FlattenSeq(P)[i]
           /\ SubSeq(Quoted(P), 2, Len(FlattenSeq(P)) + 1) = FlattenSeq(P)
           /\ Len(FlattenSeq(P)) \in Nat
<1>1. PICK s \in Seq(S) : s = FlattenSeq(P)
  BY FlattenTyped
<1>2. <<Quote>> \o s \o <<Quote>> \in Seq(S) /\ Len(<<Quote>> \o s \o <<Quote>>) = Len(s) + 2 /\ Len(s) \in Nat
  OBVIOUS
<1>3. (<<Quote>> \o s \o <<Quote>>)[1] = Quote /\ (<<Quote>> \o s \o <<Quote>>)[Len(s) + 2] = Quote
  OBVIOUS
<1>4. \A i \in 1 .. Len(s) : (<<Quote>> \o s \o <<Quote>>)[i + 1] = s[i]
  OBVIOUS
<1>5. SubSeq(<<Quote>> \o s \o <<Quote>>, 2, Len(s) + 1) = s
  <2>1. PICK t \in Seq(S) : t = <<Quote>> \o s \o <<Quote>>
    BY <1>2
  <2>2. SubSeq(t, 2, Len(s) + 1) \in Seq(S) /\ Len(SubSeq(t, 2, Len(s) + 1)) = Len(s)
    BY <1>2, <2>1
  <2>3. \A i \in 1 .. Len(s) : SubSeq(t, 2, Len(s) + 1)[i] = t[i + 1]
    BY <1>2, <2>1
  <2> QED BY <1>4, <2>1, <2>2, <2>3, SameElements
<1> QED BY <1>1, <1>2, <1>3, <1>4, <1>5 DEF Quoted

\* Where the pieces of a string stand in it.
Starts(P) == [ k \in 0 .. Len(P) |-> Len(Joined(P, k)) ]
LEMMA StartsAt ==
    ASSUME NEW S, NEW P \in Seq(Seq(S)), NEW k \in 0 .. Len(P) - 1
    PROVE  /\ Starts(P)[k] \in Nat /\ Starts(P)[k + 1] \in Nat /\ Len(P[k + 1]) \in Nat
           /\ Starts(P)[k + 1] = Starts(P)[k] + Len(P[k + 1])
           /\ Starts(P)[k + 1] <= Len(FlattenSeq(P))
           /\ \A i \in 1 .. Len(P[k + 1]) : FlattenSeq(P)[Starts(P)[k] + i] = P[k + 1][i]
<1>1. P[k + 1] \in Seq(S) /\ k \in 0 .. Len(P) /\ k + 1 \in 0 .. Len(P)
  OBVIOUS
<1>2. Starts(P)[k] = Len(Joined(P, k)) /\ Starts(P)[k + 1] = Len(Joined(P, k + 1))
  BY <1>1 DEF Starts
<1>3. \A j \in 0 .. Len(P) : Joined(P, j) \in Seq(S)
  BY JoinedIs
<1>4. \A t \in Seq(S) : Len(t) \in Nat
  OBVIOUS
<1>5. Len(Joined(P, k)) \in Nat /\ Len(Joined(P, k + 1)) \in Nat /\ Len(P[k + 1]) \in Nat
  BY <1>1, <1>3, <1>4
<1>6. /\ Len(Joined(P, k + 1)) = Len(Joined(P, k)) + Len(P[k + 1])
      /\ Len(Joined(P, k)) + Len(P[k + 1]) <= Len(FlattenSeq(P))
      /\ \A i \in 1 .. Len(P[k + 1]) : FlattenSeq(P)[Len(Joined(P, k)) + i] = P[k + 1][i]
  BY PieceAt
<1>7. Starts(P)[k + 1] <= Len(FlattenSeq(P))
  BY <1>2, <1>5, <1>6
<1> QED BY <1>2, <1>5, <1>6, <1>7

\* The first and the last of these places.
LEMMA StartsEnds ==
    ASSUME NEW S, NEW P \in Seq(Seq(S))
    PROVE  Starts(P)[0] = 0 /\ Starts(P)[Len(P)] = Len(FlattenSeq(P)) /\ Len(P) \in Nat
<1>1. Len(P) \in Nat /\ 0 \in 0 .. Len(P) /\ Len(P) \in 0 .. Len(P) /\ Len(<<>>) = 0
  OBVIOUS
<1>2. Starts(P)[0] = Len(Joined(P, 0)) /\ Starts(P)[Len(P)] = Len(Joined(P, Len(P)))
  BY <1>1 DEF Starts
<1>3. Joined(P, 0) = <<>> /\ Joined(P, Len(P)) = FlattenSeq(P)
  BY JoinedIs
<1> QED BY <1>1, <1>2, <1>3

\* What is written inside a string stands there.
LEMMA Inside ==
    ASSUME NEW S, Quote \in S, NEW P \in Seq(Seq(S)), NEW R, NEW p \in Seq(R), NEW v \in Nat \ {0}, Placed(p, v, Quoted(P))
    PROVE  /\ Len(FlattenSeq(P)) \in Nat /\ v + Len(FlattenSeq(P)) + 1 <= Len(p)
           /\ p[v] = Quote /\ p[v + Len(FlattenSeq(P)) + 1] = Quote
           /\ \A i \in 1 .. Len(FlattenSeq(P)) : p[v + i] = FlattenSeq(P)[i]
<1>1. PICK s, w : s = FlattenSeq(P) /\ w = Quoted(P)
  OBVIOUS
<1>2. /\ Len(s) \in Nat /\ Len(w) = Len(s) + 2 /\ w[1] = Quote /\ w[Len(s) + 2] = Quote
      /\ \A i \in 1 .. Len(s) : w[i + 1] = s[i]
  BY <1>1, QuotedIs
<1>3. v + (Len(s) + 2) - 1 <= Len(p) /\ \A i \in 1 .. Len(s) + 2 : p[v + i - 1] = w[i]
  BY <1>1, <1>2 DEF Placed
<1>4. /\ 1 \in 1 .. Len(s) + 2 /\ v + 1 - 1 = v /\ Len(s) + 2 \in 1 .. Len(s) + 2
      /\ v + (Len(s) + 2) - 1 = v + Len(s) + 1
      /\ \A i \in 1 .. Len(s) : i + 1 \in 1 .. Len(s) + 2 /\ v + (i + 1) - 1 = v + i
  BY <1>2
<1>5. p[v] = Quote
  BY <1>2, <1>3, <1>4
<1>6. p[v + Len(s) + 1] = Quote
  BY <1>2, <1>3, <1>4
<1>7. ASSUME NEW i \in 1 .. Len(s) PROVE p[v + i] = s[i]
  <2>1. p[v + (i + 1) - 1] = w[i + 1]
    BY <1>3, <1>4
  <2> QED BY <1>2, <1>4, <2>1
<1>8. v + Len(s) + 1 <= Len(p)
  BY <1>2, <1>3
<1> QED BY <1>1, <1>2, <1>5, <1>6, <1>7, <1>8

\* A string ends where it was written to end.
LEMMA QuotedScanned ==
    ASSUME NEW S, Quote \in S, NEW P \in Seq(Seq(S)), NEW chars, NEW ascii, Spells(P, chars, ascii),
           NEW R, NEW p \in Seq(R), NEW v \in Nat \ {0}, Placed(p, v, Quoted(P))
    PROVE  scan_string(p, v) = v + Len(Quoted(P))
<1>1. PICK s, n, o, e, E : s = FlattenSeq(P) /\ n = Len(P) /\ o = Starts(P) /\ e = v + Len(s) + 2 /\ E = Ends(p)
  OBVIOUS
<1>2. /\ n \in Nat /\ Len(s) \in Nat /\ v \in Nat /\ v >= 1 /\ o[0] = 0 /\ o[n] = Len(s)
      /\ v + Len(s) + 1 <= Len(p) /\ Len(p) \in Nat
  BY <1>1, StartsEnds, Inside
<1>3. p[v] = Quote /\ p[v + Len(s) + 1] = Quote /\ \A i \in 1 .. Len(s) : p[v + i] = s[i]
  BY <1>1, Inside
<1> DEFINE T == { d \in Nat : d <= n => E[v + 1 + o[n - d]] = e }
<1>4. 0 \in T
  <2>1. v + Len(s) + 1 \in 1 .. Len(p)
    BY <1>2
  <2>2. Quote # Bs
    BY DEF Quote, Bs
  <2>3. E[v + Len(s) + 1] = v + Len(s) + 1 + 1
    BY <1>1, <1>3, <2>1, <2>2, EndsIs
  <2>4. v + 1 + o[n] = v + Len(s) + 1 /\ v + Len(s) + 1 + 1 = e /\ n - 0 = n
    BY <1>1, <1>2
  <2> QED BY <2>3, <2>4
<1>5. ASSUME NEW d \in T PROVE d + 1 \in T
  <2>1. CASE d + 1 <= n
    <3>1. PICK k : k = n - (d + 1)
      OBVIOUS
    <3>2. k \in 0 .. n - 1 /\ k + 1 = n - d /\ k + 1 \in 1 .. n /\ d <= n
      BY <1>2, <2>1, <3>1
    <3>3. E[v + 1 + o[k + 1]] = e
      BY <3>2
    <3>4. PICK w, j, x, y : w = P[k + 1] /\ j = v + 1 + o[k] /\ x = o[k] /\ y = o[k + 1]
      OBVIOUS
    <3>5. /\ x \in Nat /\ y \in Nat /\ Len(w) \in Nat /\ y = x + Len(w) /\ y <= Len(s)
          /\ \A i \in 1 .. Len(w) : s[x + i] = w[i]
      <4>1. k \in 0 .. Len(P) - 1
        BY <1>1, <3>2
      <4>2. /\ Starts(P)[k] \in Nat /\ Starts(P)[k + 1] \in Nat /\ Len(P[k + 1]) \in Nat
            /\ Starts(P)[k + 1] = Starts(P)[k] + Len(P[k + 1])
            /\ Starts(P)[k + 1] <= Len(FlattenSeq(P))
            /\ \A i \in 1 .. Len(P[k + 1]) : FlattenSeq(P)[Starts(P)[k] + i] = P[k + 1][i]
        BY <4>1, StartsAt
      <4>3. x = Starts(P)[k] /\ y = Starts(P)[k + 1]
        BY <1>1, <3>4
      <4> QED BY <1>1, <3>4, <4>2, <4>3, Zenon
    <3>6. j \in Nat \ {0} /\ j = v + 1 + x
      <4>1. j = v + 1 + x
        BY <3>4
      <4>2. x \in Nat
        BY <3>5
      <4> QED BY <1>2, <4>1, <4>2
    <3>7. Placed(p, j, w)
      <4>1. j + Len(w) - 1 <= Len(p)
        BY <1>2, <3>5, <3>6
      <4>2. ASSUME NEW i \in 1 .. Len(w) PROVE p[j + i - 1] = w[i]
        <5>1. x + i \in 1 .. Len(s) /\ j + i - 1 = v + (x + i)
          BY <1>2, <3>5, <3>6
        <5>2. p[v + (x + i)] = s[x + i]
          BY <1>3, <5>1
        <5> QED BY <3>5, <5>1, <5>2
      <4> QED BY <4>1, <4>2 DEF Placed
    <3>8. Spell(w, chars[k + 1], ascii)
      BY <1>1, <3>2, <3>4 DEF Spells
    <3>9. E[j] = E[j + Len(w)]
      BY <1>1, <3>6, <3>7, <3>8, EndsOver
    <3>10. j + Len(w) = v + 1 + y /\ n - (d + 1) = k
      BY <1>2, <3>1, <3>5, <3>6
    <3>11. E[v + 1 + o[n - (d + 1)]] = e
      BY <3>3, <3>4, <3>9, <3>10
    <3> QED BY <3>11
  <2>2. CASE ~(d + 1 <= n)
    BY <2>2
  <2> QED BY <2>1, <2>2
<1>6. T = Nat
  <2> HIDE DEF T
  <2>1. T \subseteq Nat
    BY DEF T
  <2> QED BY <1>4, <1>5, <2>1, Induct
<1>7. E[v + 1] = e
  <2>1. n \in T /\ n - n = 0 /\ n <= n
    <3> HIDE DEF T
    <3> QED BY <1>2, <1>6
  <2>2. v + 1 + o[n - n] = v + 1
    BY <1>2, <2>1
  <2> QED BY <1>2, <2>1, <2>2
<1>8. scan_string(p, v) = E[v + 1]
  <2>1. At(p, v, Quote)
    BY <1>2, <1>3 DEF At
  <2> QED BY <1>1, <2>1, ScanString, Zenon
<1>9. Len(Quoted(P)) = Len(s) + 2
  BY <1>1, QuotedIs
<1> QED BY <1>1, <1>2, <1>7, <1>8, <1>9

-----------------------------------------------------------------------------
(* Strings that are read.                                                  *)

\* A part of a sequence in two.
LEMMA SubSeqSplit ==
    ASSUME NEW S, NEW x \in Seq(S), NEW a \in Nat, NEW b \in Nat, a <= b, b <= Len(x)
    PROVE  SubSeq(x, a + 1, b) \o SubSeq(x, b + 1, Len(x)) = SubSeq(x, a + 1, Len(x))
<1>1. PICK n : n = Len(x)
  OBVIOUS
<1>2. n \in Nat /\ b <= n /\ a <= n
  BY <1>1
<1>3. PICK c, d, e : c = b - a /\ d = n - b /\ e = n - a
  OBVIOUS
<1>4. c \in Nat /\ d \in Nat /\ e \in Nat /\ a + c = b /\ b + d = n /\ a + e = n /\ e = c + d
  BY <1>2, <1>3
<1>5. PICK f, g, h : f = SubSeq(x, a + 1, a + c) /\ g = SubSeq(x, b + 1, b + d) /\ h = SubSeq(x, a + 1, a + e)
  OBVIOUS
<1>6. a + c <= Len(x) /\ b + d <= Len(x) /\ a + e <= Len(x)
  BY <1>1, <1>2, <1>4
<1>7. f \in Seq(S) /\ Len(f) = c /\ \A i \in 1 .. c : f[i] = x[a + i]
  BY <1>4, <1>5, <1>6, SubSeqFacts
<1>8. g \in Seq(S) /\ Len(g) = d /\ \A i \in 1 .. d : g[i] = x[b + i]
  BY <1>4, <1>5, <1>6, SubSeqFacts
<1>9. h \in Seq(S) /\ Len(h) = e /\ \A i \in 1 .. e : h[i] = x[a + i]
  BY <1>4, <1>5, <1>6, SubSeqFacts, SMTT(20)
<1>10. h = f \o g
  <2>1. \A i \in 1 .. c : i \in 1 .. e
    BY <1>4
  <2>2. \A i \in 1 .. d : c + i \in 1 .. e /\ a + (c + i) = b + i
    BY <1>4
  <2>3. \A i \in 1 .. Len(f) : h[i] = f[i]
    BY <1>7, <1>9, <2>1
  <2>4. \A i \in 1 .. Len(g) : h[Len(f) + i] = g[i]
    BY <1>7, <1>8, <1>9, <2>2
  <2>5. Len(h) = Len(f) + Len(g)
    BY <1>4, <1>7, <1>8, <1>9
  <2> QED BY <1>7, <1>8, <1>9, <2>3, <2>4, <2>5, IsConcat
<1> QED BY <1>1, <1>4, <1>5, <1>10

\* Sequences of one and of two elements.
LEMMA OneElement ==
    ASSUME NEW S, NEW t \in Seq(S), Len(t) = 1
    PROVE  t = <<t[1]>>
<1>1. PICK a \in S : a = t[1]
  OBVIOUS
<1>2. <<a>> \in Seq(S) /\ Len(<<a>>) = 1 /\ \A i \in 1 .. 1 : t[i] = <<a>>[i]
  BY <1>1
<1> QED BY <1>1, <1>2, SameElements

\* The same of two.
LEMMA TwoElements ==
    ASSUME NEW S, NEW t \in Seq(S), Len(t) = 2
    PROVE  t = <<t[1], t[2]>>
<1>1. PICK a, b : a = t[1] /\ b = t[2] /\ a \in S /\ b \in S
  OBVIOUS
<1>2. <<a, b>> \in Seq(S) /\ Len(<<a, b>>) = 2 /\ \A i \in 1 .. 2 : t[i] = <<a, b>>[i]
  BY <1>1
<1> QED BY <1>1, <1>2, SameElements

\* One element of a sequence.
LEMMA SubSeqUnit ==
    ASSUME NEW S, NEW s \in Seq(S), NEW k \in 1 .. Len(s)
    PROVE  SubSeq(s, k, k) = <<s[k]>>
<1>1. PICK t : t = SubSeq(s, k, k)
  OBVIOUS
<1>2. t \in Seq(S) /\ Len(t) = 1 /\ t[1] = s[k]
  <2>1. PICK m : m = k - 1
    OBVIOUS
  <2>2. m \in Nat /\ 1 \in Nat /\ m + 1 <= Len(s) /\ m + 1 = k /\ 1 \in 1 .. 1
    BY <2>1
  <2>3. SubSeq(s, m + 1, m + 1) \in Seq(S) /\ Len(SubSeq(s, m + 1, m + 1)) = 1
        /\ \A i \in 1 .. 1 : SubSeq(s, m + 1, m + 1)[i] = s[m + i]
    BY ONLY <2>2, SubSeqFacts, s \in Seq(S)
  <2> QED BY <1>1, <2>2, <2>3
<1>3. t = <<t[1]>>
  BY <1>2, OneElement
<1> QED BY <1>1, <1>2, <1>3

\* The rest of a sequence, its first element apart.
LEMMA SubSeqFirst ==
    ASSUME NEW S, NEW x \in Seq(S), NEW k \in 0 .. Len(x) - 1
    PROVE  SubSeq(x, k + 1, Len(x)) = <<x[k + 1]>> \o SubSeq(x, k + 2, Len(x))
<1>1. k \in Nat /\ k + 1 \in Nat /\ k <= k + 1 /\ k + 1 <= Len(x) /\ k + 1 + 1 = k + 2
  OBVIOUS
<1>2. SubSeq(x, k + 1, k + 1) \o SubSeq(x, k + 1 + 1, Len(x)) = SubSeq(x, k + 1, Len(x))
  BY <1>1, SubSeqSplit
<1>3. SubSeq(x, k + 1, k + 1) = <<x[k + 1]>>
  <2>1. k + 1 \in 1 .. Len(x)
    BY <1>1
  <2> QED BY <2>1, SubSeqUnit
<1> QED BY <1>1, <1>2, <1>3

\* A piece of a string.
Stands(S, P, k, s, x, w) ==
    /\ s \in Seq(S) /\ Len(s) \in Nat /\ x \in Nat /\ Starts(P)[k + 1] = x + Len(w) /\ x + Len(w) <= Len(s)
    /\ \A i \in 1 .. Len(w) : s[x + i] = w[i]
LEMMA PieceFound ==
    ASSUME NEW S, NEW P \in Seq(Seq(S)), NEW k \in 0 .. Len(P) - 1
    PROVE  Stands(S, P, k, FlattenSeq(P), Starts(P)[k], P[k + 1])
<1>1. /\ Starts(P)[k] \in Nat
      /\ Starts(P)[k + 1] = Starts(P)[k] + Len(P[k + 1])
      /\ Starts(P)[k + 1] <= Len(FlattenSeq(P))
      /\ \A i \in 1 .. Len(P[k + 1]) : FlattenSeq(P)[Starts(P)[k] + i] = P[k + 1][i]
  BY StartsAt
<1>2. FlattenSeq(P) \in Seq(S)
  BY FlattenTyped
<1>3. Len(FlattenSeq(P)) \in Nat
  BY <1>2
<1>4. Starts(P)[k] + Len(P[k + 1]) <= Len(FlattenSeq(P))
  BY <1>1, Zenon
<1> QED BY <1>1, <1>2, <1>3, <1>4, Zenon DEF Stands

\* What an escape is read as.
LEMMA EscapeMeans ==
    ASSUME NEW S, NEW s \in Seq(S), NEW i \in 1 .. Len(s) - 1, s[i] = Bs
    PROVE  Sense(s)[i] =
               IF s[i + 1] # "u" THEN Escaped(s[i + 1]) \o Sense(s)[i + 2]
               ELSE IF parse_u16_hex(s, i + 2) >= 0
               THEN Char(parse_u16_hex(s, i + 2)) \o Sense(s)[i + 6] ELSE Sense(s)[i + 2]
<1>1. i \in 1 .. Len(s) + 1 /\ i \in Nat /\ ~(i > Len(s)) /\ i # Len(s) /\ ~(i > i)
  OBVIOUS
<1>2. Slash(s, i) = i
  <2>1. Slash(s, i) \in i .. Len(s) + 1 /\ \A k \in i .. Slash(s, i) - 1 : s[k] # Bs
    BY <1>1, SlashIs
  <2>2. CASE Slash(s, i) > i
    <3>1. i \in i .. Slash(s, i) - 1
      BY <1>1, <2>1, <2>2
    <3> QED BY <2>1, <3>1
  <2> QED BY <1>1, <2>1, <2>2
<1>3. Sense(s)[i] = Sounds(s, Sense(s), i)
  BY <1>1, SenseIs
<1> QED BY <1>1, <1>2, <1>3, Zenon DEF Sounds

\* The rest of a string is read from where a character begins.
Reading(P, chars, k) == Sense(FlattenSeq(P))[Starts(P)[k] + 1] = SubSeq(chars, k + 1, Len(chars))
Begun(chars, k) == k = Len(chars) \/ chars[k + 1] # "C"
ReadsOn(P, chars, k) == \A j \in k + 1 .. Len(chars) : Begun(chars, j) => Reading(P, chars, j)

\* The next character begins behind one that is whole.
LEMMA BegunNext ==
    ASSUME NEW C, NEW chars \in Seq(C), Whole(chars), NEW k \in 0 .. Len(chars) - 1, chars[k + 1] # "L"
    PROVE  Begun(chars, k + 1)
<1>1. CASE k + 1 # Len(chars) /\ chars[k + 1 + 1] = "C"
  <2>1. k + 2 \in 1 .. Len(chars) /\ k + 1 + 1 = k + 2 /\ k + 2 - 1 = k + 1
    BY <1>1
  <2>2. chars[k + 1] = "L"
    BY <1>1, <2>1 DEF Whole
  <2> QED BY <2>2
<1> QED BY <1>1 DEF Begun

\* A character that is written as an escape of one letter.
LEMMA EscapeRead ==
    ASSUME NEW S, NEW P \in Seq(Seq(S)), NEW C, NEW chars \in Seq(C), Whole(chars), Len(P) = Len(chars),
           NEW k \in 0 .. Len(P) - 1, ReadsOn(P, chars, k),
           NEW e, e # "u", Escaped(e) = <<chars[k + 1]>>, P[k + 1] = <<Bs, e>>, chars[k + 1] # "L"
    PROVE  Reading(P, chars, k)
<1>1. PICK s, f, x : s = FlattenSeq(P) /\ f = Sense(s) /\ x = Starts(P)[k]
  OBVIOUS
<1>2. PICK w : w = P[k + 1] /\ w = <<Bs, e>>
  OBVIOUS
<1>3. Len(w) = 2 /\ w[1] = Bs /\ w[2] = e /\ 1 \in 1 .. 2 /\ 2 \in 1 .. 2
  BY <1>2
<1>4. /\ s \in Seq(S) /\ Len(s) \in Nat /\ x \in Nat /\ Starts(P)[k + 1] = x + Len(w) /\ x + Len(w) <= Len(s)
      /\ \A i \in 1 .. Len(w) : s[x + i] = w[i]
  <2>1. Stands(S, P, k, s, x, w)
    BY <1>1, <1>2, PieceFound
  <2> QED BY <2>1, Zenon DEF Stands
<1>5. s[x + 1] = Bs /\ s[x + 2] = e /\ Starts(P)[k + 1] = x + 2 /\ x + 2 <= Len(s)
  BY <1>3, <1>4
<1>6. f[x + 1] = Escaped(e) \o f[x + 3]
  <2>1. x + 1 \in 1 .. Len(s) - 1 /\ x + 1 + 1 = x + 2 /\ x + 1 + 2 = x + 3
    BY <1>4, <1>5
  <2>2. Sense(s)[x + 1] = Escaped(s[x + 1 + 1]) \o Sense(s)[x + 1 + 2]
    <3>1. s[x + 1] = Bs /\ s[x + 1 + 1] # "u"
      BY <1>5, <2>1
    <3> QED BY <1>4, <2>1, <3>1, EscapeMeans
  <2> QED BY <1>1, <1>5, <2>1, <2>2
<1>7. Begun(chars, k + 1)
  BY BegunNext
<1>8. f[x + 2 + 1] = SubSeq(chars, k + 2, Len(chars))
  <2>1. k + 1 \in k + 1 .. Len(chars) /\ k + 1 + 1 = k + 2
    OBVIOUS
  <2>2. Reading(P, chars, k + 1)
    BY <1>7, <2>1 DEF ReadsOn
  <2> QED BY <1>1, <1>5, <2>1, <2>2 DEF Reading
<1>9. SubSeq(chars, k + 1, Len(chars)) = <<chars[k + 1]>> \o SubSeq(chars, k + 2, Len(chars))
  BY SubSeqFirst
<1>10. x + 2 + 1 = x + 3
  BY <1>4
<1> QED BY <1>1, <1>6, <1>8, <1>9, <1>10 DEF Reading

\* A control character.
LEMMA ControlRead ==
    ASSUME NEW S, NEW P \in Seq(Seq(S)), NEW C, NEW chars \in Seq(C), Whole(chars), Len(P) = Len(chars),
           NEW k \in 0 .. Len(P) - 1, ReadsOn(P, chars, k),
           chars[k + 1] = "ctl", P[k + 1] = <<Bs, "u", "0", "0", "0", "1">>
    PROVE  Reading(P, chars, k)
<1>1. PICK s, f, x : s = FlattenSeq(P) /\ f = Sense(s) /\ x = Starts(P)[k]
  OBVIOUS
<1>2. PICK w : w = P[k + 1] /\ w = <<Bs, "u", "0", "0", "0", "1">>
  OBVIOUS
<1>3. /\ Len(w) = 6 /\ w[1] = Bs /\ w[2] = "u" /\ w[3] = "0" /\ w[4] = "0" /\ w[5] = "0" /\ w[6] = "1"
      /\ \A i \in {1, 2, 3, 4, 5, 6} : i \in 1 .. 6
  BY <1>2
<1>4. /\ s \in Seq(S) /\ Len(s) \in Nat /\ x \in Nat /\ Starts(P)[k + 1] = x + Len(w) /\ x + Len(w) <= Len(s)
      /\ \A i \in 1 .. Len(w) : s[x + i] = w[i]
  <2>1. Stands(S, P, k, s, x, w)
    BY <1>1, <1>2, PieceFound
  <2> QED BY <2>1, Zenon DEF Stands
<1>5. /\ s[x + 1] = Bs /\ s[x + 2] = "u" /\ s[x + 3] = "0" /\ s[x + 4] = "0" /\ s[x + 5] = "0" /\ s[x + 6] = "1"
      /\ Starts(P)[k + 1] = x + 6 /\ x + 6 <= Len(s)
  BY <1>3, <1>4
<1>6. f[x + 1] = <<"ctl">> \o f[x + 7]
  <2>1. x + 1 \in 1 .. Len(s) - 1 /\ x + 1 + 1 = x + 2 /\ x + 1 + 2 = x + 3 /\ x + 1 + 6 = x + 7
    <3>1. x \in Nat /\ Len(s) \in Nat /\ x + 6 <= Len(s)
      BY <1>4, <1>5
    <3> QED BY <3>1
  <2>2. x + 3 \in 1 .. Len(s) /\ x + 3 + 3 <= Len(s) /\ x + 3 + 1 = x + 4 /\ x + 3 + 2 = x + 5 /\ x + 3 + 3 = x + 6
    <3>1. x \in Nat /\ Len(s) \in Nat /\ x + 6 <= Len(s)
      BY <1>4, <1>5
    <3> QED BY <3>1
  <2>3. parse_u16_hex(s, x + 3) = 1
    <3>1. s[x + 3] = "0" /\ s[x + 3 + 1] = "0" /\ s[x + 3 + 2] = "0" /\ s[x + 3 + 3] = "1"
      BY <1>5, <2>2
    <3>2. PICK z : z = x + 3
      OBVIOUS
    <3>3. /\ z \in 1 .. Len(s) /\ z + 3 <= Len(s)
          /\ s[z] = "0" /\ s[z + 1] = "0" /\ s[z + 2] = "0" /\ s[z + 3] = "1"
      BY <2>2, <3>1, <3>2
    <3>4. s \in Seq(S)
      BY <1>4
    <3>5. parse_u16_hex(s, z) = 1
      BY <3>3, <3>4, Hexes, ZenonT(30)
    <3> QED BY <3>2, <3>5
  <2>4. Char(1) = <<"ctl">>
    BY DEF Char
  <2>5. Sense(s)[x + 1] = Char(parse_u16_hex(s, x + 1 + 2)) \o Sense(s)[x + 1 + 6]
    <3>1. s[x + 1] = Bs /\ s[x + 1 + 1] = "u" /\ parse_u16_hex(s, x + 1 + 2) >= 0
      <4>1. s[x + 1] = Bs /\ s[x + 1 + 1] = "u"
        BY <1>5, <2>1
      <4>2. parse_u16_hex(s, x + 1 + 2) = parse_u16_hex(s, x + 3)
        BY <2>1, Zenon
      <4> QED BY <2>3, <4>1, <4>2
    <3> QED BY <1>4, <2>1, <3>1, EscapeMeans
  <2>6. PICK t : t = Char(parse_u16_hex(s, x + 1 + 2))
    OBVIOUS
  <2>7. t = <<"ctl">>
    BY <2>1, <2>3, <2>4, <2>6
  <2> QED BY <1>1, <2>1, <2>5, <2>6, <2>7
<1>7. Begun(chars, k + 1)
  BY BegunNext
<1>8. f[x + 6 + 1] = SubSeq(chars, k + 2, Len(chars))
  <2>1. k + 1 \in k + 1 .. Len(chars) /\ k + 1 + 1 = k + 2
    OBVIOUS
  <2>2. Reading(P, chars, k + 1)
    BY <1>7, <2>1 DEF ReadsOn
  <2> QED BY <1>1, <1>5, <2>1, <2>2 DEF Reading
<1>9. SubSeq(chars, k + 1, Len(chars)) = <<chars[k + 1]>> \o SubSeq(chars, k + 2, Len(chars))
  BY SubSeqFirst
<1>10. x + 6 + 1 = x + 7
  BY <1>4
<1> QED BY <1>1, <1>6, <1>8, <1>9, <1>10 DEF Reading

\* A character outside ASCII, escaped.
LEMMA LetterRead ==
    ASSUME NEW S, NEW P \in Seq(Seq(S)), NEW C, NEW chars \in Seq(C), Whole(chars), Spells(P, chars, TRUE),
           NEW k \in 0 .. Len(P) - 1, ReadsOn(P, chars, k),
           chars[k + 1] = "L", P[k + 1] = <<Bs, "u", "0", "0", "e", "9">>
    PROVE  Reading(P, chars, k)
<1>1. PICK s, f, x : s = FlattenSeq(P) /\ f = Sense(s) /\ x = Starts(P)[k]
  OBVIOUS
<1>2. PICK w : w = P[k + 1] /\ w = <<Bs, "u", "0", "0", "e", "9">>
  OBVIOUS
<1>3. /\ Len(w) = 6 /\ w[1] = Bs /\ w[2] = "u" /\ w[3] = "0" /\ w[4] = "0" /\ w[5] = "e" /\ w[6] = "9"
      /\ \A i \in {1, 2, 3, 4, 5, 6} : i \in 1 .. 6
  BY <1>2
<1>4. /\ s \in Seq(S) /\ Len(s) \in Nat /\ x \in Nat /\ Starts(P)[k + 1] = x + Len(w) /\ x + Len(w) <= Len(s)
      /\ \A i \in 1 .. Len(w) : s[x + i] = w[i]
  <2>1. Stands(S, P, k, s, x, w)
    BY <1>1, <1>2, PieceFound
  <2> QED BY <2>1, Zenon DEF Stands
<1>5. /\ s[x + 1] = Bs /\ s[x + 2] = "u" /\ s[x + 3] = "0" /\ s[x + 4] = "0" /\ s[x + 5] = "e" /\ s[x + 6] = "9"
      /\ Starts(P)[k + 1] = x + 6 /\ x + 6 <= Len(s)
  BY <1>3, <1>4
<1>6. f[x + 1] = <<"L", "C">> \o f[x + 7]
  <2>1. x + 1 \in 1 .. Len(s) - 1 /\ x + 1 + 1 = x + 2 /\ x + 1 + 2 = x + 3 /\ x + 1 + 6 = x + 7
    <3>1. x \in Nat /\ Len(s) \in Nat /\ x + 6 <= Len(s)
      BY <1>4, <1>5
    <3> QED BY <3>1
  <2>2. x + 3 \in 1 .. Len(s) /\ x + 3 + 3 <= Len(s) /\ x + 3 + 1 = x + 4 /\ x + 3 + 2 = x + 5 /\ x + 3 + 3 = x + 6
    <3>1. x \in Nat /\ Len(s) \in Nat /\ x + 6 <= Len(s)
      BY <1>4, <1>5
    <3> QED BY <3>1
  <2>3. parse_u16_hex(s, x + 3) = 233
    <3>1. s[x + 3] = "0" /\ s[x + 3 + 1] = "0" /\ s[x + 3 + 2] = "e" /\ s[x + 3 + 3] = "9"
      BY <1>5, <2>2
    <3>2. PICK z : z = x + 3
      OBVIOUS
    <3>3. /\ z \in 1 .. Len(s) /\ z + 3 <= Len(s)
          /\ s[z] = "0" /\ s[z + 1] = "0" /\ s[z + 2] = "e" /\ s[z + 3] = "9"
      BY <2>2, <3>1, <3>2
    <3>4. s \in Seq(S)
      BY <1>4
    <3>5. parse_u16_hex(s, z) = 233
      BY <3>3, <3>4, Hexes, ZenonT(30)
    <3> QED BY <3>2, <3>5
  <2>4. Char(233) = <<"L", "C">>
    BY DEF Char
  <2>5. Sense(s)[x + 1] = Char(parse_u16_hex(s, x + 1 + 2)) \o Sense(s)[x + 1 + 6]
    <3>1. s[x + 1] = Bs /\ s[x + 1 + 1] = "u" /\ parse_u16_hex(s, x + 1 + 2) >= 0
      <4>1. s[x + 1] = Bs /\ s[x + 1 + 1] = "u"
        BY <1>5, <2>1
      <4>2. parse_u16_hex(s, x + 1 + 2) = parse_u16_hex(s, x + 3)
        BY <2>1, Zenon
      <4> QED BY <2>3, <4>1, <4>2
    <3> QED BY <1>4, <2>1, <3>1, EscapeMeans
  <2>6. PICK t : t = Char(parse_u16_hex(s, x + 1 + 2))
    OBVIOUS
  <2>7. t = <<"L", "C">>
    BY <2>1, <2>3, <2>4, <2>6
  <2> QED BY <1>1, <2>1, <2>5, <2>6, <2>7
<1>7. Len(P) = Len(chars)
  BY DEF Spells
<1>8. k + 2 \in 1 .. Len(chars) /\ chars[k + 2] = "C" /\ k + 1 \in 0 .. Len(P) - 1 /\ k + 1 \in 0 .. Len(chars) - 1
  <2>1. k + 1 \in 1 .. Len(chars) /\ k + 1 + 1 = k + 2
    BY <1>7
  <2>2. k + 1 < Len(chars) /\ chars[k + 2] = "C"
    BY <2>1 DEF Whole
  <2> QED BY <1>7, <2>1, <2>2, SMTT(20)
<1>9. P[k + 2] = <<>>
  <2>1. Spell(P[k + 2], chars[k + 2], TRUE)
    BY <1>8 DEF Spells
  <2> QED BY <1>8, <2>1 DEF Spell, Signs, Quote, Bs
<1>10. Starts(P)[k + 2] = x + 6
  <2>1. PICK y : y = Starts(P)[k + 1] /\ y = x + 6
    BY <1>5
  <2>2. k + 1 + 1 = k + 2 /\ Len(<<>>) = 0
    OBVIOUS
  <2>3. Starts(P)[k + 1 + 1] = y + Len(<<>>)
    <3>1. P[k + 1 + 1] = <<>>
      BY <1>9, <2>2
    <3>2. Stands(S, P, k + 1, s, y, <<>>)
      BY <1>1, <1>8, <2>1, <3>1, PieceFound
    <3> QED BY <3>2, Zenon DEF Stands
  <2> QED BY <1>4, <2>1, <2>2, <2>3
<1>11. Begun(chars, k + 2)
  <2>1. chars[k + 1 + 1] # "L" /\ k + 1 + 1 = k + 2
    BY <1>8
  <2> QED BY <1>8, <2>1, BegunNext
<1>12. f[x + 6 + 1] = SubSeq(chars, k + 3, Len(chars))
  <2>1. k + 2 \in k + 1 .. Len(chars) /\ k + 2 + 1 = k + 3
    BY <1>8
  <2>2. Reading(P, chars, k + 2)
    BY <1>11, <2>1 DEF ReadsOn
  <2> QED BY <1>1, <1>10, <2>1, <2>2 DEF Reading
<1>13. SubSeq(chars, k + 1, Len(chars)) = <<"L", "C">> \o SubSeq(chars, k + 3, Len(chars))
  <2>1. SubSeq(chars, k + 1, k + 2) \o SubSeq(chars, k + 2 + 1, Len(chars)) = SubSeq(chars, k + 1, Len(chars))
    <3>1. k \in Nat /\ k + 2 \in Nat /\ k <= k + 2 /\ k + 2 <= Len(chars)
      BY <1>8
    <3> QED BY <3>1, SubSeqSplit
  <2>2. SubSeq(chars, k + 1, k + 2) = <<"L", "C">>
    <3>1. k \in Nat /\ 2 \in Nat /\ k + 2 <= Len(chars) /\ 1 \in 1 .. 2 /\ 2 \in 1 .. 2
      BY <1>8
    <3>2. PICK t : t = SubSeq(chars, k + 1, k + 2)
      OBVIOUS
    <3>3. t \in Seq(C) /\ Len(t) = 2 /\ \A i \in 1 .. 2 : t[i] = chars[k + i]
      BY <3>1, <3>2, SubSeqFacts
    <3>4. t[1] = "L" /\ t[2] = "C"
      BY <1>8, <3>1, <3>3
    <3>5. t = <<t[1], t[2]>>
      BY <3>3, TwoElements
    <3> QED BY <3>2, <3>4, <3>5
  <2>3. k + 2 + 1 = k + 3
    OBVIOUS
  <2> QED BY <2>1, <2>2, <2>3
<1>14. x + 6 + 1 = x + 7
  BY <1>4
<1> QED BY <1>1, <1>6, <1>12, <1>13, <1>14 DEF Reading

\* A character that is written as it is.
Plain(w, c, ascii) == c \notin {Quote, Bs} /\ (ascii => c \notin {"L", "C"}) /\ w = <<c>>
\* What stands where a run of them ends: an escape.
LEMMA RunEnds ==
    ASSUME NEW P, NEW C, NEW chars \in Seq(C), Whole(chars), NEW ascii, Spells(P, chars, ascii),
           NEW r \in 1 .. Len(chars) - 1, Plain(P[r], chars[r], ascii), ~Plain(P[r + 1], chars[r + 1], ascii)
    PROVE  /\ Len(P[r + 1]) >= 1 /\ P[r + 1][1] = Bs
           /\ chars[r + 1] # "C" /\ chars[r] # "L"
<1>1. r \in 1 .. Len(chars) /\ r + 1 \in 1 .. Len(chars) /\ r + 1 - 1 = r
  OBVIOUS
<1>2. Spell(P[r + 1], chars[r + 1], ascii)
  BY <1>1 DEF Spells
<1>3. chars[r] = "L" => chars[r + 1] = "C"
  BY <1>1 DEF Whole
<1>4. chars[r + 1] = "C" => chars[r] = "L"
  BY <1>1 DEF Whole
<1>5. "C" \notin Signs /\ "C" # "ctl" /\ "C" # "L" /\ "C" \notin {Quote, Bs}
  BY DEF Signs, Quote, Bs
<1>6. CASE chars[r + 1] = "C"
  <2>1. chars[r] = "L"
    BY <1>4, <1>6
  <2>2. ~ascii
    BY <2>1 DEF Plain
  <2>3. FALSE
    BY <1>2, <1>5, <1>6, <2>2 DEF Spell, Plain
  <2> QED BY <2>3
<1>7. CASE chars[r + 1] # "C"
  <2>1. chars[r] # "L"
    BY <1>3, <1>7
  <2>2. (\E e : P[r + 1] = <<Bs, e>>) \/ \E a, b : P[r + 1] = <<Bs, "u", "0", "0", a, b>>
    BY <1>2, <1>7 DEF Spell, Plain
  <2>3. \A e : Len(<<Bs, e>>) >= 1 /\ <<Bs, e>>[1] = Bs
    OBVIOUS
  <2>4. \A a, b : Len(<<Bs, "u", "0", "0", a, b>>) >= 1 /\ <<Bs, "u", "0", "0", a, b>>[1] = Bs
    OBVIOUS
  <2>5. Len(P[r + 1]) >= 1 /\ P[r + 1][1] = Bs
    BY <2>2, <2>3, <2>4
  <2> QED BY <1>7, <2>1, <2>5
<1> QED BY <1>6, <1>7

\* Where the run of plain characters from k on ends.
Runs(P, chars, ascii, k, r) ==
    /\ r \in k + 1 .. Len(chars)
    /\ \A q \in k .. r - 1 : Plain(P[q + 1], chars[q + 1], ascii)
    /\ r = Len(chars) \/ ~Plain(P[r + 1], chars[r + 1], ascii)
LEMMA RunThere ==
    ASSUME NEW P, NEW C, NEW chars \in Seq(C), NEW ascii, NEW k \in 0 .. Len(chars) - 1,
           Plain(P[k + 1], chars[k + 1], ascii)
    PROVE  \E r : Runs(P, chars, ascii, k, r)
<1> DEFINE T == { r \in k + 1 .. Len(chars) : r = Len(chars) \/ ~Plain(P[r + 1], chars[r + 1], ascii) }
<1>1. T \subseteq Nat /\ Len(chars) \in T
  OBVIOUS
<1>2. PICK r \in T : \A y \in T : r <= y
  <2> HIDE DEF T
  <2> QED BY <1>1, Least
<1>3. ASSUME NEW q \in k .. r - 1 PROVE Plain(P[q + 1], chars[q + 1], ascii)
  <2>1. CASE q = k
    BY <2>1
  <2>2. CASE q # k
    <3>1. q \notin T
      <4>1. q < r
        BY <1>1
      <4> QED BY <1>1, <1>2, <4>1
    <3>2. q \in k + 1 .. Len(chars)
      BY <2>2
    <3> QED BY <3>1, <3>2
  <2> QED BY <2>1, <2>2
<1> QED BY <1>3 DEF Runs

\* The places of a run.
Lies(P, chars, k, r) ==
    \A d \in 0 .. r - k :
        /\ Starts(P)[k + d] = Starts(P)[k] + d
        /\ d < r - k => FlattenSeq(P)[Starts(P)[k] + d + 1] = chars[k + d + 1]
LEMMA RunStands ==
    ASSUME NEW S, NEW P \in Seq(Seq(S)), NEW C, NEW chars \in Seq(C), Len(P) = Len(chars), NEW ascii,
           NEW k \in 0 .. Len(chars) - 1, NEW r, Runs(P, chars, ascii, k, r)
    PROVE  Lies(P, chars, k, r)
<1>1. PICK o, s, x, m : o = Starts(P) /\ s = FlattenSeq(P) /\ x = o[k] /\ m = r - k
  OBVIOUS
<1>2. r \in k + 1 .. Len(chars) /\ k \in Nat /\ m \in Nat /\ k + m = r
  BY <1>1 DEF Runs
<1>3. x \in Nat
  <2>1. k \in 0 .. Len(P) - 1
    OBVIOUS
  <2>2. Stands(S, P, k, s, x, P[k + 1])
    BY <1>1, <2>1, PieceFound
  <2> QED BY <2>2, Zenon DEF Stands
<1>4. ASSUME NEW d \in 0 .. m - 1
      PROVE  o[k + d + 1] = o[k + d] + 1 /\ o[k + d] \in Nat /\ s[o[k + d] + 1] = chars[k + d + 1]
  <2>1. k + d \in 0 .. Len(P) - 1 /\ k + d \in k .. r - 1
    BY <1>2
  <2>2. PICK w : w = P[k + d + 1] /\ w = <<chars[k + d + 1]>>
    BY <2>1 DEF Runs, Plain
  <2>3. Len(w) = 1 /\ w[1] = chars[k + d + 1] /\ 1 \in 1 .. 1
    BY <2>2
  <2>4. Stands(S, P, k + d, s, o[k + d], w)
    BY <1>1, <2>1, <2>2, PieceFound
  <2>5. /\ o[k + d] \in Nat /\ o[k + d + 1] = o[k + d] + Len(w)
        /\ \A i \in 1 .. Len(w) : s[o[k + d] + i] = w[i]
    BY <1>1, <2>4, Zenon DEF Stands
  <2> QED BY <2>3, <2>5
<1> DEFINE T == { d \in Nat : d <= m => o[k + d] = x + d }
<1>5. 0 \in T
  <2>1. k + 0 = k /\ x + 0 = x
    BY <1>2, <1>3
  <2> QED BY <1>1, <2>1
<1>6. ASSUME NEW d \in T PROVE d + 1 \in T
  <2>1. CASE d + 1 <= m
    <3>1. d \in 0 .. m - 1 /\ d <= m /\ k + (d + 1) = k + d + 1
      BY <1>2, <2>1
    <3>2. o[k + d] = x + d
      BY <3>1
    <3>3. o[k + d + 1] = x + d + 1 /\ x + d + 1 = x + (d + 1)
      BY <1>3, <1>4, <3>1, <3>2
    <3> QED BY <3>1, <3>3
  <2> QED BY <2>1
<1>7. T = Nat
  <2> HIDE DEF T
  <2>1. T \subseteq Nat
    BY DEF T
  <2> QED BY <1>5, <1>6, <2>1, Induct
<1>8. ASSUME NEW d \in 0 .. m
      PROVE  o[k + d] = x + d /\ (d < m => s[x + d + 1] = chars[k + d + 1])
  <2>1. d \in T /\ d <= m
    <3> HIDE DEF T
    <3> QED BY <1>2, <1>7
  <2>2. o[k + d] = x + d
    BY <2>1
  <2>3. CASE d < m
    <3>1. d \in 0 .. m - 1
      BY <1>2, <2>3
    <3>2. s[o[k + d] + 1] = chars[k + d + 1]
      BY <1>4, <3>1
    <3> QED BY <2>2, <3>2
  <2> QED BY <2>2, <2>3
<1> QED BY <1>1, <1>8 DEF Lies

\* What a run is read as.
LEMMA RunMeans ==
    ASSUME NEW S, NEW s \in Seq(S), NEW x \in Nat, NEW m \in Nat \ {0}, x + m <= Len(s),
           \A i \in 1 .. m : s[x + i] # Bs, x + m < Len(s) => s[x + m + 1] = Bs
    PROVE  Sense(s)[x + 1] = append_utf8_lossy(SubSeq(s, x + 1, x + m)) \o Sense(s)[x + m + 1]
<1>1. x + 1 \in 1 .. Len(s) + 1 /\ ~(x + 1 > Len(s)) /\ Len(s) \in Nat
  OBVIOUS
<1>2. PICK j : j = Slash(s, x + 1)
  OBVIOUS
<1>3. j \in x + 1 .. Len(s) + 1 /\ (j <= Len(s) => s[j] = Bs) /\ \A k \in x + 1 .. j - 1 : s[k] # Bs
  BY <1>1, <1>2, SlashIs
<1>4. j = x + m + 1
  <2>1. CASE j < x + m + 1
    <3>1. j - x \in 1 .. m /\ x + (j - x) = j /\ j <= Len(s)
      BY <1>1, <1>3, <2>1
    <3>2. s[x + (j - x)] # Bs
      BY <3>1
    <3> QED BY <1>3, <3>1, <3>2
  <2>2. CASE j > x + m + 1
    <3>1. x + m < Len(s) /\ x + m + 1 \in x + 1 .. j - 1
      BY <1>1, <1>3, <2>2
    <3> QED BY <1>3, <3>1
  <2>3. j \in Nat /\ x + m + 1 \in Nat
    BY <1>1, <1>3
  <2> QED BY <2>1, <2>2, <2>3
<1>5. Sense(s)[x + 1] = Sounds(s, Sense(s), x + 1)
  BY <1>1, SenseIs
<1>6. j > x + 1 /\ j - 1 = x + m
  BY <1>4
<1>7. Sounds(s, Sense(s), x + 1) = append_utf8_lossy(SubSeq(s, x + 1, j - 1)) \o Sense(s)[j]
  BY <1>1, <1>2, <1>6, Zenon DEF Sounds
<1> QED BY <1>4, <1>5, <1>6, <1>7

\* The characters of a run are whole.
LEMMA RunWhole ==
    ASSUME NEW P, NEW C, NEW chars \in Seq(C), Whole(chars), NEW ascii, Spells(P, chars, ascii),
           NEW k \in 0 .. Len(chars) - 1, chars[k + 1] # "C", NEW r, Runs(P, chars, ascii, k, r)
    PROVE  /\ Whole(SubSeq(chars, k + 1, r)) /\ SubSeq(chars, k + 1, r) \in Seq(C) /\ Len(SubSeq(chars, k + 1, r)) = r - k
           /\ Begun(chars, r)
           /\ \A i \in 1 .. r - k : SubSeq(chars, k + 1, r)[i] = chars[k + i] /\ chars[k + i] # Bs
           /\ r < Len(chars) => Len(P[r + 1]) >= 1 /\ P[r + 1][1] = Bs
<1>1. PICK m, t : m = r - k /\ t = SubSeq(chars, k + 1, r)
  OBVIOUS
<1>2. r \in k + 1 .. Len(chars) /\ m \in Nat /\ m >= 1 /\ k + m = r /\ k \in Nat /\ k + m <= Len(chars) /\ Len(chars) \in Nat
  BY <1>1 DEF Runs
<1>3. t \in Seq(C) /\ Len(t) = m /\ \A i \in 1 .. m : t[i] = chars[k + i]
  BY <1>1, <1>2, SubSeqFacts
<1>4. ASSUME NEW i \in 1 .. m
      PROVE  Plain(P[k + i], chars[k + i], ascii) /\ chars[k + i] # Bs
  <2>1. k + i - 1 \in k .. r - 1 /\ k + i - 1 + 1 = k + i
    BY <1>2
  <2>2. Plain(P[k + i], chars[k + i], ascii)
    BY <2>1 DEF Runs
  <2> QED BY <2>2 DEF Plain
<1>5. ASSUME r < Len(chars)
      PROVE  Len(P[r + 1]) >= 1 /\ P[r + 1][1] = Bs /\ chars[r + 1] # "C" /\ chars[r] # "L"
  <2>1. r \in 1 .. Len(chars) - 1 /\ m \in 1 .. m
    BY <1>2, <1>5
  <2>2. Plain(P[r], chars[r], ascii)
    BY <1>2, <1>4, <2>1
  <2>3. ~Plain(P[r + 1], chars[r + 1], ascii)
    BY <1>2, <1>5 DEF Runs
  <2> QED BY <2>1, <2>2, <2>3, RunEnds
<1>6. Begun(chars, r)
  BY <1>2, <1>5 DEF Begun
<1>7. Whole(t)
  <2>1. ASSUME NEW i \in 1 .. m
        PROVE  /\ t[i] # "stuck"
               /\ t[i] = "L" => i < m /\ t[i + 1] = "C"
               /\ t[i] = "C" => 1 < i /\ t[i - 1] = "L"
    <3>1. k + i \in 1 .. Len(chars) /\ k + i + 1 = k + (i + 1) /\ k + i - 1 = k + (i - 1) /\ t[i] = chars[k + i]
      BY <1>2, <1>3
    <3>2. /\ t[i] # "stuck"
          /\ t[i] = "L" => k + i < Len(chars) /\ chars[k + (i + 1)] = "C"
          /\ t[i] = "C" => 1 < k + i /\ chars[k + (i - 1)] = "L"
      BY <3>1 DEF Whole
    <3>3. ASSUME t[i] = "L" PROVE i < m /\ t[i + 1] = "C"
      <4>1. CASE i = m
        <5>1. k + i = r
          BY <1>2, <4>1
        <5>2. r < Len(chars) /\ chars[r] = "L"
          BY <3>1, <3>2, <3>3, <5>1
        <5> QED BY <1>5, <5>2
      <4>2. CASE i # m
        <5>1. i + 1 \in 1 .. m /\ i < m
          BY <1>2, <4>2
        <5>2. t[i + 1] = chars[k + (i + 1)]
          BY <1>3, <5>1
        <5> QED BY <3>2, <3>3, <5>1, <5>2
      <4> QED BY <4>1, <4>2
    <3>4. ASSUME t[i] = "C" PROVE 1 < i /\ t[i - 1] = "L"
      <4>1. CASE i = 1
        BY <3>1, <3>4, <4>1
      <4>2. CASE i # 1
        <5>1. i - 1 \in 1 .. m /\ 1 < i
          BY <1>2, <4>2
        <5>2. t[i - 1] = chars[k + (i - 1)]
          BY <1>3, <5>1
        <5> QED BY <3>2, <3>4, <5>1, <5>2
      <4> QED BY <4>1, <4>2
    <3> QED BY <3>2, <3>3, <3>4
  <2> QED BY <1>3, <2>1 DEF Whole
<1>8. r < Len(chars) => Len(P[r + 1]) >= 1 /\ P[r + 1][1] = Bs
  BY <1>5
<1> QED BY <1>1, <1>3, <1>4, <1>6, <1>7, <1>8

\* A run of characters that are written as they are.
LEMMA RunRead ==
    ASSUME NEW S, NEW P \in Seq(Seq(S)), NEW C, NEW chars \in Seq(C), Whole(chars), NEW ascii, Spells(P, chars, ascii),
           NEW k \in 0 .. Len(chars) - 1, ReadsOn(P, chars, k), chars[k + 1] # "C",
           Plain(P[k + 1], chars[k + 1], ascii)
    PROVE  Reading(P, chars, k)
<1>1. PICK r : Runs(P, chars, ascii, k, r)
  BY RunThere
<1>2. PICK s, f, x, o, m, t : /\ s = FlattenSeq(P) /\ f = Sense(s) /\ x = Starts(P)[k] /\ o = Starts(P)
                              /\ m = r - k /\ t = SubSeq(chars, k + 1, r)
  OBVIOUS
<1>3. r \in k + 1 .. Len(chars) /\ m \in Nat /\ m >= 1 /\ k + m = r /\ k \in Nat /\ Len(P) = Len(chars) /\ Len(chars) \in Nat
  BY <1>1, <1>2 DEF Runs, Spells
<1>4. /\ Whole(t) /\ t \in Seq(C) /\ Len(t) = m /\ Begun(chars, r)
      /\ \A i \in 1 .. m : t[i] = chars[k + i] /\ chars[k + i] # Bs
      /\ r < Len(chars) => Len(P[r + 1]) >= 1 /\ P[r + 1][1] = Bs
  BY <1>1, <1>2, RunWhole
<1>5. \A d \in 0 .. m : o[k + d] = x + d /\ (d < m => s[x + d + 1] = chars[k + d + 1])
  <2>1. Lies(P, chars, k, r)
    BY <1>1, <1>3, RunStands
  <2> QED BY <1>2, <2>1 DEF Lies
<1>6. /\ s \in Seq(S) /\ Len(s) \in Nat /\ x \in Nat
  <2>1. k \in 0 .. Len(P) - 1
    BY <1>3
  <2>2. Stands(S, P, k, s, x, P[k + 1])
    BY <1>2, <2>1, PieceFound
  <2> QED BY <2>2, Zenon DEF Stands
<1>7. o[r] = x + m
  <2>1. m \in 0 .. m
    BY <1>3
  <2> QED BY <1>3, <1>5, <2>1
<1>8. x + m <= Len(s) /\ (r = Len(chars) => x + m = Len(s)) /\ (r < Len(chars) => x + m < Len(s) /\ s[x + m + 1] = Bs)
  <2>1. CASE r = Len(chars)
    <3>1. o[r] = Len(s)
      BY <1>2, <1>3, <2>1, StartsEnds
    <3> QED BY <1>6, <1>7, <2>1, <3>1
  <2>2. CASE r # Len(chars)
    <3>1. r \in 0 .. Len(P) - 1 /\ r < Len(chars)
      BY <1>3, <2>2
    <3>2. PICK y, w : y = o[r] /\ w = P[r + 1]
      OBVIOUS
    <3>3. Stands(S, P, r, s, y, w)
      BY <1>2, <3>1, <3>2, PieceFound
    <3>4. y + Len(w) <= Len(s) /\ \A i \in 1 .. Len(w) : s[y + i] = w[i]
      BY <3>3, Zenon DEF Stands
    <3>5. Len(w) >= 1 /\ w[1] = Bs /\ Len(w) \in Nat
      <4>1. w \in Seq(S)
        BY <3>1, <3>2
      <4> QED BY <1>4, <3>1, <3>2, <4>1
    <3>6. 1 \in 1 .. Len(w) /\ y = x + m
      BY <1>7, <3>2, <3>5
    <3>7. s[x + m + 1] = Bs
      BY <3>4, <3>5, <3>6
    <3>8. x + m < Len(s)
      BY <1>3, <1>6, <3>4, <3>5, <3>6
    <3> QED BY <1>3, <1>6, <2>2, <3>7, <3>8
  <2> QED BY <2>1, <2>2
<1>9. f[x + 1] = append_utf8_lossy(SubSeq(s, x + 1, x + m)) \o f[x + m + 1]
  <2>1. ASSUME NEW i \in 1 .. m PROVE s[x + i] # Bs
    <3>1. i - 1 \in 0 .. m /\ i - 1 < m /\ x + (i - 1) + 1 = x + i /\ k + (i - 1) + 1 = k + i
      BY <1>3, <1>6
    <3>2. s[x + i] = chars[k + i]
      BY <1>5, <3>1
    <3> QED BY <1>4, <3>2
  <2>2. m \in Nat \ {0} /\ (x + m < Len(s) => s[x + m + 1] = Bs)
    BY <1>3, <1>8
  <2>3. s \in Seq(S) /\ x \in Nat /\ x + m <= Len(s) /\ \A i \in 1 .. m : s[x + i] # Bs
    BY <1>6, <1>8, <2>1
  <2>4. Sense(s)[x + 1] = append_utf8_lossy(SubSeq(s, x + 1, x + m)) \o Sense(s)[x + m + 1]
    BY <2>2, <2>3, RunMeans
  <2> QED BY <1>2, <2>4
<1>10. SubSeq(s, x + 1, x + m) = t
  <2>1. PICK u : u = SubSeq(s, x + 1, x + m)
    OBVIOUS
  <2>2. u \in Seq(S) /\ Len(u) = m /\ \A i \in 1 .. m : u[i] = s[x + i]
    <3>1. x \in Nat /\ m \in Nat /\ x + m <= Len(s) /\ s \in Seq(S)
      BY <1>3, <1>6, <1>8
    <3> QED BY <2>1, <3>1, SubSeqFacts
  <2>3. ASSUME NEW i \in 1 .. m PROVE u[i] = t[i]
    <3>1. i - 1 \in 0 .. m /\ i - 1 < m /\ x + (i - 1) + 1 = x + i /\ k + (i - 1) + 1 = k + i
      BY <1>3, <1>6
    <3>2. s[x + i] = chars[k + i]
      BY <1>5, <3>1
    <3> QED BY <1>4, <2>2, <3>2
  <2>4. PICK V : V = S \union C
    OBVIOUS
  <2>5. u \in Seq(V) /\ t \in Seq(V)
    BY <1>4, <2>2, <2>4
  <2>6. u = t
    BY <1>4, <2>2, <2>3, <2>5, SameElements
  <2> QED BY <2>1, <2>6
<1>11. append_utf8_lossy(t) = t
  BY <1>4, LossySame
<1>12. f[x + m + 1] = SubSeq(chars, r + 1, Len(chars))
  <2>1. Reading(P, chars, r)
    BY <1>3, <1>4 DEF ReadsOn
  <2> QED BY <1>2, <1>7, <2>1 DEF Reading
<1>13. t \o SubSeq(chars, r + 1, Len(chars)) = SubSeq(chars, k + 1, Len(chars))
  <2>1. r \in Nat /\ k <= r /\ r <= Len(chars)
    BY <1>3
  <2> QED BY <1>2, <1>3, <2>1, SubSeqSplit
<1>14. f[x + 1] = SubSeq(chars, k + 1, Len(chars))
  BY <1>9, <1>10, <1>11, <1>12, <1>13
<1> QED BY <1>2, <1>14 DEF Reading

\* A string is read as what it was.
LEMMA StringRead ==
    ASSUME NEW S, NEW P \in Seq(Seq(S)), NEW C, NEW chars \in Seq(C), Whole(chars), NEW ascii \in BOOLEAN,
           Spells(P, chars, ascii)
    PROVE  unescape(FlattenSeq(P)) = chars
<1>1. Len(P) = Len(chars) /\ Len(chars) \in Nat
  BY DEF Spells
<1>2. PICK n : n = Len(chars) /\ n \in Nat
  BY <1>1
<1> DEFINE D == 0 .. n
           T == { k \in D : Begun(chars, k) => Reading(P, chars, k) }
           m == [ k \in D |-> n - k ]
<1>3. ASSUME NEW k \in D, \A j \in D : m[j] < m[k] => j \in T
      PROVE  Begun(chars, k) => Reading(P, chars, k)
  <2>1. ReadsOn(P, chars, k)
    <3>1. ASSUME NEW j \in k + 1 .. n PROVE j \in T
      <4>1. j \in 0 .. n /\ m[j] < m[k]
        BY <1>2
      <4>2. j \in D
        BY <4>1
      <4> HIDE DEF T, m, D
      <4> QED BY <1>3, <4>1, <4>2
    <3> QED BY <1>2, <3>1 DEF ReadsOn
  <2>2. CASE k = n
    <3>1. Sense(FlattenSeq(P))[Len(FlattenSeq(P)) + 1] = <<>>
      <4>1. PICK s : s = FlattenSeq(P) /\ s \in Seq(S)
        BY FlattenTyped
      <4>2. Len(s) + 1 \in 1 .. Len(s) + 1 /\ Len(s) + 1 > Len(s)
        BY <4>1
      <4>3. Sense(s)[Len(s) + 1] = Sounds(s, Sense(s), Len(s) + 1)
        BY <4>1, <4>2, SenseIs
      <4>4. Sense(s)[Len(s) + 1] = <<>>
        BY <4>2, <4>3, Zenon DEF Sounds
      <4> QED BY <4>1, <4>4
    <3>2. Starts(P)[n] = Len(FlattenSeq(P))
      BY <1>1, <1>2, StartsEnds
    <3>3. SubSeq(chars, n + 1, n) = <<>>
      BY <1>2
    <3> QED BY <1>2, <2>2, <3>1, <3>2, <3>3 DEF Reading
  <2>3. ASSUME k # n, Begun(chars, k) PROVE Reading(P, chars, k)
    <3>1. PICK w, c : w = P[k + 1] /\ c = chars[k + 1]
      OBVIOUS
    <3>2. k \in 0 .. Len(chars) - 1 /\ k \in 0 .. Len(P) - 1 /\ k + 1 \in 1 .. Len(chars) /\ k # Len(chars)
      BY <1>1, <1>2, <2>3
    <3>3. c # "C"
      BY <2>3, <3>1, <3>2 DEF Begun
    <3>4. Spell(w, c, ascii)
      BY <3>1, <3>2 DEF Spells
    <3>5. CASE Plain(w, c, ascii)
      BY <2>1, <3>1, <3>2, <3>3, <3>5, RunRead
    <3>6. CASE c \in Signs /\ \E e : e # "u" /\ Escaped(e) = <<c>> /\ w = <<Bs, e>>
      <4>1. PICK e : e # "u" /\ Escaped(e) = <<c>> /\ w = <<Bs, e>>
        BY <3>6
      <4>2. c # "L"
        BY <3>6 DEF Signs, Quote, Bs
      <4> QED BY <1>1, <2>1, <3>1, <3>2, <4>1, <4>2, EscapeRead
    <3>7. CASE c = "ctl" /\ w = <<Bs, "u", "0", "0", "0", "1">>
      BY <1>1, <2>1, <3>1, <3>2, <3>7, ControlRead
    <3>8. CASE c = "L" /\ ascii /\ w = <<Bs, "u", "0", "0", "e", "9">>
      <4>1. ascii = TRUE
        BY <3>8
      <4>2. Spells(P, chars, TRUE)
        BY <4>1
      <4> QED BY <2>1, <3>1, <3>2, <3>8, <4>2, LetterRead
    <3> QED BY <3>3, <3>4, <3>5, <3>6, <3>7, <3>8 DEF Spell, Plain
  <2> QED BY <2>2, <2>3
<1>4. \A k \in D : k \in T
  <2>1. m \in [ D -> Nat ]
    BY <1>2
  <2>2. ASSUME NEW k \in D, \A j \in D : m[j] < m[k] => j \in T
        PROVE  k \in T
    BY <1>3, <2>2
  <2> HIDE DEF T, D, m
  <2>3. \A k \in D : (\A j \in D : m[j] < m[k] => j \in T) => k \in T
    BY <2>2
  <2> QED BY <2>1, <2>3, Descend
<1>5. Reading(P, chars, 0)
  <2>1. 0 \in 0 .. n
    BY <1>2
  <2>2. Begun(chars, 0)
    <3>1. CASE n # 0 /\ chars[1] = "C"
      <4>1. 1 \in 1 .. Len(chars) /\ ~(1 < 1)
        BY <1>2, <3>1
      <4> QED BY <3>1, <4>1 DEF Whole
    <3>2. 0 + 1 = 1
      OBVIOUS
    <3> QED BY <1>2, <3>1, <3>2 DEF Begun
  <2>3. 0 \in T
    <3> HIDE DEF T
    <3> QED BY <1>4, <2>1
  <2> QED BY <2>2, <2>3
<1>6. Starts(P)[0] = 0 /\ 0 + 1 = 1 /\ SubSeq(chars, 1, Len(chars)) = chars
  BY StartsEnds
<1>7. Sense(FlattenSeq(P))[1] = chars
  BY <1>5, <1>6 DEF Reading
<1> QED BY <1>7, UnescapeIs

-----------------------------------------------------------------------------
(* Payloads that are cut short.                                            *)

Cut(c, p) == Len(c) <= Len(p) /\ \A i \in 1 .. Len(c) : c[i] = p[i]

\* What is found before the end is found in the whole, too.
LEMMA PastCut ==
    ASSUME NEW S, NEW p \in Seq(S), NEW c \in Seq(S), Cut(c, p), NEW i \in 1 .. Len(c) + 1, NEW X
    PROVE  /\ Past(c, i, X) <= Len(c) => Past(p, i, X) = Past(c, i, X)
           /\ Past(c, i, X) > i => Past(p, i, X) > i
<1>1. PICK a, b : a = Past(c, i, X) /\ b = Past(p, i, X)
  OBVIOUS
<1>2. Len(c) \in Nat /\ Len(p) \in Nat /\ Len(c) <= Len(p) /\ i \in Nat /\ i \in 1 .. Len(p) + 1 /\ \A k \in 1 .. Len(c) : c[k] = p[k]
  BY DEF Cut
<1>3. a \in i .. Len(c) + 1 /\ (a <= Len(c) => c[a] \notin X) /\ \A k \in i .. a - 1 : c[k] \in X
  BY <1>1, PastIs
<1>4. b \in i .. Len(p) + 1 /\ (b <= Len(p) => p[b] \notin X) /\ \A k \in i .. b - 1 : p[k] \in X
  BY <1>1, <1>2, PastIs
<1>5. ASSUME a <= Len(c) PROVE b = a
  <2>1. a \in i .. Len(p) + 1 /\ a \in 1 .. Len(c)
    BY <1>2, <1>3, <1>5
  <2>2. p[a] \notin X
    BY <1>2, <1>3, <1>5, <2>1
  <2>3. \A k \in i .. a - 1 : p[k] \in X
    <3>1. \A k \in i .. a - 1 : k \in 1 .. Len(c)
      BY <1>2, <2>1
    <3> QED BY <1>2, <1>3, <3>1
  <2> QED BY <1>1, <1>2, <2>1, <2>2, <2>3, PastTo
<1>6. ASSUME a > i PROVE b > i
  <2>1. i \in i .. a - 1 /\ i \in 1 .. Len(c) /\ i <= Len(p)
    BY <1>2, <1>3, <1>6
  <2>2. p[i] \in X
    BY <1>2, <1>3, <2>1
  <2>3. b # i
    BY <1>4, <2>1, <2>2
  <2> QED BY <1>2, <1>4, <2>3
<1> QED BY <1>1, <1>5, <1>6

\* The same of blanks.
LEMMA SkipCut ==
    ASSUME NEW S, NEW p \in Seq(S), NEW c \in Seq(S), Cut(c, p), NEW i \in 1 .. Len(c) + 1, skip_ws(c, i) # Nowhere
    PROVE  skip_ws(p, i) = skip_ws(c, i)
<1>1. PICK a, b : a = Past(c, i, Blank) /\ b = Past(p, i, Blank)
  OBVIOUS
<1>2. skip_ws(c, i) = (IF a > Len(c) THEN Nowhere ELSE a) /\ skip_ws(p, i) = IF b > Len(p) THEN Nowhere ELSE b
  BY <1>1, SkipIs
<1>3. Len(c) \in Nat /\ Len(p) \in Nat /\ Len(c) <= Len(p)
  BY DEF Cut
<1>4. a \in i .. Len(c) + 1
  BY <1>1, PastIs
<1>5. a <= Len(c)
  BY <1>2, <1>3, <1>4
<1>6. b = a
  BY <1>1, <1>5, PastCut
<1> QED BY <1>2, <1>3, <1>4, <1>5, <1>6

\* The same of the end of a string.
LEMMA EndsCut ==
    ASSUME NEW S, NEW p \in Seq(S), NEW c \in Seq(S), Cut(c, p)
    PROVE  \A j \in 1 .. Len(c) + 2 : Ends(c)[j] # Nowhere => Ends(p)[j] = Ends(c)[j]
<1>1. PICK n, F, G : n = Len(c) /\ F = Ends(c) /\ G = Ends(p)
  OBVIOUS
<1>2. n \in Nat /\ Len(p) \in Nat /\ n <= Len(p) /\ \A k \in 1 .. n : c[k] = p[k] /\ k \in 1 .. Len(p)
  BY <1>1 DEF Cut
<1> DEFINE T == { d \in Nat : \A j \in 1 .. n + 2 : n + 2 - j <= d => (F[j] # Nowhere => G[j] = F[j]) }
<1>3. /\ \A j \in 1 .. n : F[j] = IF c[j] = Bs THEN F[j + 2] ELSE IF c[j] = Quote THEN j + 1 ELSE F[j + 1]
      /\ F[n + 1] = Nowhere /\ F[n + 2] = Nowhere
  BY <1>1, EndsIs
<1>4. \A j \in 1 .. Len(p) : G[j] = IF p[j] = Bs THEN G[j + 2] ELSE IF p[j] = Quote THEN j + 1 ELSE G[j + 1]
  BY <1>1, EndsIs
<1>5. 0 \in T
  <2>1. ASSUME NEW j \in 1 .. n + 2, n + 2 - j <= 0 PROVE F[j] = Nowhere
    <3>1. j = n + 2
      BY <1>2, <2>1
    <3> QED BY <1>3, <3>1
  <2> QED BY <2>1
<1>6. ASSUME NEW d \in T PROVE d + 1 \in T
  <2>1. ASSUME NEW j \in 1 .. n + 2, n + 2 - j <= d + 1, F[j] # Nowhere PROVE G[j] = F[j]
    <3>1. j \in 1 .. n
      <4>1. j # n + 1 /\ j # n + 2
        BY <1>3, <2>1
      <4> QED BY <1>2, <4>1
    <3>2. j + 1 \in 1 .. n + 2 /\ j + 2 \in 1 .. n + 2 /\ n + 2 - (j + 1) <= d /\ n + 2 - (j + 2) <= d
      BY <1>2, <2>1, <3>1
    <3>3. (F[j + 1] # Nowhere => G[j + 1] = F[j + 1]) /\ (F[j + 2] # Nowhere => G[j + 2] = F[j + 2])
      BY <3>2
    <3>4. c[j] = p[j] /\ j \in 1 .. Len(p)
      BY <1>2, <3>1
    <3> QED BY <1>3, <1>4, <2>1, <3>1, <3>3, <3>4
  <2> QED BY <2>1
<1>7. T = Nat
  <2> HIDE DEF T
  <2>1. T \subseteq Nat
    BY DEF T
  <2> QED BY <1>5, <1>6, <2>1, Induct
<1>8. ASSUME NEW j \in 1 .. n + 2, F[j] # Nowhere PROVE G[j] = F[j]
  <2>1. n + 2 \in T /\ n + 2 - j <= n + 2
    <3>1. n + 2 \in Nat /\ n + 2 - j <= n + 2
      BY <1>2
    <3> HIDE DEF T
    <3> QED BY <1>7, <3>1
  <2> QED BY <1>8, <2>1
<1> QED BY <1>1, <1>8

\* The same of strings.
LEMMA StringCut ==
    ASSUME NEW S, NEW p \in Seq(S), NEW c \in Seq(S), Cut(c, p), NEW i \in Nat, scan_string(c, i) # Nowhere
    PROVE  scan_string(p, i) = scan_string(c, i)
<1>1. i \in 1 .. Len(c) /\ c[i] = Quote
  BY StringTyped
<1>2. i + 1 \in 1 .. Len(c) + 2 /\ i \in 1 .. Len(p) /\ p[i] = Quote
  BY <1>1 DEF Cut
<1>3. At(c, i, Quote) /\ At(p, i, Quote)
  BY <1>1, <1>2 DEF At
<1>4. scan_string(c, i) = Ends(c)[i + 1] /\ scan_string(p, i) = Ends(p)[i + 1]
  BY <1>3, ScanString, Zenon
<1> QED BY <1>2, <1>4, EndsCut

\* The same of values with brackets.
LEMMA NestsCut ==
    ASSUME NEW S, NEW p \in Seq(S), NEW c \in Seq(S), Cut(c, p),
           NEW open, NEW close, open # close, open # Quote, close # Quote
    PROVE  \A j \in 1 .. Len(c) + 1, d \in Int :
              Nests(c, open, close)[<<j, d>>] # Nowhere => Nests(p, open, close)[<<j, d>>] = Nests(c, open, close)[<<j, d>>]
<1>1. PICK n, F, G : n = Len(c) /\ F = Nests(c, open, close) /\ G = Nests(p, open, close)
  OBVIOUS
<1>2. n \in Nat /\ Len(p) \in Nat /\ n <= Len(p) /\ \A k \in 1 .. n : c[k] = p[k]
  BY <1>1 DEF Cut
<1>3. \A j \in 1 .. n + 1, depth \in Int :
        F[<<j, depth>>] =
            IF j > n THEN Nowhere
            ELSE IF c[j] = Quote
            THEN (IF scan_string(c, j) = Nowhere THEN Nowhere ELSE F[<<scan_string(c, j), depth>>])
            ELSE IF c[j] = open THEN F[<<j + 1, depth + 1>>]
            ELSE IF c[j] = close THEN (IF depth = 1 THEN j + 1 ELSE F[<<j + 1, depth - 1>>])
            ELSE F[<<j + 1, depth>>]
  <2>1. Counts(c, open, close, F)
    BY <1>1, NestsIs
  <2> QED BY <1>1, <2>1 DEF Counts
<1>4. \A j \in 1 .. Len(p) + 1, depth \in Int :
        G[<<j, depth>>] =
            IF j > Len(p) THEN Nowhere
            ELSE IF p[j] = Quote
            THEN (IF scan_string(p, j) = Nowhere THEN Nowhere ELSE G[<<scan_string(p, j), depth>>])
            ELSE IF p[j] = open THEN G[<<j + 1, depth + 1>>]
            ELSE IF p[j] = close THEN (IF depth = 1 THEN j + 1 ELSE G[<<j + 1, depth - 1>>])
            ELSE G[<<j + 1, depth>>]
  <2>1. Counts(p, open, close, G)
    BY <1>1, NestsIs
  <2> QED BY <2>1 DEF Counts
<1> DEFINE Holds(j) == \A d \in Int : F[<<j, d>>] # Nowhere => G[<<j, d>>] = F[<<j, d>>]
           D == 1 .. n + 1
           T == { j \in D : Holds(j) }
           m == [ j \in D |-> n + 1 - j ]
<1>5. ASSUME NEW j \in D, \A i \in D : m[i] < m[j] => i \in T PROVE Holds(j)
  <2>1. ASSUME NEW i \in j + 1 .. n + 1 PROVE Holds(i)
    <3>1. i \in D /\ m[i] < m[j]
      BY <1>2
    <3> HIDE DEF D, m, Holds
    <3> QED BY <1>5, <3>1
  <2>2. ASSUME NEW d \in Int, F[<<j, d>>] # Nowhere PROVE G[<<j, d>>] = F[<<j, d>>]
    <3>1. ~(j > n)
      BY <1>3, <2>2
    <3>2. j \in 1 .. n /\ j \in 1 .. Len(p) + 1 /\ ~(j > Len(p)) /\ c[j] = p[j] /\ j \in Nat /\ j + 1 \in j + 1 .. n + 1
      BY <1>2, <3>1
    <3>3. d + 1 \in Int /\ d - 1 \in Int
      OBVIOUS
    <3>4. CASE c[j] = Quote
      <4>1. scan_string(c, j) # Nowhere /\ F[<<j, d>>] = F[<<scan_string(c, j), d>>]
        BY <1>3, <2>2, <3>1, <3>4
      <4>2. scan_string(p, j) = scan_string(c, j)
        BY <3>2, <4>1, StringCut
      <4>3. G[<<j, d>>] = G[<<scan_string(c, j), d>>]
        BY <1>4, <3>2, <3>4, <4>1, <4>2
      <4>4. scan_string(c, j) \in j + 2 .. n + 1
        BY <1>1, <3>2, <4>1, StringTyped
      <4>5. scan_string(c, j) \in j + 1 .. n + 1
        BY <1>2, <4>4
      <4>6. Holds(scan_string(c, j))
        <5> HIDE DEF Holds
        <5> QED BY <2>1, <4>5
      <4> QED BY <2>2, <4>1, <4>3, <4>6
    <3>5. Holds(j + 1)
      BY <2>1, <3>2
    <3>6. CASE c[j] # Quote /\ c[j] = open
      <4>1. F[<<j, d>>] = F[<<j + 1, d + 1>>] /\ G[<<j, d>>] = G[<<j + 1, d + 1>>]
        BY <1>3, <1>4, <3>1, <3>2, <3>6
      <4> QED BY <2>2, <3>3, <3>5, <4>1
    <3>7. CASE c[j] # Quote /\ c[j] # open /\ c[j] = close
      <4>1. CASE d = 1
        BY <1>3, <1>4, <3>1, <3>2, <3>7, <4>1
      <4>2. CASE d # 1
        <5>1. F[<<j, d>>] = F[<<j + 1, d - 1>>] /\ G[<<j, d>>] = G[<<j + 1, d - 1>>]
          BY <1>3, <1>4, <3>1, <3>2, <3>7, <4>2
        <5> QED BY <2>2, <3>3, <3>5, <5>1
      <4> QED BY <4>1, <4>2
    <3>8. CASE c[j] # Quote /\ c[j] # open /\ c[j] # close
      <4>1. F[<<j, d>>] = F[<<j + 1, d>>] /\ G[<<j, d>>] = G[<<j + 1, d>>]
        BY <1>3, <1>4, <3>1, <3>2, <3>8
      <4> QED BY <2>2, <3>5, <4>1
    <3> QED BY <3>4, <3>6, <3>7, <3>8
  <2> QED BY <2>2
<1>6. \A j \in D : j \in T
  <2>1. m \in [ D -> Nat ]
    BY <1>2
  <2>2. ASSUME NEW j \in D, \A i \in D : m[i] < m[j] => i \in T
        PROVE  j \in T
    <3>1. Holds(j)
      <4> HIDE DEF Holds, T, D, m
      <4> QED BY <1>5, <2>2
    <3> QED BY <3>1
  <2> HIDE DEF T, D, m
  <2>3. \A j \in D : (\A i \in D : m[i] < m[j] => i \in T) => j \in T
    BY <2>2
  <2> QED BY <2>1, <2>3, Descend
<1>7. \A j \in 1 .. n + 1 : Holds(j)
  <2>1. \A j \in 1 .. n + 1 : j \in T
    BY <1>6
  <2> HIDE DEF Holds
  <2> QED BY <2>1
<1> QED BY <1>1, <1>7

\* The same of values, but for a number that ends where the payload does.
LEMMA ValueCut ==
    ASSUME NEW S, NEW p \in Seq(S), NEW c \in Seq(S), Cut(c, p), NEW v \in 1 .. Len(c), scan_value(c, v) # Nowhere
    PROVE  /\ scan_value(p, v) # Nowhere
           /\ scan_value(p, v) = scan_value(c, v) \/ (c[v] # Quote /\ scan_value(c, v) = Len(c) + 1)
<1>1. PICK a, b : a = Past(c, v, InNumber) /\ b = Past(p, v, InNumber)
  OBVIOUS
<1>2. Len(c) \in Nat /\ Len(p) \in Nat /\ Len(c) <= Len(p) /\ c[v] = p[v] /\ v \in 1 .. Len(p) /\ v \in Nat /\ v \in 1 .. Len(c) + 1
  BY DEF Cut
<1>3. CASE c[v] = Quote
  <2>1. scan_value(c, v) = scan_string(c, v) /\ scan_value(p, v) = scan_string(p, v)
    BY <1>2, <1>3, ScanValue, Zenon
  <2> QED BY <1>2, <1>3, <2>1, StringCut
<1>4. CASE c[v] # Quote /\ c[v] \in Opens
  <2>1. PICK open, close : open = c[v] /\ close = Closing(c[v])
    OBVIOUS
  <2>2. open # Quote /\ close # open /\ close # Quote
    BY <1>4, <2>1, Brackets
  <2>3. scan_value(c, v) = scan_nested(c, v) /\ scan_value(p, v) = scan_nested(p, v)
    BY <1>2, <1>4, ScanValue, Zenon
  <2>4. scan_nested(c, v) = Nests(c, open, close)[<<v, 0>>]
    BY <2>1, ScanNested
  <2>5. scan_nested(p, v) = Nests(p, open, close)[<<v, 0>>]
    BY <1>2, <2>1, ScanNested
  <2>6. Nests(c, open, close)[<<v, 0>>] # Nowhere => Nests(p, open, close)[<<v, 0>>] = Nests(c, open, close)[<<v, 0>>]
    BY <1>2, <2>2, NestsCut
  <2> QED BY <2>3, <2>4, <2>5, <2>6
<1>5. CASE c[v] # Quote /\ c[v] \notin Opens /\ c[v] \in Words
  <2>1. scan_value(c, v) = v + 1 /\ scan_value(p, v) = v + 1
    BY <1>2, <1>5, ScanValue, Zenon
  <2>2. v + 1 # Nowhere
    BY <1>2 DEF Nowhere
  <2> QED BY <2>1, <2>2
<1>6. CASE c[v] # Quote /\ c[v] \notin Opens /\ c[v] \notin Words
  <2>1. scan_value(c, v) = (IF a > v THEN a ELSE Nowhere) /\ scan_value(p, v) = IF b > v THEN b ELSE Nowhere
    BY <1>1, <1>2, <1>6, ScanValue, Zenon
  <2>2. a > v
    BY <2>1
  <2>3. b > v /\ (a <= Len(c) => b = a)
    BY <1>1, <1>2, <2>2, PastCut
  <2>4. a \in v .. Len(c) + 1 /\ b \in v .. Len(p) + 1
    BY <1>1, <1>2, PastIs
  <2>5. a = Len(c) + 1 \/ a <= Len(c)
    BY <1>2, <2>4
  <2>6. b # Nowhere
    BY <1>2, <2>3, <2>4 DEF Nowhere
  <2> QED BY <1>6, <2>1, <2>2, <2>3, <2>5, <2>6
<1> QED BY <1>3, <1>4, <1>5, <1>6

\* An entry of a key and a value.
EntryOf(key, value) == [ key |-> key, value |-> value ]
LEMMA EntryOfIs == \A key, value : EntryOf(key, value).key = key /\ EntryOf(key, value).value = value
  BY DEF EntryOf

\* Two values of which the one was cut.
SameMeaning(a, b) == a = b \/ (a # <<>> /\ b # <<>> /\ a[1] # Quote /\ b[1] # Quote)
Same(d, e) == d.key = e.key /\ SameMeaning(d.value, e.value)
LEMMA EntryCut ==
    ASSUME NEW S, NEW p \in Seq(S), NEW c \in Seq(S), Cut(c, p), NEW i \in 1 .. Len(c) + 1, Has(c, i)
    PROVE  /\ Has(p, i) /\ Same(Entry(c, i), Entry(p, i))
           /\ Goes(c, i) => Goes(p, i) /\ After(p, i) = After(c, i)
<1>1. PICK j, end, k, v, e, a : /\ j = KeyAt(c, i) /\ end = KeyEnd(c, i) /\ k = ColonAt(c, i)
                                /\ v = ValAt(c, i) /\ e = ValEnd(c, i) /\ a = After(c, i)
  OBVIOUS
<1>2. Len(c) \in Nat /\ Len(p) \in Nat /\ Len(c) <= Len(p) /\ i \in Nat /\ i \in 1 .. Len(p) + 1 /\ \A x \in 1 .. Len(c) : c[x] = p[x]
  BY DEF Cut
<1>3. /\ j \in i .. Len(c) /\ end \in j + 2 .. Len(c) + 1 /\ k \in end .. Len(c) /\ c[k] = ":"
      /\ v \in k + 1 .. Len(c) /\ e \in v + 1 .. Len(c) + 1 /\ (a = Nowhere \/ a \in e .. Len(c))
  BY <1>1, HasTyped
<1>4. /\ j = skip_ws(c, i) /\ end = scan_string(c, j) /\ k = skip_ws(c, end) /\ v = skip_ws(c, k + 1)
      /\ e = scan_value(c, v) /\ a = skip_ws(c, e)
  BY <1>1, Zenon DEF KeyAt, KeyEnd, ColonAt, ValAt, ValEnd, After
<1>5. j \in Nat /\ end \in Nat /\ k \in Nat /\ v \in Nat /\ e \in Nat
  BY <1>2, <1>3
<1>6. j >= 1 /\ end >= j + 2 /\ k >= end /\ v >= k + 1 /\ e >= v + 1 /\ e <= Len(c) + 1 /\ j <= Len(c) /\ end <= Len(c) + 1 /\ k <= Len(c) /\ v <= Len(c)
  BY <1>2, <1>3, <1>5
<1>7. /\ i \in 1 .. Len(c) + 1 /\ end \in 1 .. Len(c) + 1 /\ k + 1 \in 1 .. Len(c) + 1 /\ v \in 1 .. Len(c) /\ k \in 1 .. Len(c)
      /\ e \in 1 .. Len(c) + 1 /\ \A x \in Nat : x >= 1 => x # Nowhere
  BY <1>2, <1>5, <1>6 DEF Nowhere
<1>8. j # Nowhere /\ end # Nowhere /\ k # Nowhere /\ v # Nowhere /\ e # Nowhere
  BY <1>5, <1>6, <1>7
<1>9. j = skip_ws(p, i)
  BY <1>4, <1>7, <1>8, SkipCut
<1>10. end = scan_string(p, j)
  BY <1>4, <1>5, <1>8, StringCut
<1>11. k = skip_ws(p, end)
  BY <1>4, <1>7, <1>8, SkipCut
<1>12. v = skip_ws(p, k + 1)
  BY <1>4, <1>7, <1>8, SkipCut
<1>13. PICK x : x = scan_value(p, v)
  OBVIOUS
<1>14. x # Nowhere /\ (x = e \/ (c[v] # Quote /\ e = Len(c) + 1))
  BY <1>4, <1>7, <1>8, <1>13, ValueCut
<1>15. KeyAt(p, i) = j /\ KeyEnd(p, i) = end /\ ColonAt(p, i) = k /\ ValAt(p, i) = v /\ ValEnd(p, i) = x /\ After(p, i) = skip_ws(p, x)
  BY <1>9, <1>10, <1>11, <1>12, <1>13, Zenon DEF KeyAt, KeyEnd, ColonAt, ValAt, ValEnd, After
<1>16. Has(p, i)
  <2>1. At(p, k, ":")
    BY <1>2, <1>3, <1>7 DEF At
  <2> QED BY <1>8, <1>14, <1>15, <2>1 DEF Has
<1>17. x \in v + 1 .. Len(p) + 1
  BY <1>15, <1>16, <1>2, HasTyped
<1>18. ASSUME NEW lo \in Nat, NEW hi \in Int, 1 <= lo, hi <= Len(c) PROVE SubSeq(c, lo, hi) = SubSeq(p, lo, hi)
  <2>1. PICK g, h : g = SubSeq(c, lo, hi) /\ h = SubSeq(p, lo, hi)
    OBVIOUS
  <2>2. g \in Seq(S) /\ h \in Seq(S) /\ Len(g) = Len(h) /\ \A y \in 1 .. Len(g) : g[y] = c[lo + y - 1] /\ h[y] = p[lo + y - 1] /\ lo + y - 1 \in 1 .. Len(c)
    BY <1>2, <1>18, <2>1
  <2>3. \A y \in 1 .. Len(g) : g[y] = h[y]
    BY <1>2, <2>2
  <2> QED BY <2>1, <2>2, <2>3, SameElements
<1>19. SubSeq(c, j + 1, end - 2) = SubSeq(p, j + 1, end - 2)
  BY <1>2, <1>5, <1>6, <1>18
<1>20. SameMeaning(SubSeq(c, v, e - 1), SubSeq(p, v, x - 1))
  <2>1. CASE x = e
    <3>1. SubSeq(c, v, e - 1) = SubSeq(p, v, e - 1)
      BY <1>2, <1>5, <1>6, <1>18
    <3> QED BY <2>1, <3>1 DEF SameMeaning
  <2>2. CASE c[v] # Quote
    <3>1. \A t \in Seq(S), lo \in Nat, hi \in Nat : 1 <= lo /\ lo <= hi /\ hi <= Len(t) => SubSeq(t, lo, hi) # <<>> /\ SubSeq(t, lo, hi)[1] = t[lo]
      OBVIOUS
    <3>2. e - 1 \in Nat /\ v <= e - 1 /\ e - 1 <= Len(c) /\ x - 1 \in Nat /\ v <= x - 1 /\ x - 1 <= Len(p) /\ 1 <= v
      BY <1>2, <1>5, <1>6, <1>17
    <3>3. SubSeq(c, v, e - 1) # <<>> /\ SubSeq(c, v, e - 1)[1] = c[v]
      BY <1>5, <3>1, <3>2
    <3>4. SubSeq(p, v, x - 1) # <<>> /\ SubSeq(p, v, x - 1)[1] = p[v]
      BY <1>5, <3>1, <3>2
    <3>5. c[v] = p[v]
      BY <1>2, <1>7
    <3> QED BY <2>2, <3>3, <3>4, <3>5 DEF SameMeaning
  <2> QED BY <1>14, <2>1, <2>2
<1>21. Same(Entry(c, i), Entry(p, i))
  <2>1. Entry(c, i) = EntryOf(SubSeq(c, j + 1, end - 2), SubSeq(c, v, e - 1))
    BY <1>1, Zenon DEF Entry, EntryOf
  <2>2. Entry(p, i) = EntryOf(SubSeq(p, j + 1, end - 2), SubSeq(p, v, x - 1))
    BY <1>15, Zenon DEF Entry, EntryOf
  <2>3. /\ Entry(c, i).key = SubSeq(c, j + 1, end - 2) /\ Entry(c, i).value = SubSeq(c, v, e - 1)
        /\ Entry(p, i).key = SubSeq(p, j + 1, end - 2) /\ Entry(p, i).value = SubSeq(p, v, x - 1)
    BY <2>1, <2>2, EntryOfIs, ZenonT(30)
  <2> QED BY <1>19, <1>20, <2>3, Zenon DEF Same
<1>22. ASSUME Goes(c, i) PROVE Goes(p, i) /\ After(p, i) = After(c, i)
  <2>1. a \in e .. Len(c) /\ c[a] = ","
    BY <1>1, <1>22, GoesOn
  <2>2. a \in 1 .. Len(c) /\ e # Len(c) + 1
    <3>1. e \in Nat /\ e >= 1 /\ Len(c) \in Nat
      BY <1>2, <1>5, <1>6
    <3>2. a \in e .. Len(c)
      BY <2>1
    <3> QED BY <3>1, <3>2
  <2>3. x = e
    BY <1>14, <2>2
  <2>4. a # Nowhere
    BY <1>7, <2>2
  <2>5. skip_ws(p, e) = a
    BY <1>4, <1>7, <2>4, SkipCut
  <2>6. After(p, i) = a
    BY <1>15, <2>3, <2>5
  <2>7. At(p, a, ",")
    <3>1. a \in 1 .. Len(p)
      BY <1>2, <2>2
    <3>2. p[a] = ","
      BY <1>2, <2>1, <2>2
    <3> QED BY <3>1, <3>2 DEF At
  <2> QED BY <1>1, <2>6, <2>7 DEF Goes
<1> QED BY <1>16, <1>21, <1>22

\* The entries of a payload that was cut.
Fewer(d, e) == Len(d) <= Len(e) /\ \A i \in 1 .. Len(d) : Same(d[i], e[i])

\* One more of them.
LEMMA FewerMore ==
    ASSUME NEW A, NEW d \in A, NEW e \in A, Same(d, e), NEW f \in Seq(A), NEW g \in Seq(A), Fewer(f, g)
    PROVE  Fewer(<<d>> \o f, <<e>> \o g)
<1>1. Len(<<d>> \o f) = Len(f) + 1 /\ Len(<<e>> \o g) = Len(g) + 1 /\ Len(f) \in Nat /\ Len(g) \in Nat /\ Len(f) <= Len(g)
  BY DEF Fewer
<1>2. (<<d>> \o f)[1] = d /\ (<<e>> \o g)[1] = e
  OBVIOUS
<1>3. /\ \A i \in 2 .. Len(f) + 1 : (<<d>> \o f)[i] = f[i - 1]
      /\ \A i \in 2 .. Len(g) + 1 : (<<e>> \o g)[i] = g[i - 1]
  OBVIOUS
<1>4. ASSUME NEW i \in 1 .. Len(f) + 1 PROVE Same((<<d>> \o f)[i], (<<e>> \o g)[i])
  <2>1. CASE i = 1
    BY <1>2, <2>1
  <2>2. CASE i # 1
    <3>1. i \in 2 .. Len(f) + 1 /\ i \in 2 .. Len(g) + 1 /\ i - 1 \in 1 .. Len(f)
      BY <1>1, <2>2
    <3>2. Same(f[i - 1], g[i - 1])
      BY <3>1 DEF Fewer
    <3> QED BY <1>3, <3>1, <3>2
  <2> QED BY <2>1, <2>2
<1>5. PICK x, y : x = <<d>> \o f /\ y = <<e>> \o g
  OBVIOUS
<1>6. Len(x) <= Len(y) /\ Len(x) = Len(f) + 1
  BY <1>1, <1>5
<1>7. \A i \in 1 .. Len(f) + 1 : Same(x[i], y[i])
  BY <1>4, <1>5
<1>8. Fewer(x, y)
  BY <1>6, <1>7 DEF Fewer
<1> QED BY <1>5, <1>8

\* None of them.
LEMMA FewerNone == ASSUME NEW A, NEW f \in Seq(A) PROVE Fewer(<<>>, f)
  BY DEF Fewer

\* See Fewer.
LEMMA HeadsCut ==
    ASSUME NEW S, NEW p \in Seq(S), NEW c \in Seq(S), Cut(c, p)
    PROVE  \A i \in 1 .. Len(c) + 1 : Fewer(Heads(c)[i], Heads(p)[i])
<1>1. PICK n, F, G, A : n = Len(c) /\ F = Heads(c) /\ G = Heads(p) /\ A = [ key : Seq(S), value : Seq(S) ]
  OBVIOUS
<1>2. n \in Nat /\ Len(p) \in Nat /\ n <= Len(p) /\ \A i \in 1 .. n + 1 : i \in 1 .. Len(p) + 1
  BY <1>1 DEF Cut
<1>3. \A i \in 1 .. n + 1 : F[i] \in Seq(A) /\ F[i] = Reads(c, F, i)
  BY <1>1, HeadsIs
<1>4. \A i \in 1 .. n + 1 : G[i] \in Seq(A) /\ G[i] = Reads(p, G, i)
  BY <1>1, <1>2, HeadsIs
<1> DEFINE D == 1 .. n + 1
           T == { i \in D : Fewer(F[i], G[i]) }
           m == [ i \in D |-> n + 1 - i ]
<1>5. ASSUME NEW i \in D, \A j \in D : m[j] < m[i] => j \in T PROVE Fewer(F[i], G[i])
  <2>1. CASE Has(c, i)
    <3>1. /\ Has(p, i) /\ Same(Entry(c, i), Entry(p, i))
          /\ Goes(c, i) => Goes(p, i) /\ After(p, i) = After(c, i)
      BY <1>1, <2>1, EntryCut
    <3>2. Entry(c, i) \in A
      BY <1>1, <2>1, HasTyped
    <3>3. Entry(p, i) \in A
      BY <1>1, <1>2, <3>1, HasTyped
    <3>4. /\ F[i] = <<Entry(c, i)>> \o (IF Goes(c, i) THEN F[After(c, i) + 1] ELSE <<>>)
          /\ G[i] = <<Entry(p, i)>> \o (IF Goes(p, i) THEN G[After(p, i) + 1] ELSE <<>>)
      BY <1>3, <1>4, <2>1, <3>1, Zenon DEF Reads
    <3>5. PICK f, g : f = (IF Goes(c, i) THEN F[After(c, i) + 1] ELSE <<>>) /\ g = (IF Goes(p, i) THEN G[After(p, i) + 1] ELSE <<>>)
      OBVIOUS
    <3>6. g \in Seq(A)
      <4>1. CASE Goes(p, i)
        <5>1. G[i] \in Seq(A) /\ \A x \in 1 .. Len(p) + 1 : Heads(p)[x] \in Seq(A)
          BY <1>1, <1>4, HeadsIs
        <5>2. After(p, i) + 1 \in i + 1 .. Len(p) + 1
          BY <1>2, <3>1, <4>1, GoesOn
        <5>3. After(p, i) + 1 \in 1 .. Len(p) + 1
          BY <1>2, <5>2
        <5> QED BY <1>1, <3>5, <4>1, <5>1, <5>3
      <4>2. CASE ~Goes(p, i)
        <5>1. g = <<>>
          BY <3>5, <4>2
        <5> QED BY <5>1
      <4> QED BY <4>1, <4>2
    <3>7. f \in Seq(A) /\ Fewer(f, g)
      <4>1. CASE Goes(c, i)
        <5>1. After(c, i) + 1 \in i + 1 .. Len(c) + 1
          BY <1>1, <2>1, <4>1, GoesOn
        <5>2. PICK x : x = After(c, i) + 1
          OBVIOUS
        <5>3. x \in i + 1 .. n + 1
          BY <1>1, <5>1, <5>2
        <5>4. x \in D /\ m[x] < m[i]
          BY <1>2, <5>3
        <5>5. Fewer(F[x], G[x])
          <6>1. x \in T
            <7> HIDE DEF m, D, T
            <7> QED BY <1>5, <5>4
          <6> QED BY <6>1
        <5>6. f = F[x] /\ g = G[x]
          BY <3>1, <3>5, <4>1, <5>2
        <5> QED BY <1>3, <5>4, <5>5, <5>6
      <4>2. CASE ~Goes(c, i)
        <5>1. f = <<>>
          BY <3>5, <4>2
        <5>2. Fewer(<<>>, g)
          BY <3>6, FewerNone
        <5> QED BY <5>1, <5>2
      <4> QED BY <4>1, <4>2
    <3>8. Fewer(<<Entry(c, i)>> \o f, <<Entry(p, i)>> \o g)
      BY <3>1, <3>2, <3>3, <3>6, <3>7, FewerMore
    <3> QED BY <3>4, <3>5, <3>8
  <2>2. CASE ~Has(c, i)
    <3>1. F[i] = <<>>
      BY <1>3, <2>2, Zenon DEF Reads
    <3>2. G[i] \in Seq(A)
      BY <1>4
    <3>3. Fewer(<<>>, G[i])
      BY <3>2, FewerNone
    <3> QED BY <3>1, <3>3
  <2> QED BY <2>1, <2>2
<1>6. \A i \in D : i \in T
  <2>1. m \in [ D -> Nat ]
    BY <1>2
  <2>2. ASSUME NEW i \in D, \A j \in D : m[j] < m[i] => j \in T
        PROVE  i \in T
    <3>1. Fewer(F[i], G[i])
      <4> HIDE DEF T, D, m
      <4> QED BY <1>5, <2>2
    <3> QED BY <3>1
  <2> HIDE DEF T, D, m
  <2>3. \A i \in D : (\A j \in D : m[j] < m[i] => j \in T) => i \in T
    BY <2>2
  <2> QED BY <2>1, <2>3, Descend
<1>7. ASSUME NEW i \in 1 .. n + 1 PROVE Fewer(F[i], G[i])
  <2>1. i \in T
    BY <1>6
  <2> QED BY <2>1
<1> QED BY <1>1, <1>7

\* The same of all entries.
LEMMA EntriesCut ==
    ASSUME NEW S, NEW p \in Seq(S), NEW c \in Seq(S), Cut(c, p)
    PROVE  Fewer(Entries(c), Entries(p))
<1>1. PICK i, q : i = skip_ws(c, 1) /\ q = "{"
  OBVIOUS
<1>2. Len(c) \in Nat /\ 1 \in 1 .. Len(c) + 1
  OBVIOUS
<1>3. CASE At(c, i, q)
  <2>1. i \in 1 .. Len(c) /\ c[i] = q
    BY <1>3 DEF At
  <2>2. i # Nowhere /\ i + 1 \in 1 .. Len(c) + 1
    BY <1>2, <2>1 DEF Nowhere
  <2>3. skip_ws(p, 1) = i
    BY <1>1, <1>2, <2>2, SkipCut
  <2>4. At(p, i, q)
    BY <2>1 DEF At, Cut
  <2>5. Entries(c) = Heads(c)[i + 1] /\ Entries(p) = Heads(p)[i + 1]
    BY <1>1, <1>3, <2>3, <2>4, EntriesIs, Zenon
  <2>6. Fewer(Heads(c)[i + 1], Heads(p)[i + 1])
    BY <2>2, HeadsCut
  <2> QED BY <2>5, <2>6, Zenon
<1>4. CASE ~At(c, i, q)
  <2>1. Entries(c) = <<>>
    BY <1>1, <1>4, EntriesIs, Zenon
  <2>2. Entries(p) \in Seq([ key : Seq(S), value : Seq(S) ])
    BY EntriesTyped
  <2>3. Fewer(<<>>, Entries(p))
    BY <2>2, FewerNone
  <2> QED BY <2>1, <2>3
<1> QED BY <1>3, <1>4

\* What a value means as a string.
Meaning(raw) == IF raw # Missing /\ raw[1] = Quote THEN unescape(SubSeq(raw, 2, Len(raw) - 1)) ELSE Missing
LEMMA StringIs == \A p, key : json_string(p, key) = Meaning(json_raw(p, key))
  BY Zenon DEF json_string, Meaning

\* Of a payload cut short a string is found whole or not at all: json_string.
THEOREM CutWholeOrMissing ==
    ASSUME NEW S, NEW p \in Seq(S), NEW c \in Seq(S), Cut(c, p), NEW key
    PROVE  json_string(c, key) \in {Missing, json_string(p, key)}
<1>1. PICK d, e, I, J : d = Entries(c) /\ e = Entries(p) /\ I = Places(d, key) /\ J = Places(e, key)
  OBVIOUS
<1>2. Fewer(d, e) /\ d \in Seq([ key : Seq(S), value : Seq(S) ]) /\ e \in Seq([ key : Seq(S), value : Seq(S) ])
  BY <1>1, EntriesCut, EntriesTyped
<1>3. Meaning(Missing) = Missing
  BY Zenon DEF Meaning
<1>4. CASE I = {}
  <2>1. json_raw(c, key) = Missing
    BY <1>1, <1>4, RawIs
  <2> QED BY <1>3, <2>1, StringIs
<1>5. CASE I # {}
  <2>1. PICK i \in I : \A j \in I : i <= j
    BY <1>1, <1>5, RawIs
  <2>2. json_raw(c, key) = d[i].value
    BY <1>1, <2>1, RawIs
  <2>3. /\ i \in 1 .. Len(d) /\ d[i].key = <<key>> /\ Len(d) \in Nat /\ Len(e) \in Nat /\ Len(d) <= Len(e)
        /\ \A j \in 1 .. Len(d) : d[j].key = e[j].key /\ SameMeaning(d[j].value, e[j].value)
    <3>1. i \in 1 .. Len(d) /\ d[i].key = <<key>>
      BY <1>1, <2>1 DEF Places
    <3>2. Len(d) \in Nat /\ Len(e) \in Nat
      BY <1>2
    <3>3. Len(d) <= Len(e) /\ \A j \in 1 .. Len(d) : d[j].key = e[j].key /\ SameMeaning(d[j].value, e[j].value)
      BY <1>2, Zenon DEF Fewer, Same
    <3> QED BY <3>1, <3>2, <3>3, Zenon
  <2>4. i \in J
    BY <1>1, <2>3 DEF Places
  <2>5. ASSUME NEW j \in J PROVE i <= j
    <3>1. j \in 1 .. Len(e) /\ e[j].key = <<key>>
      BY <1>1 DEF Places
    <3>2. CASE j <= Len(d)
      <4>1. j \in 1 .. Len(d) /\ d[j].key = <<key>>
        BY <2>3, <3>1, <3>2
      <4>2. j \in I
        BY <1>1, <4>1 DEF Places
      <4> QED BY <2>1, <4>2
    <3>3. CASE ~(j <= Len(d))
      BY <2>3, <3>1, <3>3
    <3> QED BY <3>2, <3>3
  <2>6. json_raw(p, key) = e[i].value
    BY <1>1, <2>4, <2>5, RawIs
  <2>7. SameMeaning(d[i].value, e[i].value)
    BY <2>3
  <2>8. CASE d[i].value = e[i].value
    BY <2>2, <2>6, <2>8, StringIs
  <2>9. CASE d[i].value[1] # Quote
    <3>1. Meaning(d[i].value) = Missing
      BY <2>9, Zenon DEF Meaning
    <3> QED BY <2>2, <3>1, StringIs
  <2> QED BY <2>7, <2>8, <2>9 DEF SameMeaning
<1> QED BY <1>4, <1>5

-----------------------------------------------------------------------------
(* Payloads that are written.                                              *)

\* What opens and what ends a payload, and what may stand behind a value.
Opening == "{"
Ending == "}"
Comma == ","
AColon == ":"
Enders == {Comma, Ending}
LEMMA EndersIs ==
    /\ \A x \in Enders : x \notin Blank
    /\ Quote \notin Blank /\ Quote \notin Enders /\ AColon \notin Blank /\ Comma \in Enders
    /\ Ending \in Enders /\ Ending # Comma /\ Opening \notin Blank
<1>1. \A x \in Enders : x \notin Blank
  BY Zenon DEF Enders, Blank, Ending, Comma
<1>2. Quote \notin Blank /\ Quote \notin Enders /\ AColon \notin Blank
  BY Zenon DEF Enders, Blank, Quote, Ending, Comma, AColon
<1>3. Comma \in Enders /\ Ending \in Enders /\ Ending # Comma /\ Opening \notin Blank
  BY Zenon DEF Enders, Ending, Comma, Opening, Blank
<1> QED BY <1>1, <1>2, <1>3

\* A value that is scanned as what it is.
Scans(w) ==
    /\ w # <<>> /\ w[1] \notin Blank
    /\ \A S : \A p \in Seq(S) : \A v \in 1 .. Len(p) :
          Placed(p, v, w) /\ v + Len(w) \in 1 .. Len(p) /\ p[v + Len(w)] \in Enders => scan_value(p, v) = v + Len(w)

\* A member from h on: its key at q, its value at v.
Sits(p, h, q, key, v, w) ==
    /\ h \in Nat \ {0} /\ q \in Nat /\ h <= q /\ \A x \in h .. q - 1 : p[x] \in Blank
    /\ p[q] = Quote /\ p[q + 1] = key /\ p[q + 2] = Quote /\ p[q + 3] = AColon
    /\ v \in Nat /\ q + 4 <= v /\ \A x \in q + 4 .. v - 1 : p[x] \in Blank
    /\ Placed(p, v, w)

\* No blank is skipped where there is none.
LEMMA SkipTo ==
    ASSUME NEW S, NEW p \in Seq(S), NEW i \in Nat \ {0}, NEW j \in Nat, i <= j, j <= Len(p),
           p[j] \notin Blank, \A x \in i .. j - 1 : p[x] \in Blank
    PROVE  skip_ws(p, i) = j
<1>1. i \in 1 .. Len(p) + 1 /\ j \in i .. Len(p) + 1 /\ ~(j > Len(p))
  OBVIOUS
<1>2. Past(p, i, Blank) = j
  BY <1>1, PastTo
<1> QED BY <1>1, <1>2, SkipIs

\* What is placed somewhere is found there.
LEMMA PlacedIs ==
    ASSUME NEW S, NEW p \in Seq(S), NEW R, NEW w \in Seq(R), NEW v, NEW e, v \in Nat, v >= 1, e = v + Len(w), e <= Len(p),
           Placed(p, v, w)
    PROVE  SubSeq(p, v, e - 1) = w
<1>1. PICK u, y : u = v - 1 /\ y = Len(w)
  OBVIOUS
<1>2. u \in Nat /\ y \in Nat /\ u + y <= Len(p) /\ u + 1 = v /\ u + y = e - 1
  BY <1>1
<1>3. PICK t : t = SubSeq(p, u + 1, u + y)
  OBVIOUS
<1>4. t \in Seq(S) /\ Len(t) = y /\ \A i \in 1 .. y : t[i] = p[u + i]
  BY ONLY <1>2, <1>3, SubSeqFacts, p \in Seq(S)
<1>5. ASSUME NEW i \in 1 .. y PROVE t[i] = w[i]
  <2>1. v + i - 1 = u + i /\ i \in 1 .. Len(w)
    BY <1>1, <1>2
  <2>2. p[v + i - 1] = w[i]
    BY <2>1 DEF Placed
  <2> QED BY <1>4, <2>1, <2>2
<1>6. t \in Seq(S \union R) /\ w \in Seq(S \union R)
  BY <1>4
<1>7. t = w
  BY <1>1, <1>4, <1>5, <1>6, SameElements
<1> QED BY <1>2, <1>3, <1>7

\* A member is found as what it is.
Found(p, h, key, w, e) == Has(p, h) /\ Entry(p, h) = EntryOf(<<key>>, w) /\ After(p, h) = e
LEMMA MemberFound ==
    ASSUME NEW S, NEW p \in Seq(S), NEW key, key \notin {Quote, Bs}, NEW R, NEW w \in Seq(R), Scans(w),
           NEW h, NEW q, NEW v, Sits(p, h, q, key, v, w), NEW e, e = v + Len(w), e \in 1 .. Len(p), p[e] \in Enders
    PROVE  Found(p, h, key, w, e)
<1>1. /\ h \in Nat /\ h >= 1 /\ q \in Nat /\ h <= q /\ v \in Nat /\ q + 4 <= v /\ Len(w) \in Nat /\ Len(w) >= 1
      /\ e \in Nat /\ e <= Len(p) /\ Len(p) \in Nat /\ e = v + Len(w)
  BY DEF Sits, Scans
<1>2. /\ \A x \in h .. q - 1 : p[x] \in Blank
      /\ p[q] = Quote /\ p[q + 1] = key /\ p[q + 2] = Quote /\ p[q + 3] = AColon
      /\ \A x \in q + 4 .. v - 1 : p[x] \in Blank
      /\ Placed(p, v, w)
  BY DEF Sits
<1>3. /\ q \in 1 .. Len(p) /\ q + 1 \in 1 .. Len(p) /\ q + 2 \in 1 .. Len(p) /\ q + 3 \in 1 .. Len(p) /\ v \in 1 .. Len(p)
      /\ q <= Len(p) /\ q + 3 <= Len(p) /\ v <= Len(p)
  BY <1>1
<1>4. KeyAt(p, h) = q
  <2>1. p[q] \notin Blank /\ h \in Nat \ {0}
    BY <1>1, <1>2, EndersIs
  <2>2. skip_ws(p, h) = q
    BY <1>1, <1>2, <1>3, <2>1, SkipTo
  <2> QED BY <2>2 DEF KeyAt
<1>5. KeyEnd(p, h) = q + 3
  <2>1. \A j \in 1 .. Len(p) : Ends(p)[j] = IF p[j] = Bs THEN Ends(p)[j + 2] ELSE IF p[j] = Quote THEN j + 1 ELSE Ends(p)[j + 1]
    BY EndsIs
  <2>2. key # Quote /\ key # Bs /\ Quote # Bs
    BY DEF Quote, Bs
  <2>3. Ends(p)[q + 1] = Ends(p)[q + 1 + 1]
    BY <1>2, <1>3, <2>1, <2>2
  <2>4. Ends(p)[q + 2] = q + 2 + 1
    BY <1>2, <1>3, <2>1, <2>2
  <2>5. At(p, q, Quote)
    BY <1>2, <1>3 DEF At
  <2>6. scan_string(p, q) = Ends(p)[q + 1]
    BY <2>5, ScanString, Zenon
  <2>7. q + 1 + 1 = q + 2 /\ q + 2 + 1 = q + 3
    BY <1>1
  <2> QED BY <1>4, <2>3, <2>4, <2>6, <2>7 DEF KeyEnd
<1>6. ColonAt(p, h) = q + 3
  <2>1. q + 3 \in Nat \ {0} /\ q + 3 \in Nat /\ q + 3 <= q + 3 /\ p[q + 3] \notin Blank /\ \A x \in q + 3 .. (q + 3) - 1 : p[x] \in Blank
    BY <1>1, <1>2, EndersIs
  <2>2. skip_ws(p, q + 3) = q + 3
    BY <1>3, <2>1, SkipTo
  <2> QED BY <1>5, <2>2 DEF ColonAt
<1>7. 1 \in 1 .. Len(w) /\ v + 1 - 1 = v
  BY <1>1
<1>8. p[v] = w[1]
  <2>1. \A i \in 1 .. Len(w) : p[v + i - 1] = w[i]
    BY <1>2 DEF Placed
  <2> QED BY <1>7, <2>1
<1>9. ValAt(p, h) = v
  <2>1. q + 3 + 1 = q + 4 /\ q + 4 \in Nat \ {0} /\ q + 4 <= v
    BY <1>1
  <2>2. p[v] \notin Blank
    BY <1>8 DEF Scans
  <2>3. skip_ws(p, q + 4) = v
    BY <1>1, <1>2, <1>3, <2>1, <2>2, SkipTo
  <2> QED BY <1>6, <2>1, <2>3 DEF ValAt
<1>10. ValEnd(p, h) = e
  <2>1. scan_value(p, v) = e
    BY <1>2, <1>3 DEF Scans
  <2> QED BY <1>9, <2>1 DEF ValEnd
<1>11. After(p, h) = e
  <2>1. e \in Nat \ {0} /\ e <= e /\ p[e] \notin Blank /\ \A x \in e .. e - 1 : p[x] \in Blank
    BY <1>1, EndersIs
  <2>2. skip_ws(p, e) = e
    BY <1>1, <2>1, SkipTo
  <2> QED BY <1>10, <2>2 DEF After
<1>12. Has(p, h)
  <2>1. q + 3 # Nowhere /\ v # Nowhere /\ e # Nowhere
    BY <1>1 DEF Nowhere
  <2>2. At(p, q + 3, AColon)
    BY <1>2, <1>3 DEF At
  <2> QED BY <1>5, <1>6, <1>9, <1>10, <2>1, <2>2, Zenon DEF Has, AColon
<1>13. SubSeq(p, q + 1, (q + 3) - 2) = <<key>>
  <2>1. (q + 3) - 2 = q + 1 /\ p[q + 1] = key
    BY <1>1, <1>2
  <2>2. SubSeq(p, q + 1, q + 1) = <<p[q + 1]>>
    BY <1>3, SubSeqUnit
  <2> QED BY <2>1, <2>2
<1>14. SubSeq(p, v, e - 1) = w
  <2>1. v \in Nat /\ v >= 1 /\ e = v + Len(w) /\ e <= Len(p) /\ Placed(p, v, w)
    BY <1>1, <1>2
  <2> QED BY ONLY <2>1, PlacedIs, p \in Seq(S), w \in Seq(R)
<1>15. Entry(p, h) = EntryOf(<<key>>, w)
  <2>1. Entry(p, h) = EntryOf(SubSeq(p, q + 1, (q + 3) - 2), SubSeq(p, v, e - 1))
    BY <1>4, <1>5, <1>9, <1>10, Zenon DEF Entry, EntryOf
  <2> QED BY <1>13, <1>14, <2>1
<1> QED BY <1>11, <1>12, <1>15 DEF Found

\* The members of a payload, one behind the other.
Told(ms) == [ i \in 1 .. Len(ms) |-> EntryOf(<<ms[i].key>>, ms[i].written) ]
Laid(p, ms, h, e) ==
    /\ h[1] = 2 /\ p[1] = Opening /\ Len(p) >= 1 /\ Len(ms) >= 1
    /\ \A i \in 1 .. Len(ms) :
          /\ h[i] \in 1 .. Len(p) /\ e[i] \in 1 .. Len(p) /\ p[e[i]] \in Enders /\ (p[e[i]] = Comma <=> i < Len(ms))
          /\ i < Len(ms) => h[i + 1] = e[i] + 1
          /\ Found(p, h[i], ms[i].key, ms[i].written, e[i])
LEMMA EntriesLaid ==
    ASSUME NEW S, NEW p \in Seq(S), NEW R, NEW ms \in Seq(R), NEW h, NEW e, Laid(p, ms, h, e)
    PROVE  Entries(p) = Told(ms)
<1>1. PICK n, F, T, A : n = Len(ms) /\ F = Heads(p) /\ T = Told(ms) /\ A = [ key : Seq(S), value : Seq(S) ]
  OBVIOUS
<1>2. n \in Nat /\ n >= 1 /\ Len(p) \in Nat /\ Len(p) >= 1
  BY <1>1 DEF Laid
<1>3. ASSUME NEW i \in 1 .. n
      PROVE  /\ h[i] \in 1 .. Len(p) + 1 /\ (p[e[i]] = Comma <=> i < n) /\ e[i] \in 1 .. Len(p)
             /\ i < n => h[i + 1] = e[i] + 1
             /\ Has(p, h[i]) /\ Entry(p, h[i]) = EntryOf(<<ms[i].key>>, ms[i].written) /\ After(p, h[i]) = e[i]
  <2>1. /\ h[i] \in 1 .. Len(p) /\ (p[e[i]] = Comma <=> i < n) /\ e[i] \in 1 .. Len(p)
        /\ i < n => h[i + 1] = e[i] + 1
        /\ Found(p, h[i], ms[i].key, ms[i].written, e[i])
    BY <1>1 DEF Laid
  <2>2. h[i] \in 1 .. Len(p) + 1
    <3>1. \A x : x \in 1 .. Len(p) => x \in 1 .. Len(p) + 1
      BY <1>2
    <3>2. h[i] \in 1 .. Len(p)
      BY <2>1
    <3> QED BY <3>1, <3>2
  <2> QED BY <2>1, <2>2, Zenon DEF Found
<1>4. T = [ i \in 1 .. n |-> EntryOf(<<ms[i].key>>, ms[i].written) ]
  BY <1>1 DEF Told
<1>5. T \in Seq(A) /\ Len(T) = n /\ \A i \in 1 .. n : T[i] = Entry(p, h[i])
  <2>1. ASSUME NEW i \in 1 .. n PROVE T[i] = Entry(p, h[i]) /\ Entry(p, h[i]) \in A
    <3>1. T[i] = Entry(p, h[i])
      BY <1>3, <1>4
    <3>2. Entry(p, h[i]) \in A
      BY <1>1, <1>3, HasTyped
    <3> QED BY <3>1, <3>2
  <2>2. T \in [ 1 .. n -> A ]
    BY <1>4, <2>1
  <2>3. T \in Seq(A) /\ Len(T) = n
    BY <1>2, <2>2
  <2> QED BY <2>1, <2>3
<1> DEFINE X == { d \in Nat : d < n => F[h[n - d]] = SubSeq(T, n - d, n) }
<1>6. ASSUME NEW i \in 1 .. n
      PROVE  /\ i = n => F[h[i]] = <<T[i]>>
             /\ i < n => F[h[i]] = <<T[i]>> \o F[h[i + 1]]
  <2>1. F[h[i]] = Reads(p, F, h[i])
    BY <1>1, <1>3, HeadsIs
  <2>2. Goes(p, h[i]) <=> i < n
    <3>1. At(p, e[i], Comma) <=> i < n
      BY <1>3 DEF At
    <3> QED BY <1>3, <3>1, Zenon DEF Goes, Comma
  <2>3. F[h[i]] = <<Entry(p, h[i])>> \o (IF Goes(p, h[i]) THEN F[After(p, h[i]) + 1] ELSE <<>>)
    BY <1>3, <2>1, Zenon DEF Reads
  <2>4. CASE i < n
    <3>1. F[h[i]] = <<Entry(p, h[i])>> \o F[After(p, h[i]) + 1]
      BY <2>2, <2>3, <2>4
    <3>2. After(p, h[i]) + 1 = h[i + 1]
      BY <1>3, <2>4
    <3>3. T[i] = Entry(p, h[i]) /\ i # n
      BY <1>2, <1>5, <2>4
    <3> QED BY <3>1, <3>2, <3>3
  <2>5. CASE ~(i < n)
    <3>1. F[h[i]] = <<Entry(p, h[i])>> \o <<>>
      BY <2>2, <2>3, <2>5
    <3>2. Entry(p, h[i]) \in A
      BY <1>1, <1>3, HasTyped
    <3>3. \A x \in A : <<x>> \o <<>> = <<x>>
      OBVIOUS
    <3>4. T[i] = Entry(p, h[i])
      BY <1>5
    <3> QED BY <2>5, <3>1, <3>2, <3>3, <3>4
  <2> QED BY <2>4, <2>5
<1>7. 0 \in X
  <2>1. n \in 1 .. n /\ n - 0 = n /\ n \in Nat
    BY <1>2
  <2>2. SubSeq(T, n, n) = <<T[n]>>
    BY <1>5, <2>1, SubSeqUnit
  <2> QED BY <1>6, <2>1, <2>2
<1>8. ASSUME NEW d \in X PROVE d + 1 \in X
  <2>1. CASE d + 1 < n
    <3>1. PICK i : i = n - (d + 1)
      OBVIOUS
    <3>2. i \in 1 .. n /\ i < n /\ i + 1 = n - d /\ d < n /\ d \in Nat
      BY <1>2, <2>1, <3>1
    <3>3. F[h[i + 1]] = SubSeq(T, i + 1, n)
      BY <3>2
    <3>4. F[h[i]] = <<T[i]>> \o F[h[i + 1]]
      BY <1>6, <3>2
    <3>5. SubSeq(T, i, n) = <<T[i]>> \o SubSeq(T, i + 1, n)
      <4>1. PICK k : k = i - 1
        OBVIOUS
      <4>2. k \in 0 .. Len(T) - 1 /\ k + 1 = i /\ k + 2 = i + 1
        BY <1>2, <1>5, <3>2, <4>1
      <4>3. SubSeq(T, k + 1, Len(T)) = <<T[k + 1]>> \o SubSeq(T, k + 2, Len(T))
        BY <1>5, <4>2, SubSeqFirst
      <4> QED BY <1>5, <4>2, <4>3
    <3>6. F[h[n - (d + 1)]] = SubSeq(T, n - (d + 1), n)
      BY <3>1, <3>3, <3>4, <3>5
    <3> QED BY <3>2, <3>6
  <2>2. CASE ~(d + 1 < n)
    BY <2>2
  <2> QED BY <2>1, <2>2
<1>9. X = Nat
  <2> HIDE DEF X
  <2>1. X \subseteq Nat
    BY DEF X
  <2> QED BY <1>7, <1>8, <2>1, Induct
<1>10. F[h[1]] = T
  <2>1. n - 1 \in Nat /\ n - 1 < n /\ n - (n - 1) = 1
    BY <1>2
  <2>2. n - 1 \in X
    <3> HIDE DEF X
    <3> QED BY <1>9, <2>1
  <2>3. F[h[1]] = SubSeq(T, 1, n)
    BY <2>1, <2>2
  <2> QED BY <1>5, <2>3
<1>11. p[1] = Opening
  BY Zenon DEF Laid
<1>12. Entries(p) = F[2]
  <2>1. p[1] \notin Blank /\ 1 \in Nat \ {0} /\ \A x \in 1 .. 1 - 1 : p[x] \in Blank
    BY <1>11, EndersIs
  <2>2. skip_ws(p, 1) = 1
    BY <1>2, <2>1, SkipTo
  <2>3. At(p, 1, Opening)
    BY <1>2, <1>11 DEF At
  <2>4. Entries(p) = Heads(p)[1 + 1]
    BY <2>2, <2>3, EntriesIs, Zenon DEF Opening
  <2>5. 1 + 1 = 2
    OBVIOUS
  <2> QED BY <1>1, <2>4, <2>5
<1>13. h[1] = 2
  BY Zenon DEF Laid
<1> QED BY <1>1, <1>10, <1>12, <1>13

-----------------------------------------------------------------------------
(* The payload of some members.                                            *)

\* What is written of a member, behind what separates it from the last.
KeyPart(key) == <<Quote, key, Quote, AColon>>
Lead(i, blank) == IF i = 1 THEN <<>> ELSE <<Comma>> \o blank
MemberPiece(lead, key, blank, w) == lead \o (KeyPart(key) \o blank \o w)
Pieces(ms, blank) == [ i \in 1 .. Len(ms) |-> MemberPiece(Lead(i, blank), ms[i].key, blank, ms[i].written) ]
Wrapped(P) == <<Opening>> \o FlattenSeq(P) \o <<Ending>>
Blanks(pretty) == IF pretty THEN <<" ">> ELSE <<>>

\* See Pieces.
LEMMA PayloadIs == \A ms, pretty : Payload(ms, pretty) = Wrapped(Pieces(ms, Blanks(pretty)))
BY Zenon DEF Payload, Wrapped, Pieces, MemberPiece, KeyPart, Lead, Blanks, Opening, Ending, Comma, AColon

\* What a sequence made of two others is.
Spans(S, c, a, b) ==
    /\ c \in Seq(S) /\ Len(a) \in Nat /\ Len(b) \in Nat /\ Len(c) = Len(a) + Len(b)
    /\ \A i \in 1 .. Len(a) : c[i] = a[i]
    /\ \A i \in 1 .. Len(b) : c[Len(a) + i] = b[i]
LEMMA SpansIs == ASSUME NEW S, NEW a \in Seq(S), NEW b \in Seq(S) PROVE Spans(S, a \o b, a, b)
<1>1. Len(a) \in Nat /\ Len(b) \in Nat
  OBVIOUS
<1> QED BY <1>1, ConcatFacts DEF Spans

\* The symbols of a piece.
IsPiece(S, z, lead, key, blank, w, l, b) ==
    /\ z \in Seq(S) /\ l \in Nat /\ b \in Nat /\ Len(w) \in Nat /\ Len(z) = l + 4 + b + Len(w)
    /\ \A x \in 1 .. l : z[x] = lead[x]
    /\ z[l + 1] = Quote /\ z[l + 2] = key /\ z[l + 3] = Quote /\ z[l + 4] = AColon
    /\ \A x \in 1 .. b : z[l + 4 + x] = blank[x]
    /\ \A x \in 1 .. Len(w) : z[l + 4 + b + x] = w[x]
LEMMA MemberPieceIs ==
    ASSUME NEW S, Quote \in S, AColon \in S, NEW lead \in Seq(S), NEW key \in S, NEW blank \in Seq(S), NEW w \in Seq(S)
    PROVE  IsPiece(S, MemberPiece(lead, key, blank, w), lead, key, blank, w, Len(lead), Len(blank))
<1>0. PICK z, l, b : z = MemberPiece(lead, key, blank, w) /\ l = Len(lead) /\ b = Len(blank)
  OBVIOUS
<1>1. PICK n, u, t : n = KeyPart(key) /\ u = n \o blank /\ t = u \o w
  OBVIOUS
<1>2. n \in Seq(S) /\ Len(n) = 4 /\ n[1] = Quote /\ n[2] = key /\ n[3] = Quote /\ n[4] = AColon
  BY <1>1 DEF KeyPart
<1>3. /\ u \in Seq(S) /\ Len(u) = 4 + b /\ b \in Nat
      /\ \A x \in 1 .. 4 : u[x] = n[x]
      /\ \A x \in 1 .. b : u[4 + x] = blank[x]
  <2>1. Spans(S, u, n, blank)
    BY <1>1, <1>2, SpansIs
  <2> QED BY <1>0, <1>2, <2>1 DEF Spans
<1>4. /\ t \in Seq(S) /\ Len(t) = 4 + b + Len(w) /\ Len(w) \in Nat
      /\ \A x \in 1 .. 4 + b : t[x] = u[x]
      /\ \A x \in 1 .. Len(w) : t[4 + b + x] = w[x]
  <2>1. Spans(S, t, u, w)
    BY <1>1, <1>3, SpansIs
  <2> QED BY <1>3, <2>1 DEF Spans
<1>5. /\ z \in Seq(S) /\ Len(z) = l + Len(t) /\ l \in Nat
      /\ \A x \in 1 .. l : z[x] = lead[x]
      /\ \A x \in 1 .. Len(t) : z[l + x] = t[x]
  <2>1. z = lead \o t
    BY <1>0, <1>1 DEF MemberPiece
  <2>2. Spans(S, z, lead, t)
    BY <1>4, <2>1, SpansIs
  <2> QED BY <1>0, <2>2 DEF Spans
<1>6. \A x \in 1 .. 4 : x \in 1 .. 4 + b /\ x \in 1 .. 4 + b + Len(w)
  BY <1>3, <1>4
<1>7. \A x \in 1 .. 4 : z[l + x] = n[x]
  BY <1>3, <1>4, <1>5, <1>6
<1>8. \A x \in 1 .. b : z[l + 4 + x] = blank[x]
  <2>1. ASSUME NEW x \in 1 .. b PROVE z[l + 4 + x] = blank[x]
    <3>1. 4 + x \in 1 .. 4 + b /\ 4 + x \in 1 .. 4 + b + Len(w) /\ l + (4 + x) = l + 4 + x
      BY <1>3, <1>4, <1>5
    <3>2. z[l + (4 + x)] = t[4 + x]
      BY <1>4, <1>5, <3>1
    <3>3. t[4 + x] = u[4 + x] /\ u[4 + x] = blank[x]
      BY <1>3, <1>4, <3>1
    <3> QED BY <3>1, <3>2, <3>3
  <2> QED BY <2>1
<1>9. \A x \in 1 .. Len(w) : z[l + 4 + b + x] = w[x]
  <2>1. ASSUME NEW x \in 1 .. Len(w) PROVE z[l + 4 + b + x] = w[x]
    <3>1. 4 + b + x \in 1 .. 4 + b + Len(w) /\ l + (4 + b + x) = l + 4 + b + x
      BY <1>3, <1>4, <1>5
    <3> QED BY <1>4, <1>5, <3>1
  <2> QED BY <2>1
<1>10. Len(z) = l + 4 + b + Len(w)
  BY <1>3, <1>4, <1>5
<1>11. z[l + 1] = Quote /\ z[l + 2] = key /\ z[l + 3] = Quote /\ z[l + 4] = AColon
  BY <1>2, <1>7
<1>12. IsPiece(S, z, lead, key, blank, w, l, b)
  BY <1>3, <1>4, <1>5, <1>8, <1>9, <1>10, <1>11, Zenon DEF IsPiece
<1> QED BY <1>0, <1>12

\* The symbols of a payload.
LEMMA WrappedIs ==
    ASSUME NEW S, Opening \in S, Ending \in S, NEW P \in Seq(Seq(S)), NEW s, s = FlattenSeq(P)
    PROVE  /\ Wrapped(P) \in Seq(S) /\ Len(Wrapped(P)) = Len(s) + 2 /\ Len(s) \in Nat
           /\ Wrapped(P)[1] = Opening /\ Wrapped(P)[Len(s) + 2] = Ending
           /\ \A i \in 1 .. Len(s) : Wrapped(P)[i + 1] = s[i]
<1>1. s \in Seq(S)
  BY FlattenTyped
<1>2. <<Opening>> \o s \o <<Ending>> \in Seq(S) /\ Len(<<Opening>> \o s \o <<Ending>>) = Len(s) + 2 /\ Len(s) \in Nat
  BY <1>1
<1>3. (<<Opening>> \o s \o <<Ending>>)[1] = Opening /\ (<<Opening>> \o s \o <<Ending>>)[Len(s) + 2] = Ending
  BY <1>1
<1>4. \A i \in 1 .. Len(s) : (<<Opening>> \o s \o <<Ending>>)[i + 1] = s[i]
  BY <1>1
<1> QED BY <1>2, <1>3, <1>4 DEF Wrapped

\* Where a piece stands in it.
StandsFrom(p, z, g, after) ==
    /\ g \in Nat /\ Len(z) \in Nat /\ after = g + Len(z) /\ g + Len(z) + 2 <= Len(p)
    /\ \A x \in 1 .. Len(z) : p[g + 1 + x] = z[x]
LEMMA PieceStands ==
    ASSUME NEW S, Opening \in S, Ending \in S, NEW P \in Seq(Seq(S)), NEW k \in 0 .. Len(P) - 1
    PROVE  StandsFrom(Wrapped(P), P[k + 1], Starts(P)[k], Starts(P)[k + 1])
<1>0. PICK p, g, z : p = Wrapped(P) /\ g = Starts(P)[k] /\ z = P[k + 1]
  OBVIOUS
<1>1. PICK s : s = FlattenSeq(P)
  OBVIOUS
<1>2. /\ g \in Nat /\ Len(z) \in Nat /\ Starts(P)[k + 1] = g + Len(z)
      /\ g + Len(z) <= Len(s)
      /\ \A i \in 1 .. Len(z) : s[g + i] = z[i]
  BY <1>0, <1>1, StartsAt
<1>3. Len(p) = Len(s) + 2 /\ Len(s) \in Nat /\ \A i \in 1 .. Len(s) : p[i + 1] = s[i]
  BY <1>0, <1>1, WrappedIs
<1>4. ASSUME NEW x \in 1 .. Len(z) PROVE p[g + 1 + x] = z[x]
  <2>1. g + x \in 1 .. Len(s) /\ g + x + 1 = g + 1 + x
    <3>1. g \in Nat /\ Len(z) \in Nat /\ g + Len(z) <= Len(s) /\ Len(s) \in Nat
      BY <1>2, <1>3
    <3> QED BY <3>1
  <2>2. p[g + x + 1] = s[g + x]
    BY <1>3, <2>1
  <2> QED BY <1>2, <2>1, <2>2
<1>5. g + Len(z) + 2 <= Len(p)
  BY <1>2, <1>3
<1>6. StandsFrom(p, z, g, Starts(P)[k + 1])
  BY <1>2, <1>4, <1>5, Zenon DEF StandsFrom
<1> QED BY <1>0, <1>6

\* Members whose values are scanned as what they are.
WellTold(S, ms) ==
    /\ Quote \in S /\ AColon \in S /\ Comma \in S /\ Opening \in S /\ Ending \in S
    /\ Len(ms) \in Nat
    /\ \A i \in 1 .. Len(ms) :
          ms[i].key \in S /\ ms[i].key \notin {Quote, Bs} /\ ms[i].written \in Seq(S) /\ Scans(ms[i].written)

\* The pieces of a payload.
ArePieces(S, P, ms, blank) ==
    /\ P \in Seq(Seq(S)) /\ Len(P) = Len(ms)
    /\ \A i \in 1 .. Len(ms) : /\ P[i] = MemberPiece(Lead(i, blank), ms[i].key, blank, ms[i].written)
                               /\ Lead(i, blank) \in Seq(S)
LEMMA PiecesAre ==
    ASSUME NEW S, NEW ms, WellTold(S, ms), NEW blank \in Seq(S)
    PROVE  ArePieces(S, Pieces(ms, blank), ms, blank)
<1>1. PICK n : n = Len(ms) /\ n \in Nat
  BY DEF WellTold
<1>2. ASSUME NEW i \in 1 .. n
      PROVE  Lead(i, blank) \in Seq(S) /\ MemberPiece(Lead(i, blank), ms[i].key, blank, ms[i].written) \in Seq(S)
  <2>1. ms[i].key \in S /\ ms[i].written \in Seq(S) /\ Quote \in S /\ AColon \in S /\ Comma \in S
    BY <1>1 DEF WellTold
  <2>2. <<>> \in Seq(S) /\ <<Comma>> \o blank \in Seq(S)
    BY <2>1
  <2>3. Lead(i, blank) \in Seq(S)
    BY <2>2 DEF Lead
  <2>4. IsPiece(S, MemberPiece(Lead(i, blank), ms[i].key, blank, ms[i].written), Lead(i, blank), ms[i].key, blank,
                ms[i].written, Len(Lead(i, blank)), Len(blank))
    BY <2>1, <2>3, MemberPieceIs
  <2> QED BY <2>3, <2>4 DEF IsPiece
<1>3. Pieces(ms, blank) = [ i \in 1 .. n |-> MemberPiece(Lead(i, blank), ms[i].key, blank, ms[i].written) ]
  BY <1>1 DEF Pieces
<1>4. Pieces(ms, blank) \in [ 1 .. n -> Seq(S) ]
  BY <1>2, <1>3
<1> QED BY <1>1, <1>2, <1>3, <1>4 DEF ArePieces

\* Where a member begins and where it ends.
HeadAt(P, i) == IF i = 1 THEN 2 ELSE 3 + Starts(P)[i - 1]
TailAt(P, i) == 2 + Starts(P)[i]

\* A member is where it was written.
LEMMA MemberSits ==
    ASSUME NEW S, NEW ms, WellTold(S, ms), NEW blank \in Seq(Blank), Blank \subseteq S,
           NEW P, P = Pieces(ms, blank), NEW p, p = Wrapped(P), NEW i \in 1 .. Len(ms)
    PROVE  \E q, v : /\ Sits(p, HeadAt(P, i), q, ms[i].key, v, ms[i].written)
                     /\ TailAt(P, i) = v + Len(ms[i].written) /\ TailAt(P, i) <= Len(p)
<1>1. blank \in Seq(S) /\ Len(blank) \in Nat /\ \A x \in 1 .. Len(blank) : blank[x] \in Blank
  OBVIOUS
<1>2. PICK lead, key, w, z, g, l, b : /\ lead = Lead(i, blank) /\ key = ms[i].key /\ w = ms[i].written /\ z = P[i]
                                      /\ g = Starts(P)[i - 1] /\ l = Len(lead) /\ b = Len(blank)
  OBVIOUS
<1>3. Len(ms) \in Nat /\ key \in S /\ w \in Seq(S) /\ Quote \in S /\ AColon \in S /\ Opening \in S /\ Ending \in S /\ Comma \in S
  BY <1>2 DEF WellTold
<1>4. P \in Seq(Seq(S)) /\ Len(P) = Len(ms) /\ z = MemberPiece(lead, key, blank, w) /\ lead \in Seq(S)
  <2>1. ArePieces(S, P, ms, blank)
    BY <1>1, PiecesAre
  <2> QED BY <1>2, <2>1 DEF ArePieces
<1>5. /\ l \in Nat /\ b \in Nat /\ Len(w) \in Nat /\ Len(z) = l + 4 + b + Len(w)
      /\ \A x \in 1 .. l : z[x] = lead[x]
      /\ z[l + 1] = Quote /\ z[l + 2] = key /\ z[l + 3] = Quote /\ z[l + 4] = AColon
      /\ \A x \in 1 .. b : z[l + 4 + x] = blank[x]
      /\ \A x \in 1 .. Len(w) : z[l + 4 + b + x] = w[x]
  <2>1. IsPiece(S, z, lead, key, blank, w, l, b)
    BY <1>1, <1>2, <1>3, <1>4, MemberPieceIs
  <2> QED BY <2>1, Zenon DEF IsPiece
<1>6. /\ g \in Nat /\ Starts(P)[i] = g + Len(z) /\ g + Len(z) + 2 <= Len(p) /\ Len(p) \in Nat
      /\ \A x \in 1 .. Len(z) : p[g + 1 + x] = z[x]
  <2>1. PICK k : k = i - 1
    OBVIOUS
  <2>2. k \in 0 .. Len(P) - 1 /\ k + 1 = i
    BY <1>3, <1>4, <2>1
  <2>3. g = Starts(P)[k] /\ z = P[k + 1]
    BY <1>2, <2>1, <2>2
  <2>4. StandsFrom(p, z, g, Starts(P)[k + 1])
    BY <1>3, <1>4, <2>2, <2>3, PieceStands
  <2>5. p \in Seq(S)
    BY <1>3, <1>4, WrappedIs
  <2> QED BY <2>2, <2>4, <2>5, SMTT(20) DEF StandsFrom
<1>7. PICK h, q, v : h = HeadAt(P, i) /\ q = g + 2 + l /\ v = g + 6 + l + b
  OBVIOUS
<1>8. q \in Nat /\ v \in Nat /\ q + 4 <= v /\ v + Len(w) = 2 + (g + Len(z)) /\ v + Len(w) <= Len(p)
  <2>1. l \in Nat /\ b \in Nat /\ Len(w) \in Nat /\ Len(z) = l + 4 + b + Len(w) /\ g \in Nat /\ g + Len(z) + 2 <= Len(p)
    BY <1>5, <1>6
  <2>2. Len(p) \in Nat
    BY <1>6
  <2> QED BY <1>7, <2>1, <2>2
<1>9. h \in Nat \ {0} /\ h <= q /\ \A x \in h .. q - 1 : p[x] \in Blank
  <2>1. CASE i = 1
    <3>1. h = 2 /\ g = 0 /\ l = 0
      <4>1. g = Starts(P)[0]
        BY <1>2, <2>1
      <4>2. lead = <<>>
        BY <1>2, <2>1 DEF Lead
      <4> QED BY <1>2, <1>4, <1>7, <2>1, <4>1, <4>2, StartsEnds DEF HeadAt
    <3>2. q = 2
      BY <1>7, <3>1
    <3> QED BY <3>1, <3>2
  <2>2. CASE i # 1
    <3>1. h = 3 + g
      BY <1>2, <1>7, <2>2 DEF HeadAt
    <3>2. lead = <<Comma>> \o blank
      BY <1>2, <2>2 DEF Lead
    <3>3. l = 1 + b /\ \A x \in 1 .. b : lead[1 + x] = blank[x]
      <4>1. PICK one : one = <<Comma>>
        OBVIOUS
      <4>3. one \in Seq(S) /\ Len(one) = 1
        BY <1>3, <4>1
      <4>2. Spans(S, lead, one, blank)
        BY <1>1, <3>2, <4>1, <4>3, SpansIs
      <4> QED BY <1>2, <4>2, <4>3 DEF Spans
    <3>4. h \in Nat \ {0} /\ h <= q /\ q - 1 = g + 1 + l
      BY <1>5, <1>6, <1>7, <3>1, <3>3
    <3>5. ASSUME NEW x \in h .. q - 1 PROVE p[x] \in Blank
      <4>1. PICK y : y = x - (g + 2)
        OBVIOUS
      <4>2. y \in 1 .. b /\ 1 + y \in 1 .. l /\ x = g + 1 + (1 + y)
        BY <1>5, <1>6, <3>1, <3>3, <3>4, <4>1
      <4>3. 1 + y \in 1 .. Len(z)
        BY <1>5, <4>2
      <4>4. p[x] = z[1 + y]
        BY <1>6, <4>2, <4>3
      <4>5. z[1 + y] = lead[1 + y] /\ lead[1 + y] = blank[y]
        BY <1>5, <3>3, <4>2
      <4>6. blank[y] \in Blank
        BY <1>1, <1>2, <4>2
      <4> QED BY <4>4, <4>5, <4>6
    <3> QED BY <3>4, <3>5
  <2> QED BY <2>1, <2>2
<1>10. p[q] = Quote /\ p[q + 1] = key /\ p[q + 2] = Quote /\ p[q + 3] = AColon
  <2>1. \A x \in 1 .. 4 : l + x \in 1 .. Len(z) /\ g + 1 + (l + x) = q + (x - 1)
    BY <1>5, <1>6, <1>7
  <2>2. \A x \in 1 .. 4 : p[q + (x - 1)] = z[l + x]
    BY <1>6, <2>1
  <2>3. q + (1 - 1) = q /\ q + (2 - 1) = q + 1 /\ q + (3 - 1) = q + 2 /\ q + (4 - 1) = q + 3
    BY <1>8
  <2>4. 1 \in 1 .. 4 /\ 2 \in 1 .. 4 /\ 3 \in 1 .. 4 /\ 4 \in 1 .. 4
    OBVIOUS
  <2>5. p[q] = z[l + 1] /\ p[q + 1] = z[l + 2] /\ p[q + 2] = z[l + 3] /\ p[q + 3] = z[l + 4]
    BY <2>2, <2>3, <2>4
  <2> QED BY <1>5, <2>5
<1>11. ASSUME NEW x \in q + 4 .. v - 1 PROVE p[x] \in Blank
  <2>1. PICK y : y = x - (q + 3)
    OBVIOUS
  <2>2. y \in 1 .. b /\ l + 4 + y \in 1 .. Len(z) /\ x = g + 1 + (l + 4 + y)
    BY <1>5, <1>6, <1>7, <2>1
  <2>3. p[x] = z[l + 4 + y]
    BY <1>6, <2>2
  <2>4. z[l + 4 + y] = blank[y] /\ blank[y] \in Blank
    BY <1>1, <1>2, <1>5, <2>2
  <2> QED BY <2>3, <2>4
<1>12. Placed(p, v, w)
  <2>1. v + Len(w) - 1 <= Len(p)
    BY <1>5, <1>6, <1>8
  <2>2. ASSUME NEW x \in 1 .. Len(w) PROVE p[v + x - 1] = w[x]
    <3>1. l + 4 + b + x \in 1 .. Len(z) /\ v + x - 1 = g + 1 + (l + 4 + b + x)
      BY <1>5, <1>6, <1>7
    <3>2. p[v + x - 1] = z[l + 4 + b + x]
      BY <1>6, <3>1
    <3> QED BY <1>5, <3>2
  <2> QED BY <2>1, <2>2 DEF Placed
<1>13. Sits(p, h, q, key, v, w)
  BY <1>8, <1>9, <1>10, <1>11, <1>12, Zenon DEF Sits
<1>14. TailAt(P, i) = v + Len(w)
  BY <1>6, <1>8 DEF TailAt
<1> QED BY <1>2, <1>7, <1>8, <1>13, <1>14

\* Behind a member stands a comma, or the end.
LEMMA MemberEnds ==
    ASSUME NEW S, NEW ms, WellTold(S, ms), NEW blank \in Seq(S),
           NEW P, P = Pieces(ms, blank), NEW p, p = Wrapped(P), NEW i \in 1 .. Len(ms)
    PROVE  /\ TailAt(P, i) \in 1 .. Len(p)
           /\ p[TailAt(P, i)] = IF i < Len(ms) THEN Comma ELSE Ending
           /\ i < Len(ms) => HeadAt(P, i + 1) = TailAt(P, i) + 1
<1>1. Len(ms) \in Nat /\ Quote \in S /\ AColon \in S /\ Opening \in S /\ Ending \in S /\ Comma \in S
  BY DEF WellTold
<1>2. P \in Seq(Seq(S)) /\ Len(P) = Len(ms)
  BY PiecesAre DEF ArePieces
<1>3. PICK s, a : s = FlattenSeq(P) /\ a = Starts(P)[i]
  OBVIOUS
<1>4. p \in Seq(S) /\ Len(p) = Len(s) + 2 /\ Len(s) \in Nat /\ p[Len(s) + 2] = Ending
  BY <1>1, <1>2, <1>3, WrappedIs
<1>5. CASE i < Len(ms)
  <2>1. i \in 0 .. Len(P) - 1 /\ i + 1 \in 1 .. Len(ms) /\ i + 1 # 1
    BY <1>1, <1>2, <1>5
  <2>2. PICK z : z = P[i + 1]
    OBVIOUS
  <2>3. /\ a \in Nat /\ Len(z) \in Nat /\ a + Len(z) + 2 <= Len(p)
        /\ \A x \in 1 .. Len(z) : p[a + 1 + x] = z[x]
    <3>1. StandsFrom(p, z, a, Starts(P)[i + 1])
      BY <1>1, <1>2, <1>3, <2>1, <2>2, PieceStands
    <3> QED BY <3>1, Zenon DEF StandsFrom
  <2>4. z[1] = Comma /\ Len(z) >= 1
    <3>1. PICK lead, m : lead = Lead(i + 1, blank) /\ m = ms[i + 1]
      OBVIOUS
    <3>2. z = MemberPiece(lead, m.key, blank, m.written) /\ lead \in Seq(S)
      BY <2>1, <2>2, <3>1, PiecesAre DEF ArePieces
    <3>3. m.key \in S /\ m.written \in Seq(S)
      BY <2>1, <3>1 DEF WellTold
    <3>4. Len(lead) \in Nat /\ Len(z) = Len(lead) + 4 + Len(blank) + Len(m.written) /\ Len(blank) \in Nat /\ Len(m.written) \in Nat
          /\ \A x \in 1 .. Len(lead) : z[x] = lead[x]
      <4>1. IsPiece(S, z, lead, m.key, blank, m.written, Len(lead), Len(blank))
        BY <1>1, <3>2, <3>3, MemberPieceIs
      <4> QED BY <4>1, Zenon DEF IsPiece
    <3>5. lead = <<Comma>> \o blank
      BY <2>1, <3>1 DEF Lead
    <3>6. Len(lead) >= 1 /\ lead[1] = Comma
      BY <1>1, <3>5
    <3>7. 1 \in 1 .. Len(lead) /\ Len(z) >= 1
      <4>1. /\ Len(lead) \in Nat /\ Len(z) = Len(lead) + 4 + Len(blank) + Len(m.written)
            /\ Len(blank) \in Nat /\ Len(m.written) \in Nat /\ Len(lead) >= 1
        BY <3>4, <3>6
      <4>2. PICK x1, x2, x3, x4 : x1 = Len(lead) /\ x2 = Len(blank) /\ x3 = Len(m.written) /\ x4 = Len(z)
        OBVIOUS
      <4>3. x1 \in Nat /\ x4 = x1 + 4 + x2 + x3 /\ x2 \in Nat /\ x3 \in Nat /\ x1 >= 1
        BY <4>1, <4>2
      <4>4. 1 \in 1 .. x1 /\ x4 >= 1
        BY <4>3
      <4> QED BY <4>2, <4>4
    <3> QED BY <3>4, <3>6, <3>7
  <2>5. 1 \in 1 .. Len(z) /\ a + 1 + 1 = 2 + a /\ 2 + a \in 1 .. Len(p)
    BY <1>4, <2>3, <2>4
  <2>6. p[2 + a] = Comma
    BY <2>3, <2>4, <2>5
  <2>7. HeadAt(P, i + 1) = 3 + a
    <3>1. i + 1 - 1 = i
      OBVIOUS
    <3> QED BY <1>3, <2>1, <3>1 DEF HeadAt
  <2>8. 3 + a = (2 + a) + 1
    BY <2>3
  <2> QED BY <1>3, <1>5, <2>5, <2>6, <2>7, <2>8 DEF TailAt
<1>6. CASE ~(i < Len(ms))
  <2>1. i = Len(P)
    BY <1>1, <1>2, <1>6
  <2>2. a = Len(s)
    BY <1>2, <1>3, <2>1, StartsEnds
  <2>3. 2 + a \in 1 .. Len(p) /\ 2 + a = Len(s) + 2
    BY <1>4, <2>2
  <2> QED BY <1>3, <1>4, <1>6, <2>3 DEF TailAt
<1> QED BY <1>5, <1>6

\* What is found in a payload are its members, in their order.
LEMMA PayloadTold ==
    ASSUME NEW S, Blank \subseteq S, NEW R, NEW ms \in Seq(R), WellTold(S, ms), NEW pretty
    PROVE  Payload(ms, pretty) \in Seq(S) /\ Entries(Payload(ms, pretty)) = Told(ms)
<1>1. PICK blank, P, p : blank = Blanks(pretty) /\ P = Pieces(ms, blank) /\ p = Wrapped(P)
  OBVIOUS
<1>2. blank \in Seq(Blank)
  <2>1. PICK s : s = " "
    OBVIOUS
  <2>2. s \in Blank
    BY <2>1, Zenon DEF Blank
  <2>3. <<s>> \in Seq(Blank) /\ <<>> \in Seq(Blank)
    BY <2>2
  <2>4. Blanks(pretty) = IF pretty THEN <<s>> ELSE <<>>
    BY <2>1, Zenon DEF Blanks
  <2> QED BY <1>1, <2>3, <2>4
<1>3. Payload(ms, pretty) = p
  BY <1>1, PayloadIs, Zenon
<1>4. blank \in Seq(S) /\ Opening \in S /\ Ending \in S
  BY <1>2 DEF WellTold
<1>5. P \in Seq(Seq(S)) /\ Len(P) = Len(ms) /\ Len(ms) \in Nat
  <2>1. ArePieces(S, P, ms, blank)
    BY <1>1, <1>4, PiecesAre
  <2> QED BY <2>1 DEF ArePieces
<1>6. PICK s : s = FlattenSeq(P)
  OBVIOUS
<1>7. p \in Seq(S) /\ Len(p) = Len(s) + 2 /\ Len(s) \in Nat /\ p[1] = Opening /\ p[Len(s) + 2] = Ending
  BY <1>1, <1>4, <1>5, <1>6, WrappedIs
<1>8. CASE Len(ms) = 0
  <2>1. P = <<>> /\ ms = <<>>
    BY <1>5, <1>8
  <2>2. Len(s) = 0
    BY <1>6, <2>1, FlattenNone
  <2>3. Len(p) = 2 /\ p[2] = Ending
    BY <1>7, <2>2
  <2>4. skip_ws(p, 1) = 1
    <3>1. p[1] \notin Blank /\ 1 \in Nat \ {0} /\ 1 \in Nat /\ 1 <= Len(p) /\ 1 <= 1 /\ \A x \in 1 .. 1 - 1 : p[x] \in Blank
      BY <1>7, <2>3, EndersIs
    <3> QED BY <1>7, <3>1, SkipTo
  <2>5. skip_ws(p, 2) = 2
    <3>1. p[2] \notin Blank
      BY <2>3, EndersIs
    <3>2. 2 \in Nat \ {0} /\ 2 \in Nat /\ 2 <= Len(p) /\ 2 <= 2 /\ \A x \in 2 .. 2 - 1 : p[x] \in Blank
      BY <2>3
    <3> QED BY <1>7, <3>1, <3>2, SkipTo
  <2>6. ~Has(p, 2)
    <3>1. Ending # Quote
      BY EndersIs
    <3>2. ~At(p, 2, Quote)
      BY <2>3, <3>1 DEF At
    <3>3. scan_string(p, 2) = Nowhere
      BY <3>2, ScanString, Zenon
    <3> QED BY <2>5, <3>3, Zenon DEF Has, KeyEnd, KeyAt
  <2>7. Entries(p) = Heads(p)[1 + 1]
    <3>1. At(p, 1, Opening)
      BY <1>7, <2>3 DEF At
    <3> QED BY <2>4, <3>1, EntriesIs, Zenon DEF Opening
  <2>8. Heads(p)[2] = Reads(p, Heads(p), 2)
    <3>1. 2 \in 1 .. Len(p) + 1
      BY <2>3
    <3> QED BY <1>7, <3>1, HeadsIs
  <2>9. Reads(p, Heads(p), 2) = <<>>
    BY <2>6, Zenon DEF Reads
  <2>10. Told(ms) = <<>>
    BY <2>1 DEF Told
  <2>11. 1 + 1 = 2
    OBVIOUS
  <2> QED BY <1>3, <1>7, <2>7, <2>8, <2>9, <2>10, <2>11
<1>9. CASE Len(ms) # 0
  <2>1. PICK h, e : h = [ i \in 1 .. Len(ms) |-> HeadAt(P, i) ] /\ e = [ i \in 1 .. Len(ms) |-> TailAt(P, i) ]
    OBVIOUS
  <2>2. ASSUME NEW i \in 1 .. Len(ms)
        PROVE  /\ h[i] \in 1 .. Len(p) /\ e[i] \in 1 .. Len(p) /\ p[e[i]] \in Enders /\ (p[e[i]] = Comma <=> i < Len(ms))
               /\ i < Len(ms) => h[i + 1] = e[i] + 1
               /\ Found(p, h[i], ms[i].key, ms[i].written, e[i])
    <3>1. PICK q, v : /\ Sits(p, HeadAt(P, i), q, ms[i].key, v, ms[i].written)
                      /\ TailAt(P, i) = v + Len(ms[i].written) /\ TailAt(P, i) <= Len(p)
      BY <1>1, <1>2, MemberSits
    <3>2. /\ TailAt(P, i) \in 1 .. Len(p)
          /\ p[TailAt(P, i)] = IF i < Len(ms) THEN Comma ELSE Ending
          /\ i < Len(ms) => HeadAt(P, i + 1) = TailAt(P, i) + 1
      BY <1>1, <1>4, MemberEnds
    <3>3. h[i] = HeadAt(P, i) /\ e[i] = TailAt(P, i)
      BY <2>1
    <3>4. p[e[i]] \in Enders /\ (p[e[i]] = Comma <=> i < Len(ms))
      BY <3>2, <3>3, EndersIs
    <3>5. ms[i].key \notin {Quote, Bs} /\ ms[i].written \in Seq(S) /\ Scans(ms[i].written)
      BY DEF WellTold
    <3>6. PICK key, w, y, x : key = ms[i].key /\ w = ms[i].written /\ y = h[i] /\ x = e[i]
      OBVIOUS
    <3>7. Found(p, y, key, w, x)
      <4>1. key \notin {Quote, Bs} /\ w \in Seq(S) /\ Scans(w)
        BY <3>5, <3>6
      <4>2. Sits(p, y, q, key, v, w) /\ x = v + Len(w) /\ x \in 1 .. Len(p) /\ p[x] \in Enders
        BY <3>1, <3>2, <3>3, <3>4, <3>6
      <4> QED BY <1>7, <4>1, <4>2, MemberFound
    <3>8. h[i] \in 1 .. Len(p)
      <4>1. y \in Nat \ {0} /\ q \in Nat /\ y <= q /\ v \in Nat /\ q + 4 <= v
        BY <3>1, <3>3, <3>6 DEF Sits
      <4>2. w # <<>> /\ w \in Seq(S) /\ x = v + Len(w) /\ x <= Len(p)
        BY <3>1, <3>3, <3>5, <3>6 DEF Scans
      <4>3. Len(w) \in Nat /\ Len(p) \in Nat
        BY <1>7, <4>2
      <4>4. y \in 1 .. Len(p)
        BY <4>1, <4>2, <4>3
      <4> QED BY <3>6, <4>4
    <3>9. i < Len(ms) => h[i + 1] = e[i] + 1
      <4>1. i < Len(ms) => i + 1 \in 1 .. Len(ms)
        BY <1>5
      <4>2. i < Len(ms) => h[i + 1] = HeadAt(P, i + 1)
        BY <2>1, <4>1
      <4> QED BY <3>2, <3>3, <4>2
    <3>10. Found(p, h[i], ms[i].key, ms[i].written, e[i])
      BY <3>6, <3>7
    <3>11. e[i] \in 1 .. Len(p)
      BY <3>2, <3>3
    <3> QED BY <3>4, <3>8, <3>9, <3>10, <3>11
  <2>3. h[1] = 2
    <3>1. 1 \in 1 .. Len(ms)
      BY <1>5, <1>9
    <3> QED BY <2>1, <3>1 DEF HeadAt
  <2>4. Len(p) >= 1 /\ Len(ms) >= 1
    BY <1>5, <1>7, <1>9
  <2>5. Laid(p, ms, h, e)
    BY <1>7, <2>2, <2>3, <2>4, Zenon DEF Laid
  <2>6. Entries(p) = Told(ms)
    BY <1>7, <2>5, EntriesLaid
  <2> QED BY <1>3, <1>7, <2>6
<1> QED BY <1>8, <1>9

-----------------------------------------------------------------------------
(* Values that are written.                                                *)

\* What stands for a character in a string: as the device writes it, and as
\* the server does.
DeviceSpells(c) ==
    CASE c \in {Quote, Bs} -> <<Bs, c>>
      [] c = "nl" -> <<Bs, "n">>
      [] c = "cr" -> <<Bs, "r">>
      [] c = "tab" -> <<Bs, "t">>
      [] c = "ctl" -> <<Bs, "u", "0", "0", "0", "1">>
      [] OTHER -> <<c>>
ServerSpells(c, ascii) ==
    CASE c \in {Quote, Bs} -> <<Bs, c>>
      [] c = "nl" -> <<Bs, "n">>
      [] c = "ctl" -> <<Bs, "u", "0", "0", "0", "1">>
      [] c = "L" /\ ascii -> <<Bs, "u", "0", "0", "e", "9">>
      [] c = "C" /\ ascii -> <<>>
      [] OTHER -> <<c>>
DevicePieces(s) == [ i \in 1 .. Len(s) |-> DeviceSpells(s[i]) ]
ServerPieces(s, ascii) == [ i \in 1 .. Len(s) |-> ServerSpells(s[i], ascii) ]

\* See DevicePieces.
LEMMA DeviceString == \A s : append_json_string(s) = Quoted(DevicePieces(s))
BY Zenon DEF append_json_string, Quoted, DevicePieces, DeviceSpells

\* See ServerPieces.
LEMMA ServerString == \A s, ascii : Literal(s, ascii) = Quoted(ServerPieces(s, ascii))
BY Zenon DEF Literal, Quoted, ServerPieces, ServerSpells

\* The escapes of one letter that are written.
LEMMA EscapesOne ==
    /\ Escaped("n") = <<"nl">> /\ Escaped("r") = <<"cr">> /\ Escaped("t") = <<"tab">>
    /\ Escaped(Quote) = <<Quote>> /\ Escaped(Bs) = <<Bs>> /\ Quote # "u" /\ Bs # "u"
    /\ {"nl", "cr", "tab", "ctl", Quote, Bs} \subseteq Signs
<1>1. Escaped("n") = <<"nl">> /\ Escaped("r") = <<"cr">> /\ Escaped("t") = <<"tab">>
  BY DEF Escaped, Quote, Bs
<1>2. Escaped(Quote) = <<Quote>> /\ Escaped(Bs) = <<Bs>> /\ Quote # "u" /\ Bs # "u"
  BY DEF Escaped, Quote, Bs
<1>3. {"nl", "cr", "tab", "ctl", Quote, Bs} \subseteq Signs
  BY DEF Signs
<1> QED BY <1>1, <1>2, <1>3

\* The symbols that are written besides the characters.
Marks == {Quote, Bs, "n", "r", "t", "u", "0", "1", "e", "9"}

\* What the device writes for a character spells it.
LEMMA DeviceSpell ==
    ASSUME NEW C, Marks \subseteq C, NEW c \in C
    PROVE  Spell(DeviceSpells(c), c, FALSE) /\ DeviceSpells(c) \in Seq(C)
<1>0. \A m \in Marks : m \in C
  OBVIOUS
<1>1. CASE c \in {Quote, Bs}
  <2>1. DeviceSpells(c) = <<Bs, c>>
    BY <1>1 DEF DeviceSpells, Quote, Bs
  <2>2. c \in Signs /\ c # "u" /\ Escaped(c) = <<c>> /\ Bs \in C
    BY <1>0, <1>1, EscapesOne DEF Marks
  <2> QED BY <2>1, <2>2 DEF Spell
<1>2. CASE c = "nl"
  <2>1. DeviceSpells(c) = <<Bs, "n">>
    BY <1>2 DEF DeviceSpells, Quote, Bs
  <2>2. c \in Signs /\ "n" # "u" /\ Escaped("n") = <<c>> /\ Bs \in C /\ "n" \in C
    BY <1>0, <1>2, EscapesOne DEF Marks
  <2> QED BY <2>1, <2>2 DEF Spell
<1>3. CASE c = "cr"
  <2>1. DeviceSpells(c) = <<Bs, "r">>
    BY <1>3 DEF DeviceSpells, Quote, Bs
  <2>2. c \in Signs /\ "r" # "u" /\ Escaped("r") = <<c>> /\ Bs \in C /\ "r" \in C
    BY <1>0, <1>3, EscapesOne DEF Marks
  <2> QED BY <2>1, <2>2 DEF Spell
<1>4. CASE c = "tab"
  <2>1. DeviceSpells(c) = <<Bs, "t">>
    BY <1>4 DEF DeviceSpells, Quote, Bs
  <2>2. c \in Signs /\ "t" # "u" /\ Escaped("t") = <<c>> /\ Bs \in C /\ "t" \in C
    BY <1>0, <1>4, EscapesOne DEF Marks
  <2> QED BY <2>1, <2>2 DEF Spell
<1>5. CASE c = "ctl"
  <2>1. DeviceSpells(c) = <<Bs, "u", "0", "0", "0", "1">>
    BY <1>5 DEF DeviceSpells, Quote, Bs
  <2>2. Bs \in C /\ "u" \in C /\ "0" \in C /\ "1" \in C
    BY <1>0 DEF Marks
  <2>3. Spell(DeviceSpells(c), c, FALSE)
    BY <1>5, <2>1, Zenon DEF Spell
  <2>4. DeviceSpells(c) \in Seq(C)
    BY <2>1, <2>2
  <2> QED BY <2>3, <2>4
<1>6. CASE c \notin {Quote, Bs, "nl", "cr", "tab", "ctl"}
  <2>1. DeviceSpells(c) = <<c>>
    BY <1>6 DEF DeviceSpells
  <2> QED BY <1>6, <2>1 DEF Spell
<1> QED BY <1>1, <1>2, <1>3, <1>4, <1>5, <1>6

\* And what the server writes.
LEMMA ServerSpell ==
    ASSUME NEW C, Marks \subseteq C, NEW c \in C, NEW ascii \in BOOLEAN
    PROVE  Spell(ServerSpells(c, ascii), c, ascii) /\ ServerSpells(c, ascii) \in Seq(C)
<1>0. \A m \in Marks : m \in C
  OBVIOUS
<1>1. CASE c \in {Quote, Bs}
  <2>1. ServerSpells(c, ascii) = <<Bs, c>>
    BY <1>1 DEF ServerSpells, Quote, Bs
  <2>2. c \in Signs /\ c # "u" /\ Escaped(c) = <<c>> /\ Bs \in C
    BY <1>0, <1>1, EscapesOne DEF Marks
  <2> QED BY <2>1, <2>2 DEF Spell
<1>2. CASE c = "nl"
  <2>1. ServerSpells(c, ascii) = <<Bs, "n">>
    BY <1>2 DEF ServerSpells, Quote, Bs
  <2>2. c \in Signs /\ "n" # "u" /\ Escaped("n") = <<c>> /\ Bs \in C /\ "n" \in C
    BY <1>0, <1>2, EscapesOne DEF Marks
  <2> QED BY <2>1, <2>2 DEF Spell
<1>3. CASE c = "ctl"
  <2>1. ServerSpells(c, ascii) = <<Bs, "u", "0", "0", "0", "1">>
    BY <1>3 DEF ServerSpells, Quote, Bs
  <2>2. Bs \in C /\ "u" \in C /\ "0" \in C /\ "1" \in C
    BY <1>0 DEF Marks
  <2>3. Spell(ServerSpells(c, ascii), c, ascii)
    BY <1>3, <2>1, Zenon DEF Spell
  <2>4. ServerSpells(c, ascii) \in Seq(C)
    BY <2>1, <2>2
  <2> QED BY <2>3, <2>4
<1>4. CASE c = "L" /\ ascii
  <2>1. ServerSpells(c, ascii) = <<Bs, "u", "0", "0", "e", "9">>
    BY <1>4 DEF ServerSpells, Quote, Bs
  <2>2. Bs \in C /\ "u" \in C /\ "0" \in C /\ "e" \in C /\ "9" \in C
    BY <1>0 DEF Marks
  <2>3. Spell(ServerSpells(c, ascii), c, ascii)
    BY <1>4, <2>1, Zenon DEF Spell
  <2>4. ServerSpells(c, ascii) \in Seq(C)
    BY <2>1, <2>2
  <2> QED BY <2>3, <2>4
<1>5. CASE c = "C" /\ ascii
  <2>1. ServerSpells(c, ascii) = <<>>
    BY <1>5 DEF ServerSpells, Quote, Bs
  <2>3. Spell(ServerSpells(c, ascii), c, ascii)
    BY <1>5, <2>1, Zenon DEF Spell
  <2>4. ServerSpells(c, ascii) \in Seq(C)
    BY <2>1
  <2> QED BY <2>3, <2>4
<1>6. CASE c \notin {Quote, Bs, "nl", "ctl"} /\ (ascii => c \notin {"L", "C"})
  <2>1. ServerSpells(c, ascii) = <<c>>
    BY <1>6 DEF ServerSpells
  <2> QED BY <1>6, <2>1 DEF Spell
<1> QED BY <1>1, <1>2, <1>3, <1>4, <1>5, <1>6

\* A string that is written means what was to be written, and is scanned as
\* what it is.
IsWritten(w, chars, S) ==
    \E P, ascii : /\ P \in Seq(Seq(S)) /\ ascii \in BOOLEAN /\ Spells(P, chars, ascii) /\ w = Quoted(P)
LEMMA DeviceWrites ==
    ASSUME NEW C, Marks \subseteq C, NEW s \in Seq(C)
    PROVE  IsWritten(append_json_string(s), s, C)
<1>1. PICK P : P = DevicePieces(s)
  OBVIOUS
<1>2. P = [ i \in 1 .. Len(s) |-> DeviceSpells(s[i]) ] /\ Len(s) \in Nat
  BY <1>1 DEF DevicePieces
<1>3. ASSUME NEW i \in 1 .. Len(s) PROVE Spell(DeviceSpells(s[i]), s[i], FALSE) /\ DeviceSpells(s[i]) \in Seq(C)
  <2>1. s[i] \in C
    OBVIOUS
  <2> QED BY <2>1, DeviceSpell
<1>4. P \in [ 1 .. Len(s) -> Seq(C) ]
  BY <1>2, <1>3
<1>5. P \in Seq(Seq(C)) /\ Len(P) = Len(s)
  BY <1>2, <1>4
<1>6. Spells(P, s, FALSE)
  BY <1>2, <1>3, <1>5 DEF Spells
<1>7. append_json_string(s) = Quoted(P)
  BY <1>1, DeviceString, Zenon
<1> QED BY <1>5, <1>6, <1>7 DEF IsWritten

\* See DeviceWrites.
LEMMA ServerWrites ==
    ASSUME NEW C, Marks \subseteq C, NEW s \in Seq(C), NEW ascii \in BOOLEAN
    PROVE  IsWritten(Literal(s, ascii), s, C)
<1>1. PICK P : P = ServerPieces(s, ascii)
  OBVIOUS
<1>2. P = [ i \in 1 .. Len(s) |-> ServerSpells(s[i], ascii) ] /\ Len(s) \in Nat
  BY <1>1 DEF ServerPieces
<1>3. ASSUME NEW i \in 1 .. Len(s) PROVE Spell(ServerSpells(s[i], ascii), s[i], ascii) /\ ServerSpells(s[i], ascii) \in Seq(C)
  <2>1. s[i] \in C
    OBVIOUS
  <2> QED BY <2>1, ServerSpell
<1>4. P \in [ 1 .. Len(s) -> Seq(C) ]
  BY <1>2, <1>3
<1>5. P \in Seq(Seq(C)) /\ Len(P) = Len(s)
  BY <1>2, <1>4
<1>6. Spells(P, s, ascii)
  BY <1>2, <1>3, <1>5 DEF Spells
<1>7. Literal(s, ascii) = Quoted(P)
  BY <1>1, ServerString, Zenon
<1> QED BY <1>5, <1>6, <1>7 DEF IsWritten

\* A string is scanned as what it is.
LEMMA StringScans ==
    ASSUME NEW C, Quote \in C, NEW w, NEW chars, IsWritten(w, chars, C)
    PROVE  Scans(w) /\ w \in Seq(C)
<1>1. PICK P, ascii : P \in Seq(Seq(C)) /\ ascii \in BOOLEAN /\ Spells(P, chars, ascii) /\ w = Quoted(P)
  BY DEF IsWritten
<1>2. w \in Seq(C) /\ w # <<>> /\ w[1] = Quote
  <2>1. /\ Quoted(P) \in Seq(C) /\ Len(Quoted(P)) = Len(FlattenSeq(P)) + 2 /\ Quoted(P)[1] = Quote
        /\ Len(FlattenSeq(P)) \in Nat
    BY <1>1, QuotedIs
  <2>2. PICK n : n = Len(FlattenSeq(P))
    OBVIOUS
  <2>3. Len(w) = n + 2 /\ n \in Nat /\ w \in Seq(C) /\ w[1] = Quote
    BY <1>1, <2>1, <2>2
  <2> QED BY <2>3
<1>3. w[1] \notin Blank
  BY <1>2, EndersIs
<1>4. ASSUME NEW S, NEW p \in Seq(S), NEW v \in 1 .. Len(p), Placed(p, v, w), v + Len(w) \in 1 .. Len(p)
      PROVE  scan_value(p, v) = v + Len(w)
  <2>1. v \in Nat \ {0} /\ v + 1 - 1 = v
    OBVIOUS
  <2>2. p[v] = Quote
    <3>1. 1 \in 1 .. Len(w)
      BY <1>2
    <3>2. p[v + 1 - 1] = w[1]
      BY <1>4, <3>1 DEF Placed
    <3> QED BY <1>2, <2>1, <3>2
  <2>3. scan_string(p, v) = v + Len(w)
    <3>1. Placed(p, v, Quoted(P))
      BY <1>1, <1>4
    <3>2. scan_string(p, v) = v + Len(Quoted(P))
      BY <1>1, <2>1, <3>1, QuotedScanned
    <3> QED BY <1>1, <3>2
  <2> QED BY <2>2, <2>3, ScanValue, Zenon
<1>5. \A S : \A p \in Seq(S) : \A v \in 1 .. Len(p) :
          Placed(p, v, w) /\ v + Len(w) \in 1 .. Len(p) /\ p[v + Len(w)] \in Enders => scan_value(p, v) = v + Len(w)
  BY <1>4
<1>6. Scans(w)
  BY <1>2, <1>3, <1>5, Zenon DEF Scans
<1> QED BY <1>2, <1>6

\* What a number is made of.
LEMMA NumberSymbols ==
    /\ \A x \in InNumber : x # Quote /\ x \notin Opens /\ x \notin Words /\ x \notin Blank
    /\ \A x \in Enders : x \notin InNumber
    /\ \A x \in Tens : x \in InNumber
    /\ "-" \in InNumber
<1>1. InNumber = Tens \union {"-", "+", ".", "e", "E"}
  BY TensIs, Zenon DEF InNumber
<1>2. \A x \in InNumber : x # Quote /\ x \notin Opens /\ x \notin Words /\ x \notin Blank
  BY <1>1, Zenon DEF Tens, Quote, Opens, Words, Blank
<1>3. \A x \in Enders : x \notin InNumber
  BY <1>1, Zenon DEF Tens, Enders, Comma, Ending
<1>4. \A x \in Tens : x \in InNumber
  BY <1>1, Zenon
<1>5. "-" \in InNumber
  BY <1>1, Zenon
<1> QED BY <1>2, <1>3, <1>4, <1>5

\* A number is scanned as what it is.
LEMMA NumberScans ==
    ASSUME NEW w \in Seq(InNumber), w # <<>>
    PROVE  Scans(w)
<1>1. w[1] \in InNumber /\ Len(w) \in Nat /\ Len(w) >= 1
  OBVIOUS
<1>2. w[1] \notin Blank
  BY <1>1, NumberSymbols
<1>3. ASSUME NEW S, NEW p \in Seq(S), NEW v \in 1 .. Len(p), Placed(p, v, w), v + Len(w) \in 1 .. Len(p),
             p[v + Len(w)] \in Enders
      PROVE  scan_value(p, v) = v + Len(w)
  <2>1. PICK y : y = v + Len(w)
    OBVIOUS
  <2>2. v \in 1 .. Len(p) + 1 /\ y \in v .. Len(p) + 1 /\ y > v /\ v + 1 - 1 = v /\ Len(p) \in Nat
    BY <1>1, <1>3, <2>1
  <2>3. ASSUME NEW k \in v .. y - 1 PROVE p[k] \in InNumber
    <3>1. PICK x : x = k - v + 1
      OBVIOUS
    <3>2. x \in 1 .. Len(w) /\ v + x - 1 = k
      BY <1>1, <2>1, <3>1
    <3>3. p[v + x - 1] = w[x]
      BY <1>3, <3>2 DEF Placed
    <3>4. w[x] \in InNumber
      BY <3>2
    <3> QED BY <3>2, <3>3, <3>4
  <2>4. p[y] \notin InNumber
    BY <1>3, <2>1, NumberSymbols
  <2>5. Past(p, v, InNumber) = y
    BY <2>2, <2>3, <2>4, PastTo
  <2>6. p[v] \in InNumber
    <3>1. v \in v .. y - 1
      BY <2>2
    <3> QED BY <2>3, <3>1
  <2>7. p[v] # Quote /\ p[v] \notin Opens /\ p[v] \notin Words
    BY <2>6, NumberSymbols
  <2>8. scan_value(p, v) = IF Past(p, v, InNumber) > v THEN Past(p, v, InNumber) ELSE Nowhere
    BY <2>7, ScanValue, Zenon
  <2> QED BY <2>1, <2>2, <2>5, <2>8
<1>4. \A S : \A p \in Seq(S) : \A v \in 1 .. Len(p) :
          Placed(p, v, w) /\ v + Len(w) \in 1 .. Len(p) /\ p[v + Len(w)] \in Enders => scan_value(p, v) = v + Len(w)
  BY <1>3
<1> QED BY <1>2, <1>4, Zenon DEF Scans

\* A word is scanned as what it is.
LEMMA WordScans ==
    ASSUME NEW b \in Words
    PROVE  Scans(<<b>>)
<1>1. PICK w : w = <<b>>
  OBVIOUS
<1>2. w # <<>> /\ w[1] = b /\ Len(w) = 1
  BY <1>1
<1>3. b \notin Blank /\ b # Quote /\ b \notin Opens
  BY Zenon DEF Blank, Words, Quote, Opens
<1>4. ASSUME NEW S, NEW p \in Seq(S), NEW v \in 1 .. Len(p), Placed(p, v, w)
      PROVE  scan_value(p, v) = v + Len(w)
  <2>1. p[v] = b
    <3>1. 1 \in 1 .. Len(w) /\ v + 1 - 1 = v
      BY <1>2
    <3>2. p[v + 1 - 1] = w[1]
      BY <1>4, <3>1 DEF Placed
    <3> QED BY <1>2, <3>1, <3>2
  <2>2. scan_value(p, v) = v + 1
    BY <1>3, <2>1, ScanValue, Zenon
  <2> QED BY <1>2, <2>2
<1>5. \A S : \A p \in Seq(S) : \A v \in 1 .. Len(p) :
          Placed(p, v, w) /\ v + Len(w) \in 1 .. Len(p) /\ p[v + Len(w)] \in Enders => scan_value(p, v) = v + Len(w)
  BY <1>4
<1>6. w[1] \notin Blank
  BY <1>2, <1>3
<1>7. Scans(w)
  BY <1>2, <1>5, <1>6, Zenon DEF Scans
<1> QED BY <1>1, <1>7

\* The value with quotes, brackets and keys of a message inside.
Bracketed(w, t, k, a, b) ==
    w = <<Opening, Quote, t, Quote, AColon, Quote, Ending, Bs, Quote, Quote, Comma,
          Quote, k, Quote, AColon, a, Opening, Ending, b, Ending>>
LEMMA NestedIs ==
    \E t, k, a, b : /\ Bracketed(Nested, t, k, a, b)
                    /\ t # Quote /\ t # Bs /\ k # Quote /\ k # Bs
                    /\ a \notin {Quote, Opening, Ending} /\ b \notin {Quote, Opening, Ending}
<1>1. PICK t, k, a, b : t = "type" /\ k = "text" /\ a = "[" /\ b = "]"
  BY Zenon
<1>2. Bracketed(Nested, t, k, a, b)
  BY <1>1, Zenon DEF Bracketed, Nested, Opening, Ending, AColon, Comma
<1>3. t # Quote /\ t # Bs /\ k # Quote /\ k # Bs
  BY <1>1, Zenon DEF Quote, Bs
<1>4. a \notin {Quote, Opening, Ending} /\ b \notin {Quote, Opening, Ending}
  BY <1>1, Zenon DEF Quote, Opening, Ending
<1> QED BY <1>2, <1>3, <1>4, Zenon

\* What opens, what closes and what separates.
LEMMA BracketsAre ==
    /\ Opening \in Opens /\ Closing(Opening) = Ending /\ Opening # Ending /\ Opening # Quote /\ Ending # Quote
    /\ Opening # Bs /\ Ending # Bs /\ Quote # Bs
    /\ AColon \notin {Quote, Opening, Ending, Bs} /\ Comma \notin {Quote, Opening, Ending, Bs}
<1>1. Opening \in Opens /\ Closing(Opening) = Ending
  BY Zenon DEF Opens, Opening, Ending, Closing
<1>2. Opening # Ending /\ Opening # Quote /\ Ending # Quote /\ Opening # Bs /\ Ending # Bs /\ Quote # Bs
  BY Zenon DEF Opening, Ending, Quote, Bs
<1>3. AColon \notin {Quote, Opening, Ending, Bs} /\ Comma \notin {Quote, Opening, Ending, Bs}
  BY Zenon DEF Opening, Ending, Quote, Bs, AColon, Comma
<1> QED BY <1>1, <1>2, <1>3

\* It is scanned as what it is.
LEMMA NestedScans == Scans(Nested)
<1>1. PICK w, t, k, a, b : /\ w = Nested /\ Bracketed(w, t, k, a, b)
                           /\ t # Quote /\ t # Bs /\ k # Quote /\ k # Bs
                           /\ a \notin {Quote, Opening, Ending} /\ b \notin {Quote, Opening, Ending}
  BY NestedIs
<1>2. /\ Len(w) = 20 /\ w # <<>>
      /\ w[1] = Opening /\ w[2] = Quote /\ w[3] = t /\ w[4] = Quote /\ w[5] = AColon
      /\ w[6] = Quote /\ w[7] = Ending /\ w[8] = Bs /\ w[9] = Quote /\ w[10] = Quote
      /\ w[11] = Comma /\ w[12] = Quote /\ w[13] = k /\ w[14] = Quote /\ w[15] = AColon
      /\ w[16] = a /\ w[17] = Opening /\ w[18] = Ending /\ w[19] = b /\ w[20] = Ending
  BY <1>1 DEF Bracketed
<1>3. ASSUME NEW S, NEW p \in Seq(S), NEW v \in 1 .. Len(p), Placed(p, v, w), v + Len(w) \in 1 .. Len(p)
      PROVE  scan_value(p, v) = v + Len(w)
  <2>0. v \in Nat /\ v >= 1 /\ Len(p) \in Nat /\ v + 20 <= Len(p)
    BY <1>2, <1>3
  <2>1. \A i \in 1 .. 20 : p[v + i - 1] = w[i]
    <3>1. \A i \in 1 .. Len(w) : p[v + i - 1] = w[i]
      BY <1>3, Zenon DEF Placed
    <3>2. Len(w) = 20
      BY <1>2
    <3> QED BY <3>1, <3>2
  <2>2. /\ v + 1 - 1 = v /\ v + 2 - 1 = v + 1 /\ v + 3 - 1 = v + 2 /\ v + 4 - 1 = v + 3 /\ v + 5 - 1 = v + 4
        /\ v + 6 - 1 = v + 5 /\ v + 7 - 1 = v + 6 /\ v + 8 - 1 = v + 7 /\ v + 9 - 1 = v + 8 /\ v + 10 - 1 = v + 9
        /\ v + 11 - 1 = v + 10 /\ v + 12 - 1 = v + 11 /\ v + 13 - 1 = v + 12 /\ v + 14 - 1 = v + 13 /\ v + 15 - 1 = v + 14
        /\ v + 16 - 1 = v + 15 /\ v + 17 - 1 = v + 16 /\ v + 18 - 1 = v + 17 /\ v + 19 - 1 = v + 18 /\ v + 20 - 1 = v + 19
    BY <2>0
  <2>3. /\ p[v] = w[1] /\ p[v + 1] = w[2] /\ p[v + 2] = w[3] /\ p[v + 3] = w[4] /\ p[v + 4] = w[5]
        /\ p[v + 5] = w[6] /\ p[v + 6] = w[7] /\ p[v + 7] = w[8] /\ p[v + 8] = w[9] /\ p[v + 9] = w[10]
    BY <2>1, <2>2
  <2>4. /\ p[v + 10] = w[11] /\ p[v + 11] = w[12] /\ p[v + 12] = w[13] /\ p[v + 13] = w[14] /\ p[v + 14] = w[15]
        /\ p[v + 15] = w[16] /\ p[v + 16] = w[17] /\ p[v + 17] = w[18] /\ p[v + 18] = w[19] /\ p[v + 19] = w[20]
    BY <2>1, <2>2
  <2>5. \A i \in 0 .. 19 : v + i \in 1 .. Len(p)
    BY <2>0
  <2>6. /\ v \in 1 .. Len(p) /\ v + 1 \in 1 .. Len(p) /\ v + 2 \in 1 .. Len(p) /\ v + 3 \in 1 .. Len(p) /\ v + 4 \in 1 .. Len(p)
        /\ v + 5 \in 1 .. Len(p) /\ v + 6 \in 1 .. Len(p) /\ v + 7 \in 1 .. Len(p) /\ v + 9 \in 1 .. Len(p)
        /\ v + 10 \in 1 .. Len(p) /\ v + 11 \in 1 .. Len(p) /\ v + 12 \in 1 .. Len(p) /\ v + 13 \in 1 .. Len(p)
        /\ v + 14 \in 1 .. Len(p) /\ v + 15 \in 1 .. Len(p) /\ v + 16 \in 1 .. Len(p) /\ v + 17 \in 1 .. Len(p)
        /\ v + 18 \in 1 .. Len(p) /\ v + 19 \in 1 .. Len(p)
    BY <2>0
  <2>7. PICK E, N : E = Ends(p) /\ N = Nests(p, Opening, Ending)
    OBVIOUS
  <2>8. ASSUME NEW j \in 1 .. Len(p)
        PROVE  /\ p[j] = Bs => E[j] = E[j + 2]
               /\ p[j] = Quote => E[j] = j + 1
               /\ p[j] # Bs /\ p[j] # Quote => E[j] = E[j + 1]
    BY <2>7, BracketsAre, EndsIs
  <2>9. ASSUME NEW j \in 1 .. Len(p), p[j] = Quote PROVE scan_string(p, j) = E[j + 1]
    <3>1. At(p, j, Quote)
      BY <2>9 DEF At
    <3> QED BY <2>7, <3>1, ScanString, Zenon
  <2>10. ASSUME NEW j \in 1 .. Len(p), NEW d \in Int
         PROVE  /\ p[j] = Opening => N[<<j, d>>] = N[<<j + 1, d + 1>>]
                /\ p[j] = Ending /\ d = 1 => N[<<j, d>>] = j + 1
                /\ p[j] = Ending /\ d # 1 => N[<<j, d>>] = N[<<j + 1, d - 1>>]
                /\ p[j] \notin {Quote, Opening, Ending} => N[<<j, d>>] = N[<<j + 1, d>>]
                /\ p[j] = Quote /\ scan_string(p, j) # Nowhere => N[<<j, d>>] = N[<<scan_string(p, j), d>>]
    <3>1. Counts(p, Opening, Ending, N)
      BY <2>7, BracketsAre, NestsIs
    <3>2. j \in 1 .. Len(p) + 1 /\ ~(j > Len(p))
      BY <2>0
    <3>3. N[<<j, d>>] = IF p[j] = Quote
                        THEN (IF scan_string(p, j) = Nowhere THEN Nowhere ELSE N[<<scan_string(p, j), d>>])
                        ELSE IF p[j] = Opening THEN N[<<j + 1, d + 1>>]
                        ELSE IF p[j] = Ending THEN (IF d = 1 THEN j + 1 ELSE N[<<j + 1, d - 1>>])
                        ELSE N[<<j + 1, d>>]
      BY <3>1, <3>2, Zenon DEF Counts
    <3>4. Opening # Ending /\ Opening # Quote /\ Ending # Quote
      BY BracketsAre
    <3> QED BY <3>3, <3>4, Zenon
  <2>11. scan_string(p, v + 1) = v + 4
    <3>1. E[v + 2] = E[v + 2 + 1]
      BY <1>1, <1>2, <2>3, <2>6, <2>8
    <3>2. E[v + 3] = v + 3 + 1
      BY <1>2, <2>3, <2>6, <2>8, ZenonT(30)
    <3>3. scan_string(p, v + 1) = E[v + 1 + 1]
      BY <1>2, <2>3, <2>6, <2>9
    <3>4. v + 1 + 1 = v + 2 /\ v + 2 + 1 = v + 3 /\ v + 3 + 1 = v + 4
      BY <2>0
    <3> QED BY <3>1, <3>2, <3>3, <3>4
  <2>12. scan_string(p, v + 5) = v + 10
    <3>1. E[v + 6] = E[v + 6 + 1]
      BY <1>2, <2>3, <2>6, <2>8, BracketsAre, ZenonT(30)
    <3>2. E[v + 7] = E[v + 7 + 2]
      BY <1>2, <2>3, <2>6, <2>8
    <3>3. E[v + 9] = v + 9 + 1
      BY <1>2, <2>3, <2>6, <2>8, ZenonT(30)
    <3>4. scan_string(p, v + 5) = E[v + 5 + 1]
      BY <1>2, <2>3, <2>6, <2>9
    <3>5. v + 5 + 1 = v + 6 /\ v + 6 + 1 = v + 7 /\ v + 7 + 2 = v + 9 /\ v + 9 + 1 = v + 10
      BY <2>0
    <3> QED BY <3>1, <3>2, <3>3, <3>4, <3>5
  <2>13. scan_string(p, v + 11) = v + 14
    <3>1. E[v + 12] = E[v + 12 + 1]
      BY <1>1, <1>2, <2>4, <2>6, <2>8
    <3>2. E[v + 13] = v + 13 + 1
      BY <1>2, <2>4, <2>6, <2>8, ZenonT(30)
    <3>3. scan_string(p, v + 11) = E[v + 11 + 1]
      BY <1>2, <2>4, <2>6, <2>9
    <3>4. v + 11 + 1 = v + 12 /\ v + 12 + 1 = v + 13 /\ v + 13 + 1 = v + 14
      BY <2>0
    <3> QED BY <3>1, <3>2, <3>3, <3>4
  <2>14. v + 4 # Nowhere /\ v + 10 # Nowhere /\ v + 14 # Nowhere
    BY <2>0 DEF Nowhere
  <2>15. 0 \in Int /\ 1 \in Int /\ 2 \in Int /\ 0 + 1 = 1 /\ 1 + 1 = 2 /\ 2 - 1 = 1 /\ 2 # 1
    OBVIOUS
  <2>16. N[<<v, 0>>] = N[<<v + 1, 1>>]
    <3>1. v \in 1 .. Len(p) /\ p[v] = Opening
      BY <1>2, <2>3, <2>6
    <3> QED BY <3>1, <2>10, <2>15, ZenonT(30)
  <2>17. N[<<v + 1, 1>>] = N[<<v + 4, 1>>]
    <3>1. v + 1 \in 1 .. Len(p) /\ p[v + 1] = Quote
      BY <1>2, <2>3, <2>6
    <3>2. scan_string(p, v + 1) = v + 4 /\ v + 4 # Nowhere
      BY <2>11, <2>14
    <3> QED BY <3>1, <3>2, <2>10, <2>15, ZenonT(30)
  <2>18. N[<<v + 4, 1>>] = N[<<v + 4 + 1, 1>>]
    <3>1. v + 4 \in 1 .. Len(p) /\ p[v + 4] \notin {Quote, Opening, Ending}
      BY BracketsAre, <1>2, <2>3, <2>6
    <3> QED BY <3>1, <2>10, <2>15
  <2>19. N[<<v + 5, 1>>] = N[<<v + 10, 1>>]
    <3>1. v + 5 \in 1 .. Len(p) /\ p[v + 5] = Quote
      BY <1>2, <2>3, <2>6
    <3>2. scan_string(p, v + 5) = v + 10 /\ v + 10 # Nowhere
      BY <2>12, <2>14
    <3> QED BY <3>1, <3>2, <2>10, <2>15, ZenonT(30)
  <2>20. N[<<v + 10, 1>>] = N[<<v + 10 + 1, 1>>]
    <3>1. v + 10 \in 1 .. Len(p) /\ p[v + 10] \notin {Quote, Opening, Ending}
      BY BracketsAre, <1>2, <2>4, <2>6
    <3> QED BY <3>1, <2>10, <2>15
  <2>21. N[<<v + 11, 1>>] = N[<<v + 14, 1>>]
    <3>1. v + 11 \in 1 .. Len(p) /\ p[v + 11] = Quote
      BY <1>2, <2>4, <2>6
    <3>2. scan_string(p, v + 11) = v + 14 /\ v + 14 # Nowhere
      BY <2>13, <2>14
    <3> QED BY <3>1, <3>2, <2>10, <2>15, ZenonT(30)
  <2>22. N[<<v + 14, 1>>] = N[<<v + 14 + 1, 1>>]
    <3>1. v + 14 \in 1 .. Len(p) /\ p[v + 14] \notin {Quote, Opening, Ending}
      BY BracketsAre, <1>2, <2>4, <2>6
    <3> QED BY <3>1, <2>10, <2>15
  <2>23. N[<<v + 15, 1>>] = N[<<v + 15 + 1, 1>>]
    <3>1. v + 15 \in 1 .. Len(p) /\ p[v + 15] \notin {Quote, Opening, Ending}
      BY <1>1, <1>2, <2>4, <2>6
    <3> QED BY <3>1, <2>10, <2>15
  <2>24. N[<<v + 16, 1>>] = N[<<v + 16 + 1, 2>>]
    <3>1. v + 16 \in 1 .. Len(p) /\ p[v + 16] = Opening
      BY <1>2, <2>4, <2>6
    <3> QED BY <3>1, <2>10, <2>15, ZenonT(30)
  <2>25. N[<<v + 17, 2>>] = N[<<v + 17 + 1, 1>>]
    <3>1. v + 17 \in 1 .. Len(p) /\ p[v + 17] = Ending
      BY <1>2, <2>4, <2>6
    <3> QED BY <3>1, <2>10, <2>15, ZenonT(30)
  <2>26. N[<<v + 18, 1>>] = N[<<v + 18 + 1, 1>>]
    <3>1. v + 18 \in 1 .. Len(p) /\ p[v + 18] \notin {Quote, Opening, Ending}
      BY <1>1, <1>2, <2>4, <2>6
    <3> QED BY <3>1, <2>10, <2>15, ZenonT(30)
  <2>27. N[<<v + 19, 1>>] = v + 19 + 1
    <3>1. v + 19 \in 1 .. Len(p) /\ p[v + 19] = Ending
      BY <1>2, <2>4, <2>6
    <3> QED BY <3>1, <2>10, <2>15
  <2>28. /\ v + 4 + 1 = v + 5 /\ v + 10 + 1 = v + 11 /\ v + 14 + 1 = v + 15 /\ v + 15 + 1 = v + 16
         /\ v + 16 + 1 = v + 17 /\ v + 17 + 1 = v + 18 /\ v + 18 + 1 = v + 19 /\ v + 19 + 1 = v + 20
    BY <2>0
  <2>29. N[<<v, 0>>] = N[<<v + 14, 1>>]
    BY <2>16, <2>17, <2>18, <2>19, <2>20, <2>21, <2>28
  <2>30. N[<<v + 14, 1>>] = v + 20
    BY <2>22, <2>23, <2>24, <2>25, <2>26, <2>27, <2>28
  <2>31. scan_value(p, v) = scan_nested(p, v)
    <3>1. p[v] = Opening
      BY <1>2, <2>3
    <3> QED BY <3>1, BracketsAre, ScanValue, Zenon
  <2>32. scan_nested(p, v) = N[<<v, 0>>]
    <3>1. p[v] = Opening
      BY <1>2, <2>3
    <3> QED BY <2>7, <3>1, BracketsAre, ScanNested, Zenon
  <2> QED BY <1>2, <2>29, <2>30, <2>31, <2>32
<1>4. \A S : \A p \in Seq(S) : \A v \in 1 .. Len(p) :
          Placed(p, v, w) /\ v + Len(w) \in 1 .. Len(p) /\ p[v + Len(w)] \in Enders => scan_value(p, v) = v + Len(w)
  BY <1>3
<1>5. w[1] \notin Blank
  BY <1>2, EndersIs
<1>6. Scans(w)
  BY <1>2, <1>4, <1>5, Zenon DEF Scans
<1> QED BY <1>1, <1>6

-----------------------------------------------------------------------------
(* What is read of the payload of some members.                            *)

\* The members with a key.
Owners(ms, key) == { i \in 1 .. Len(ms) : ms[i].key = key }
LEMMA MeantIs ==
    ASSUME NEW ms, NEW key
    PROVE  /\ Owners(ms, key) = {} => Meant(ms, key) = Missing
           /\ \A i \in Owners(ms, key) : (\A j \in Owners(ms, key) : i <= j) => Meant(ms, key) = ms[i].meant
<1> DEFINE I == Owners(ms, key)
           k == IF I # {} THEN Min(I) ELSE 0
<1>1. Meant(ms, key) = IF k = 0 THEN Missing ELSE ms[k].meant
  BY Zenon DEF Meant, SelectInSeq, Owners
<1>2. I \subseteq Nat /\ 0 \notin I
  BY DEF Owners
<1> HIDE DEF I
<1>3. I # {} => Min(I) \in I /\ \A y \in I : Min(I) <= y
  BY <1>2, MinOf
<1>4. I = {} => Meant(ms, key) = Missing
  BY <1>1
<1>5. ASSUME NEW i \in I, \A j \in I : i <= j PROVE Meant(ms, key) = ms[i].meant
  <2>1. I # {} /\ i \in Nat /\ i # 0
    BY <1>2
  <2>2. Min(I) \in Nat /\ Min(I) <= i /\ i <= Min(I)
    BY <1>2, <1>3, <1>5, <2>1
  <2>3. Min(I) = i
    BY <2>1, <2>2
  <2>4. k = i /\ k # 0
    BY <2>1, <2>3
  <2> QED BY <1>1, <2>4
<1> QED BY <1>4, <1>5 DEF I

\* The entries of the members are theirs.
LEMMA ToldIs ==
    ASSUME NEW ms, Len(ms) \in Nat, NEW key
    PROVE  /\ Places(Told(ms), key) = Owners(ms, key)
           /\ \A i \in Owners(ms, key) : Told(ms)[i].value = ms[i].written
<1>1. PICK n, es : n = Len(ms) /\ n \in Nat /\ es = Told(ms)
  OBVIOUS
<1>2. es = [ i \in 1 .. n |-> EntryOf(<<ms[i].key>>, ms[i].written) ]
  BY <1>1 DEF Told
<1>3. DOMAIN es = 1 .. n /\ Len(es) = n
  <2>1. DOMAIN es = 1 .. n
    BY <1>2
  <2>2. Len(es) = n
    BY <1>1, <1>2
  <2> QED BY <2>1, <2>2
<1>4. ASSUME NEW i \in 1 .. n PROVE es[i].key = <<ms[i].key>> /\ es[i].value = ms[i].written
  <2>1. es[i] = EntryOf(<<ms[i].key>>, ms[i].written)
    BY <1>2
  <2> QED BY <2>1, EntryOfIs
<1>5. \A a, b : <<a>> = <<b>> <=> a = b
  OBVIOUS
<1>6. ASSUME NEW i \in 1 .. n PROVE es[i].key = <<key>> <=> ms[i].key = key
  BY <1>4, <1>5
<1>7. Places(es, key) = { i \in 1 .. n : es[i].key = <<key>> } /\ Owners(ms, key) = { i \in 1 .. n : ms[i].key = key }
  BY <1>1, <1>3 DEF Places, Owners
<1>8. Places(es, key) = Owners(ms, key)
  BY <1>6, <1>7
<1>9. \A i \in Owners(ms, key) : es[i].value = ms[i].written
  BY <1>4, <1>7
<1> QED BY <1>1, <1>8, <1>9

\* What is written of every member means what it is meant to.
Meanings(ms) == \A i \in 1 .. Len(ms) : Meaning(ms[i].written) = ms[i].meant
\* A payload with these members.
Holding(p, ms) == Len(ms) \in Nat /\ Entries(p) = Told(ms)

\* A string is found and is what was meant.
LEMMA StringMeant ==
    ASSUME NEW p, NEW ms, Holding(p, ms), Meanings(ms), NEW key
    PROVE  json_string(p, key) = Meant(ms, key)
<1>1. PICK es, I : es = Entries(p) /\ I = Owners(ms, key)
  OBVIOUS
<1>2. Len(ms) \in Nat /\ es = Told(ms)
  BY <1>1 DEF Holding
<1>3. Places(es, key) = I /\ \A i \in I : es[i].value = ms[i].written
  BY <1>1, <1>2, ToldIs
<1>4. CASE I = {}
  <2>1. json_raw(p, key) = Missing
    BY <1>1, <1>3, <1>4, RawIs
  <2>2. Meaning(Missing) = Missing
    BY Zenon DEF Meaning
  <2>3. Meant(ms, key) = Missing
    BY <1>1, <1>4, MeantIs
  <2> QED BY <2>1, <2>2, <2>3, StringIs
<1>5. CASE I # {}
  <2>1. PICK i \in I : \A j \in I : i <= j
    BY <1>1, <1>3, <1>5, RawIs
  <2>2. json_raw(p, key) = es[i].value
    BY <1>1, <1>3, <2>1, RawIs
  <2>3. Meant(ms, key) = ms[i].meant
    BY <1>1, <2>1, MeantIs
  <2>4. i \in 1 .. Len(ms)
    BY <1>1 DEF Owners
  <2>5. Meaning(ms[i].written) = ms[i].meant
    BY <2>4 DEF Meanings
  <2>6. json_string(p, key) = Meaning(json_raw(p, key))
    BY StringIs
  <2> QED BY <1>3, <2>2, <2>3, <2>5, <2>6
<1> QED BY <1>4, <1>5

\* Members of different keys are found whatever their order.
Distinct(ms) == \A i, j \in 1 .. Len(ms) : ms[i].key = ms[j].key => i = j
LEMMA SameRaw ==
    ASSUME NEW R, NEW ms \in Seq(R), Distinct(ms), NEW p, Holding(p, ms), NEW q, Holding(q, Reverse(ms)), NEW key
    PROVE  json_raw(p, key) = json_raw(q, key)
<1>1. PICK n, rs : n = Len(ms) /\ n \in Nat /\ rs = Reverse(ms)
  OBVIOUS
<1>2. Len(rs) = n /\ \A i \in 1 .. n : n - i + 1 \in 1 .. n /\ rs[i] = ms[n - i + 1] /\ n - (n - i + 1) + 1 = i
  <2>1. rs = [ i \in 1 .. n |-> ms[(n - i) + 1] ]
    BY <1>1, Zenon DEF Reverse
  <2>2. Len(rs) = n
    BY <1>1, <2>1
  <2>3. ASSUME NEW i \in 1 .. n PROVE n - i + 1 \in 1 .. n /\ n - (n - i + 1) + 1 = i
    BY <1>1
  <2> QED BY <2>1, <2>2, <2>3
<1>3. PICK I, J, es, fs : I = Owners(ms, key) /\ J = Owners(rs, key) /\ es = Entries(p) /\ fs = Entries(q)
  OBVIOUS
<1>4. /\ Places(es, key) = I /\ \A i \in I : es[i].value = ms[i].written
      /\ Places(fs, key) = J /\ \A i \in J : fs[i].value = rs[i].written
  BY <1>1, <1>2, <1>3, ToldIs DEF Holding
<1>5. I = { i \in 1 .. n : ms[i].key = key } /\ J = { i \in 1 .. n : rs[i].key = key }
  BY <1>1, <1>2, <1>3 DEF Owners
<1>6. \A i, j \in 1 .. n : ms[i].key = ms[j].key => i = j
  BY <1>1 DEF Distinct
<1>7. CASE I = {}
  <2>1. J = {}
    BY <1>2, <1>5, <1>7
  <2>2. json_raw(p, key) = Missing
    BY <1>3, <1>4, <1>7, RawIs
  <2>3. json_raw(q, key) = Missing
    BY <1>3, <1>4, <2>1, RawIs
  <2> QED BY <2>2, <2>3
<1>8. CASE I # {}
  <2>1. PICK i \in I : TRUE
    BY <1>8
  <2>2. PICK j : j = n - i + 1
    OBVIOUS
  <2>3. i \in 1 .. n /\ ms[i].key = key
    BY <1>5
  <2>4. j \in 1 .. n /\ rs[j] = ms[i]
    <3>1. n - i + 1 \in 1 .. n /\ n - (n - i + 1) + 1 = i
      BY <1>2, <2>3
    <3>2. rs[j] = ms[n - j + 1]
      BY <1>2, <2>2, <3>1
    <3> QED BY <2>2, <3>1, <3>2
  <2>5. j \in J
    BY <1>5, <2>3, <2>4
  <2>6. \A x \in I : x = i
    BY <1>5, <1>6, <2>3
  <2>7. ASSUME NEW x \in J PROVE x = j
    <3>1. x \in 1 .. n /\ rs[x].key = key
      BY <1>5
    <3>2. n - x + 1 \in 1 .. n /\ rs[x] = ms[n - x + 1] /\ n - (n - x + 1) + 1 = x
      BY <1>2, <3>1
    <3>3. n - x + 1 = i
      BY <1>6, <2>3, <3>1, <3>2
    <3> QED BY <2>2, <3>2, <3>3
  <2>8. (\A x \in I : i <= x) /\ (\A x \in J : j <= x)
    BY <1>1, <2>3, <2>4, <2>6, <2>7
  <2>9. json_raw(p, key) = es[i].value
    BY <1>3, <1>4, <2>8, RawIs
  <2>10. json_raw(q, key) = fs[j].value
    BY <1>3, <1>4, <2>5, <2>8, RawIs
  <2>11. es[i].value = ms[i].written
    BY <1>4
  <2>12. fs[j].value = rs[j].written
    BY <1>4, <2>5
  <2> QED BY <2>4, <2>9, <2>10, <2>11, <2>12
<1> QED BY <1>7, <1>8

\* An event is told by what json_raw finds.
TextOf(ty, p) == OrDefault(json_string(p, (CHOOSE x \in { e \in TextEvents : <<e[1]>> = ty } : TRUE)[3]))
Rendered(ty, text, speaking, rate, error) ==
    CASE { e \in TextEvents : <<e[1]>> = ty } # {} -> <<(CHOOSE x \in { e \in TextEvents : <<e[1]>> = ty } : TRUE)[2], text>>
      [] { e \in BareEvents : <<e[1]>> = ty } # {} -> <<(CHOOSE x \in { e \in BareEvents : <<e[1]>> = ty } : TRUE)[2]>>
      [] ty = <<"vad.speaking">> -> <<"VadSpeaking", speaking>>
      [] ty = <<"audio.start">> -> <<"AudioStart", rate>>
      [] ty \in {<<"error">>, <<"asr.error">>} -> <<"Error", error>>
      [] OTHER -> <<"Unknown">>
LEMMA SameEvent ==
    ASSUME NEW p, NEW q, \A key : json_raw(p, key) = json_raw(q, key)
    PROVE  parse_server_message(p) = parse_server_message(q)
<1>1. \A key : json_string(p, key) = json_string(q, key)
  BY StringIs, Zenon
<1>2. json_bool(p, "speaking") = json_bool(q, "speaking")
  BY Zenon DEF json_bool
<1>3. json_u32(p, "sample_rate") = json_u32(q, "sample_rate")
  <2>1. PICK raw : raw = json_raw(p, "sample_rate") /\ raw = json_raw(q, "sample_rate")
    BY Zenon
  <2> QED BY <2>1, Zenon DEF json_u32
<1>4. ASSUME NEW ty PROVE TextOf(ty, p) = TextOf(ty, q)
  BY <1>1, Zenon DEF TextOf
<1>5. OrDefault(Or(json_string(p, "message"), json_string(p, "error")))
        = OrDefault(Or(json_string(q, "message"), json_string(q, "error")))
  <2>1. json_string(p, "message") = json_string(q, "message") /\ json_string(p, "error") = json_string(q, "error")
    BY <1>1, Zenon
  <2>2. PICK a, b : a = json_string(p, "message") /\ b = json_string(p, "error")
    OBVIOUS
  <2>3. a = json_string(q, "message") /\ b = json_string(q, "error")
    BY <2>1, <2>2, Zenon
  <2>4. OrDefault(Or(json_string(p, "message"), json_string(p, "error"))) = OrDefault(Or(a, b))
    BY <2>2, Zenon
  <2>5. OrDefault(Or(json_string(q, "message"), json_string(q, "error"))) = OrDefault(Or(a, b))
    BY <2>3, Zenon
  <2> QED BY <2>4, <2>5, Zenon
<1>6. ASSUME NEW ty, NEW c
      PROVE  EventOf(ty, c) = Rendered(ty, TextOf(ty, c), json_bool(c, "speaking"), json_u32(c, "sample_rate"),
                                       OrDefault(Or(json_string(c, "message"), json_string(c, "error"))))
  BY Zenon DEF EventOf, Rendered, TextOf
<1>7. PICK ty : ty = json_string(p, "type") /\ ty = json_string(q, "type")
  BY <1>1, Zenon
<1>8. EventOf(ty, p) = EventOf(ty, q)
  BY <1>2, <1>3, <1>4, <1>5, <1>6, Zenon
<1> QED BY <1>7, <1>8, Zenon DEF parse_server_message

-----------------------------------------------------------------------------
(* What the server says.                                                   *)

\* A member whose value is scanned as what it is and means what it is meant to.
WellMeant(S, m) ==
    /\ m.key \in S \ {Quote, Bs}
    /\ m.written \in Seq(S) /\ Scans(m.written) /\ Meaning(m.written) = m.meant

\* A string that is written is one.
LEMMA StringMember ==
    ASSUME NEW S, Quote \in S, NEW key \in S \ {Quote, Bs}, NEW chars \in Seq(S), Whole(chars),
           NEW w, IsWritten(w, chars, S)
    PROVE  WellMeant(S, Member(key, w, chars))
<1>1. Scans(w) /\ w \in Seq(S)
  BY StringScans
<1>2. PICK P, ascii : P \in Seq(Seq(S)) /\ ascii \in BOOLEAN /\ Spells(P, chars, ascii) /\ w = Quoted(P)
  BY DEF IsWritten
<1>3. unescape(FlattenSeq(P)) = chars
  BY <1>2, StringRead
<1>4. PICK n : n = Len(FlattenSeq(P))
  OBVIOUS
<1>5. n \in Nat /\ Len(w) = n + 2 /\ w[1] = Quote /\ SubSeq(w, 2, n + 1) = FlattenSeq(P)
  BY <1>2, <1>4, QuotedIs
<1>6. w # Missing
  <2>1. Missing[1] # Quote
    BY DEF Missing, Quote
  <2> QED BY <1>5, <2>1
<1>7. SubSeq(w, 2, Len(w) - 1) = FlattenSeq(P)
  BY <1>5
<1>8. Meaning(w) = chars
  <2>1. Meaning(w) = unescape(SubSeq(w, 2, Len(w) - 1))
    BY <1>5, <1>6, Zenon DEF Meaning
  <2> QED BY <2>1, <1>3, <1>7
<1>9. PICK m : m = Member(key, w, chars)
  OBVIOUS
<1>10. m.key = key /\ m.written = w /\ m.meant = chars
  BY <1>9 DEF Member
<1> QED BY <1>1, <1>8, <1>9, <1>10 DEF WellMeant

\* So is any other value that is scanned as what it is.
LEMMA PlainMember ==
    ASSUME NEW S, NEW key \in S \ {Quote, Bs}, NEW w \in Seq(S), Scans(w), w[1] # Quote
    PROVE  WellMeant(S, Member(key, w, Missing))
<1>1. Meaning(w) = Missing
  BY Zenon DEF Meaning
<1>2. PICK m : m = Member(key, w, Missing)
  OBVIOUS
<1>3. m.key = key /\ m.written = w /\ m.meant = Missing
  BY <1>2 DEF Member
<1> QED BY <1>1, <1>2, <1>3 DEF WellMeant

\* A name between quotes.
LEMMA NameWritten ==
    ASSUME NEW S, Quote \in S, NEW t \in S \ {Quote, Bs}
    PROVE  IsWritten(Str(t), <<t>>, S)
<1>1. PICK s, P : s = <<t>> /\ P = [ i \in 1 .. Len(s) |-> <<s[i]>> ]
  OBVIOUS
<1>2. s \in Seq(S) /\ Len(s) = 1 /\ s[1] = t
  BY <1>1
<1>3. FlattenSeq(P) = <<t>>
  BY <1>1, <1>2, FlattenSingles
<1>4. Quoted(P) = Str(t)
  <2>1. Quoted(P) = <<Quote>> \o <<t>> \o <<Quote>>
    BY <1>3 DEF Quoted
  <2>2. PICK q, a, b, c, d : q = <<Quote>> /\ a = <<t>> /\ b = q \o a /\ c = b \o q /\ d = <<Quote, t, Quote>>
    OBVIOUS
  <2>3. q \in Seq(S) /\ a \in Seq(S) /\ Len(q) = 1 /\ Len(a) = 1 /\ q[1] = Quote /\ a[1] = t
    BY <2>2
  <2>4. b \in Seq(S) /\ Len(b) = 2 /\ b[1] = Quote /\ b[2] = t
    BY <2>2, <2>3
  <2>5. c \in Seq(S) /\ Len(c) = 3 /\ c[1] = Quote /\ c[2] = t /\ c[3] = Quote
    BY <2>2, <2>3, <2>4
  <2>6. d \in Seq(S) /\ Len(d) = 3 /\ d[1] = Quote /\ d[2] = t /\ d[3] = Quote
    BY <2>2
  <2>7. \A i \in 1 .. 3 : c[i] = d[i]
    BY <2>5, <2>6
  <2>8. c = d
    BY <2>5, <2>6, <2>7, SameElements
  <2> QED BY <2>1, <2>2, <2>8 DEF Str
<1>5. P \in Seq(Seq(S)) /\ Len(P) = 1 /\ P[1] = <<t>>
  BY <1>1, <1>2
<1>6. Spell(<<t>>, t, FALSE)
  BY DEF Spell
<1>7. Spells(P, <<t>>, FALSE)
  <2>1. Len(<<t>>) = 1 /\ <<t>>[1] = t
    OBVIOUS
  <2>2. PICK u : u = <<t>>
    OBVIOUS
  <2>3. \A k \in 1 .. 1 : k = 1
    OBVIOUS
  <2>4. \A k \in 1 .. Len(u) : Spell(P[k], u[k], FALSE)
    BY <1>5, <1>6, <2>1, <2>2, <2>3, Zenon
  <2> QED BY <1>5, <2>1, <2>2, <2>4 DEF Spells
<1> QED BY <1>4, <1>5, <1>7 DEF IsWritten

-----------------------------------------------------------------------------
\* The symbols of the server's payloads.
SentTypes == {"asr.result", "audio.start", "vad.speaking", "error", "new"}
SentKeys == {"type", "text", "message", "error", "sample_rate", "speaking"}
SentLetters == {"a", "L", "C", "nl", "ctl"}
SentMarks == {Opening, Ending, Comma, AColon, "[", "]"}
SentSymbols == Marks \union Blank \union InNumber \union Words \union SentTypes \union SentKeys \union SentLetters \union SentMarks

\* See SentSymbols.
LEMMA SentSymbolsAre ==
    /\ Marks \subseteq SentSymbols /\ Blank \subseteq SentSymbols /\ InNumber \subseteq SentSymbols /\ Words \subseteq SentSymbols
    /\ SentTypes \subseteq SentSymbols /\ SentKeys \subseteq SentSymbols /\ SentLetters \subseteq SentSymbols /\ SentMarks \subseteq SentSymbols
BY Zenon DEF SentSymbols

\* None of the names is a quote or a backslash.
LEMMA NamesAre == Quote \in SentSymbols /\ Bs \in SentSymbols /\ \A x \in SentTypes \union SentKeys : x \notin {Quote, Bs}
<1>1. Quote \in SentSymbols /\ Bs \in SentSymbols
  BY SentSymbolsAre, Zenon DEF Marks
<1>2. \A x \in SentTypes \union SentKeys : x \notin {Quote, Bs}
  BY Zenon DEF SentTypes, SentKeys, Quote, Bs
<1> QED BY <1>1, <1>2

\* The texts are whole.
LEMMA TextsAre == \A s \in Texts : s \in Seq(SentSymbols) /\ Whole(s)
<1> SUFFICES ASSUME NEW s \in Texts PROVE s \in Seq(SentSymbols) /\ Whole(s)
  OBVIOUS
<1>1. s = <<>> \/ s = <<Quote>> \/ s = <<"a", Bs>> \/ s = <<"L", "C", "nl">> \/ s = <<Ending, Comma, "ctl">>
  BY Zenon DEF Texts, Ending, Comma
<1>2. {"a", "L", "C", "nl", "ctl"} \subseteq SentSymbols /\ Ending \in SentSymbols /\ Comma \in SentSymbols /\ Quote \in SentSymbols /\ Bs \in SentSymbols
  BY SentSymbolsAre, NamesAre, Zenon DEF SentLetters, SentMarks
<1>3. CASE s = <<>>
  BY <1>3, WholePair
<1>4. CASE s = <<Quote>>
  <2>1. Quote \notin {"stuck", "L", "C"}
    BY DEF Quote
  <2> QED BY <1>2, <1>4, <2>1, WholeOne
<1>5. CASE s = <<"a", Bs>>
  <2>1. Bs \notin {"stuck", "L", "C"} /\ "a" \notin {"stuck", "L", "C"}
    BY DEF Bs
  <2>2. Len(s) = 2 /\ s[1] = "a" /\ s[2] = Bs
    BY <1>5
  <2> QED BY <1>2, <1>5, <2>1, <2>2 DEF Whole
<1>6. CASE s = <<"L", "C", "nl">>
  <2>2. Len(s) = 3 /\ s[1] = "L" /\ s[2] = "C" /\ s[3] = "nl"
    BY <1>6
  <2> QED BY <1>2, <1>6, <2>2 DEF Whole
<1>7. CASE s = <<Ending, Comma, "ctl">>
  <2>1. Ending \notin {"stuck", "L", "C"} /\ Comma \notin {"stuck", "L", "C"}
    BY Zenon DEF Ending, Comma
  <2>2. Len(s) = 3 /\ s[1] = Ending /\ s[2] = Comma /\ s[3] = "ctl"
    BY <1>7
  <2> QED BY <1>2, <1>7, <2>1, <2>2 DEF Whole
<1> QED BY <1>1, <1>3, <1>4, <1>5, <1>6, <1>7

\* The value with brackets inside is made of these symbols, too.
LEMMA NestedTyped == Nested \in Seq(SentSymbols) /\ Nested[1] # Quote
<1>1. Nested = <<Opening, Quote, "type", Quote, AColon, Quote, Ending, Bs, Quote, Quote, Comma,
                 Quote, "text", Quote, AColon, "[", Opening, Ending, "]", Ending>>
  BY Zenon DEF Nested, Opening, Ending, AColon, Comma
<1>2. PICK t, k, a, b : t = "type" /\ k = "text" /\ a = "[" /\ b = "]"
  BY Zenon
<1>3. Nested = <<Opening, Quote, t, Quote, AColon, Quote, Ending, Bs, Quote, Quote, Comma,
                 Quote, k, Quote, AColon, a, Opening, Ending, b, Ending>>
  BY <1>1, <1>2, Zenon
<1>4. t \in SentSymbols /\ k \in SentSymbols /\ a \in SentSymbols /\ b \in SentSymbols
  BY <1>2, SentSymbolsAre, Zenon DEF SentKeys, SentMarks
<1>5. Opening \in SentSymbols /\ Ending \in SentSymbols /\ AColon \in SentSymbols /\ Comma \in SentSymbols
  BY SentSymbolsAre, Zenon DEF SentMarks
<1>6. PICK w : w = Nested
  OBVIOUS
<1>7. w \in Seq(SentSymbols) /\ w[1] = Opening
  BY <1>3, <1>4, <1>5, <1>6, NamesAre
<1> QED BY <1>6, <1>7, BracketsAre

\* The members of the server's messages, kind by kind.
OfType == { Member("type", Str(t), <<t>>) : t \in SentTypes }
OfText == { Member("text", Literal(s, ascii), s) : s \in Texts, ascii \in BOOLEAN }
OfMessage == { Member("message", v, Missing) : v \in {Nested, <<"null">>} }
OfError == { Member("error", Literal(<<"L", "C">>, FALSE), <<"L", "C">>) }
OfRate == { Member("sample_rate", n, Missing) : n \in {<<"1", "6">>, <<"-", "1">>} }
OfVad == { Member("speaking", <<b>>, Missing) : b \in {"true", "false"} }
LEMMA MemberKinds ==
    ASSUME NEW m \in Members
    PROVE  \/ \E t \in SentTypes : m = Member("type", Str(t), <<t>>)
           \/ \E s \in Texts, ascii \in BOOLEAN : m = Member("text", Literal(s, ascii), s)
           \/ \E v \in {Nested, <<"null">>} : m = Member("message", v, Missing)
           \/ m = Member("error", Literal(<<"L", "C">>, FALSE), <<"L", "C">>)
           \/ \E n \in {<<"1", "6">>, <<"-", "1">>} : m = Member("sample_rate", n, Missing)
           \/ \E b \in {"true", "false"} : m = Member("speaking", <<b>>, Missing)
<1>1. Members = OfType \union OfText \union OfMessage \union OfError \union OfRate \union OfVad
  BY DEF Members, OfType, OfText, OfMessage, OfError, OfRate, OfVad, SentTypes
<1>2. m \in OfType \/ m \in OfText \/ m \in OfMessage \/ m \in OfError \/ m \in OfRate \/ m \in OfVad
  BY <1>1
<1>3. m \in OfType => \E t \in SentTypes : m = Member("type", Str(t), <<t>>)
  BY DEF OfType
<1>4. m \in OfText => \E s \in Texts, ascii \in BOOLEAN : m = Member("text", Literal(s, ascii), s)
  BY DEF OfText
<1>5. m \in OfMessage => \E v \in {Nested, <<"null">>} : m = Member("message", v, Missing)
  BY DEF OfMessage
<1>6. m \in OfError => m = Member("error", Literal(<<"L", "C">>, FALSE), <<"L", "C">>)
  BY DEF OfError
<1>7. m \in OfRate => \E n \in {<<"1", "6">>, <<"-", "1">>} : m = Member("sample_rate", n, Missing)
  BY DEF OfRate
<1>8. m \in OfVad => \E b \in {"true", "false"} : m = Member("speaking", <<b>>, Missing)
  BY DEF OfVad
<1> QED BY <1>2, <1>3, <1>4, <1>5, <1>6, <1>7, <1>8, Zenon

\* Each of them is scanned as what it is and means what it is meant to.
LEMMA MembersMeant == \A m \in Members : WellMeant(SentSymbols, m)
<1> SUFFICES ASSUME NEW m \in Members PROVE WellMeant(SentSymbols, m)
  OBVIOUS
<1>1. SentKeys \subseteq SentSymbols \ {Quote, Bs} /\ SentTypes \subseteq SentSymbols \ {Quote, Bs} /\ Quote \in SentSymbols
  BY SentSymbolsAre, NamesAre
<1>2. "type" \in SentKeys /\ "text" \in SentKeys /\ "message" \in SentKeys /\ "error" \in SentKeys
      /\ "sample_rate" \in SentKeys /\ "speaking" \in SentKeys
  BY Zenon DEF SentKeys
<1>3. \A x \in SentKeys : x \in SentSymbols \ {Quote, Bs}
  BY <1>1
<1>4. Marks \subseteq SentSymbols /\ Words \subseteq SentSymbols /\ InNumber \subseteq SentSymbols
  BY SentSymbolsAre
<1>5. CASE \E t \in SentTypes : m = Member("type", Str(t), <<t>>)
  <2>1. PICK t : t \in SentTypes /\ m = Member("type", Str(t), <<t>>)
    BY <1>5
  <2>2. t \in SentSymbols \ {Quote, Bs}
    BY <1>1, <2>1
  <2>3. IsWritten(Str(t), <<t>>, SentSymbols)
    BY <1>1, <2>2, NameWritten
  <2>4. t \notin {"stuck", "L", "C"}
    BY <2>1, Zenon DEF SentTypes
  <2>5. Whole(<<t>>)
    BY <2>4, WholeOne
  <2>6. <<t>> \in Seq(SentSymbols)
    BY <2>2
  <2>7. WellMeant(SentSymbols, Member("type", Str(t), <<t>>))
    BY <1>1, <1>2, <1>3, <2>3, <2>5, <2>6, StringMember
  <2> QED BY <2>1, <2>7, Zenon
<1>6. CASE \E s \in Texts, ascii \in BOOLEAN : m = Member("text", Literal(s, ascii), s)
  <2>1. PICK s, ascii : s \in Texts /\ ascii \in BOOLEAN /\ m = Member("text", Literal(s, ascii), s)
    BY <1>6, Zenon
  <2>2. s \in Seq(SentSymbols) /\ Whole(s)
    BY <2>1, TextsAre
  <2>3. IsWritten(Literal(s, ascii), s, SentSymbols)
    BY <1>4, <2>1, <2>2, ServerWrites
  <2>4. WellMeant(SentSymbols, Member("text", Literal(s, ascii), s))
    BY <1>1, <1>2, <1>3, <2>2, <2>3, StringMember
  <2> QED BY <2>1, <2>4, Zenon
<1>7. CASE \E v \in {Nested, <<"null">>} : m = Member("message", v, Missing)
  <2>1. CASE m = Member("message", Nested, Missing)
    <3>1. WellMeant(SentSymbols, Member("message", Nested, Missing))
      BY <1>2, <1>3, NestedTyped, NestedScans, PlainMember
    <3> QED BY <2>1, <3>1, Zenon
  <2>2. CASE m = Member("message", <<"null">>, Missing)
    <3>1. PICK w : w = <<"null">>
      OBVIOUS
    <3>2. "null" \in Words
      BY Zenon DEF Words
    <3>3. w \in Seq(SentSymbols) /\ w[1] # Quote
      BY <1>4, <3>1, <3>2, Kinds
    <3>4. Scans(w)
      BY <3>1, <3>2, WordScans
    <3>5. WellMeant(SentSymbols, Member("message", w, Missing))
      BY <1>2, <1>3, <3>3, <3>4, PlainMember
    <3> QED BY <2>2, <3>1, <3>5, Zenon
  <2> QED BY <1>7, <2>1, <2>2, Zenon
<1>8. CASE m = Member("error", Literal(<<"L", "C">>, FALSE), <<"L", "C">>)
  <2>1. PICK s : s = <<"L", "C">>
    OBVIOUS
  <2>2. "L" \in SentSymbols /\ "C" \in SentSymbols
    BY SentSymbolsAre, Zenon DEF SentLetters
  <2>3. s \in Seq(SentSymbols) /\ Whole(s)
    BY <2>1, <2>2, WholePair
  <2>4. IsWritten(Literal(s, FALSE), s, SentSymbols)
    BY <1>4, <2>3, ServerWrites
  <2>5. WellMeant(SentSymbols, Member("error", Literal(s, FALSE), s))
    BY <1>1, <1>2, <1>3, <2>3, <2>4, StringMember
  <2> QED BY <1>8, <2>1, <2>5, Zenon
<1>9. CASE \E n \in {<<"1", "6">>, <<"-", "1">>} : m = Member("sample_rate", n, Missing)
  <2>1. PICK n : n \in {<<"1", "6">>, <<"-", "1">>} /\ m = Member("sample_rate", n, Missing)
    BY <1>9
  <2>2. {"1", "6", "-"} \subseteq InNumber
    <3>1. "1" \in Tens /\ "6" \in Tens
      BY DEF Tens
    <3>2. "1" \in InNumber /\ "6" \in InNumber /\ "-" \in InNumber
      BY <3>1, NumberSymbols, Zenon
    <3> QED BY <3>2
  <2>3. PICK a, b : a \in {"1", "6", "-"} /\ b \in {"1", "6", "-"} /\ n = <<a, b>>
    BY <2>1
  <2>4. n \in Seq(InNumber) /\ n # <<>> /\ n[1] \in InNumber /\ n \in Seq(SentSymbols)
    BY <1>4, <2>2, <2>3
  <2>5. n[1] # Quote
    BY <2>4, NumberSymbols
  <2>6. Scans(n)
    BY <2>4, NumberScans
  <2>7. WellMeant(SentSymbols, Member("sample_rate", n, Missing))
    BY <1>2, <1>3, <2>4, <2>5, <2>6, PlainMember
  <2> QED BY <2>1, <2>7, Zenon
<1>10. CASE \E b \in {"true", "false"} : m = Member("speaking", <<b>>, Missing)
  <2>1. PICK b : b \in {"true", "false"} /\ m = Member("speaking", <<b>>, Missing)
    BY <1>10, Zenon
  <2>2. b \in Words
    BY <2>1, Zenon DEF Words
  <2>3. PICK w : w = <<b>>
    OBVIOUS
  <2>4. w \in Seq(SentSymbols) /\ w[1] # Quote
    BY <1>4, <2>2, <2>3, Kinds
  <2>5. Scans(w)
    BY <2>2, <2>3, WordScans
  <2>6. WellMeant(SentSymbols, Member("speaking", w, Missing))
    BY <1>2, <1>3, <2>4, <2>5, PlainMember
  <2> QED BY <2>1, <2>3, <2>6, Zenon
<1> QED BY <1>5, <1>6, <1>7, <1>8, <1>9, <1>10, MemberKinds, Zenon

-----------------------------------------------------------------------------
(* What is read of what the server says.                                   *)

\* Members of which each is one of the server's.
LEMMA MembersTold ==
    ASSUME NEW ms \in Seq(Members)
    PROVE  WellTold(SentSymbols, ms) /\ Meanings(ms)
<1>1. Quote \in SentSymbols /\ AColon \in SentSymbols /\ Comma \in SentSymbols /\ Opening \in SentSymbols /\ Ending \in SentSymbols
  BY NamesAre, SentSymbolsAre, Zenon DEF SentMarks
<1>2. Len(ms) \in Nat /\ \A i \in 1 .. Len(ms) : ms[i] \in Members
  OBVIOUS
<1>3. \A i \in 1 .. Len(ms) : WellMeant(SentSymbols, ms[i])
  BY <1>2, MembersMeant
<1>4. \A i \in 1 .. Len(ms) : /\ ms[i].key \in SentSymbols /\ ms[i].key \notin {Quote, Bs}
                              /\ ms[i].written \in Seq(SentSymbols) /\ Scans(ms[i].written)
                              /\ Meaning(ms[i].written) = ms[i].meant
  BY <1>3 DEF WellMeant
<1>5. WellTold(SentSymbols, ms)
  BY <1>1, <1>2, <1>4 DEF WellTold
<1> QED BY <1>4, <1>5 DEF Meanings

\* The order of the members makes no difference, nor do blanks, and what is
\* cut off does not change what is found.
LEMMA MembersRead ==
    ASSUME NEW ms \in Seq(Members), Distinct(ms), NEW pretty
    PROVE  /\ \A key : json_string(Payload(ms, pretty), key) = Meant(ms, key)
           /\ parse_server_message(Payload(ms, pretty)) = parse_server_message(Reordered(ms))
           /\ \A n \in 0 .. Len(Payload(ms, pretty)) - 1 : \A key :
                 json_string(SubSeq(Payload(ms, pretty), 1, n), key) \in {Missing, Meant(ms, key)}
<1>1. PICK rs, p, q : rs = Reverse(ms) /\ p = Payload(ms, pretty) /\ q = Payload(rs, FALSE)
  OBVIOUS
<1>2. rs \in Seq(Members)
  <2>1. Len(ms) \in Nat /\ \A i \in 1 .. Len(ms) : ms[i] \in Members /\ Len(ms) - i + 1 \in 1 .. Len(ms)
    OBVIOUS
  <2>2. rs = [ i \in 1 .. Len(ms) |-> ms[Len(ms) - i + 1] ]
    BY <1>1, Zenon DEF Reverse
  <2> QED BY <2>1, <2>2
<1>3. Blank \subseteq SentSymbols
  BY SentSymbolsAre
<1>4. p \in Seq(SentSymbols) /\ Entries(p) = Told(ms)
  BY <1>1, <1>3, MembersTold, PayloadTold
<1>5. Entries(q) = Told(rs)
  BY <1>1, <1>2, <1>3, MembersTold, PayloadTold
<1>6. Holding(p, ms) /\ Holding(q, rs)
  BY <1>2, <1>4, <1>5 DEF Holding
<1>7. \A key : json_string(p, key) = Meant(ms, key)
  BY <1>6, MembersTold, StringMeant
<1>8. ASSUME NEW key PROVE json_raw(p, key) = json_raw(q, key)
  <2>1. Holding(q, Reverse(ms))
    BY <1>1, <1>6
  <2> QED BY <1>6, <2>1, SameRaw
<1>9. parse_server_message(p) = parse_server_message(q)
  BY <1>8, SameEvent
<1>10. ASSUME NEW n \in 0 .. Len(p) - 1, NEW key PROVE json_string(SubSeq(p, 1, n), key) \in {Missing, json_string(p, key)}
  <2>1. PICK c : c = SubSeq(p, 1, n)
    OBVIOUS
  <2>2. n \in Nat /\ 0 + n <= Len(p) /\ Len(p) \in Nat
    BY <1>4
  <2>3. c \in Seq(SentSymbols) /\ Len(c) = n /\ \A i \in 1 .. n : c[i] = p[i]
    BY <1>4, <2>1, <2>2
  <2>4. Cut(c, p)
    BY <2>2, <2>3 DEF Cut
  <2> QED BY <1>4, <2>1, <2>3, <2>4, CutWholeOrMissing
<1>11. q = Reordered(ms)
  BY <1>1, Zenon DEF Reordered
<1> QED BY <1>1, <1>7, <1>9, <1>10, <1>11

\* What is being said in the server's JSON.
Saying ==
    subject = "json" =>
        item \in [members : Seq(Members), pretty : BOOLEAN] /\ Distinct(item.members)

\* See PayloadRead.
THEOREM ServerUnderstood == Spec => []PayloadRead
<1>1. Init => Saying
  <2> SUFFICES ASSUME Init, subject = "json" PROVE item \in [members : Seq(Members), pretty : BOOLEAN] /\ Distinct(item.members)
    BY DEF Saying
  <2>1. PICK pretty \in BOOLEAN : item = [members |-> <<>>, pretty |-> pretty]
    BY Zenon DEF Init
  <2>2. item.members = <<>>
    BY <2>1
  <2>3. item \in [members : Seq(Members), pretty : BOOLEAN]
    BY <2>1
  <2>4. Distinct(item.members)
    BY <2>2 DEF Distinct
  <2> QED BY <2>3, <2>4
<1>2. Saying /\ [Next]_vars => Saying'
  <2> SUFFICES ASSUME Saying, [Next]_vars PROVE Saying'
    OBVIOUS
  <2>1. CASE AddMember
    <3>1. PICK m : m \in Members /\ (\A i \in 1 .. Len(item.members) : item.members[i].key # m.key)
                     /\ item' = [item EXCEPT !.members = Append(@, m)] /\ subject = "json" /\ subject' = subject
      BY <2>1, Zenon DEF AddMember
    <3>2. PICK ms, pretty : ms \in Seq(Members) /\ pretty \in BOOLEAN /\ ms = item.members /\ pretty = item.pretty
      BY <3>1 DEF Saying
    <3>3. item' = [members |-> Append(ms, m), pretty |-> pretty]
      BY <3>1, <3>2 DEF Saying
    <3>4. item' \in [members : Seq(Members), pretty : BOOLEAN] /\ item'.members = Append(ms, m)
      <4>1. ms \in Seq(Members) /\ m \in Members
        BY <3>1, <3>2
      <4>2. PICK ns, M : ns = Append(ms, m) /\ M = Members
        OBVIOUS
      <4>3. ns \in Seq(M)
        BY ONLY <4>1, <4>2
      <4> QED BY <3>2, <3>3, <4>2, <4>3
    <3>5. Distinct(Append(ms, m))
      <4>1. Distinct(ms)
        BY <3>1, <3>2 DEF Saying
      <4>2. PICK ns, n : ns = Append(ms, m) /\ n = Len(ms)
        OBVIOUS
      <4>3. n \in Nat /\ Len(ns) = n + 1 /\ ns[n + 1] = m /\ \A i \in 1 .. n : ns[i] = ms[i]
        BY <3>1, <3>2, <4>2
      <4>4. \A i \in 1 .. n : ns[i].key # ns[n + 1].key
        BY <3>1, <3>2, <4>2, <4>3
      <4>5. \A i, j \in 1 .. n : ns[i].key = ns[j].key => i = j
        BY <4>1, <4>2, <4>3 DEF Distinct
      <4>6. \A i \in 1 .. n + 1 : i \in 1 .. n \/ i = n + 1
        BY <4>3
      <4>7. \A i, j \in 1 .. n + 1 : ns[i].key = ns[j].key => i = j
        BY <4>4, <4>5, <4>6, Zenon
      <4> QED BY <4>2, <4>3, <4>7 DEF Distinct
    <3> QED BY <3>4, <3>5 DEF Saying
  <2>2. CASE AddSymbol \/ AddChar \/ AddByte \/ Configure \/ AddCertificate \/ AddExtension
    BY <2>2 DEF AddSymbol, AddChar, AddByte, Longer, Configure, AddCertificate, AddExtension, Saying
  <2>3. CASE UNCHANGED vars
    BY <2>3 DEF vars, Saying
  <2> QED BY <2>1, <2>2, <2>3 DEF Next
<1>3. Saying => PayloadRead
  <2> SUFFICES ASSUME Saying, subject = "json"
               PROVE  LET p == Payload(item.members, item.pretty)
                      IN /\ \A k \in Keys : json_string(p, k) = Meant(item.members, k)
                         /\ parse_server_message(p) = parse_server_message(Reordered(item.members))
                         /\ \A n \in 0 .. Len(p) - 1, k \in Keys :
                               json_string(SubSeq(p, 1, n), k) \in {Missing, Meant(item.members, k)}
    BY Zenon DEF PayloadRead
  <2>1. PICK ms, pretty : ms = item.members /\ pretty = item.pretty
    OBVIOUS
  <2>2. ms \in Seq(Members) /\ Distinct(ms)
    BY <2>1 DEF Saying
  <2>3. /\ \A key : json_string(Payload(ms, pretty), key) = Meant(ms, key)
        /\ parse_server_message(Payload(ms, pretty)) = parse_server_message(Reordered(ms))
        /\ \A n \in 0 .. Len(Payload(ms, pretty)) - 1 : \A key :
              json_string(SubSeq(Payload(ms, pretty), 1, n), key) \in {Missing, Meant(ms, key)}
    BY <2>2, MembersRead
  <2> QED BY <2>1, <2>3, Zenon
<1> QED BY <1>1, <1>2, <1>3, PTL DEF Spec

-----------------------------------------------------------------------------
(* The text of the fallback synthesis.                                     *)

\* Sequences one behind the other.
LEMMA ConcatAssoc ==
    ASSUME NEW S, NEW a \in Seq(S), NEW b \in Seq(S), NEW c \in Seq(S)
    PROVE  (a \o b) \o c = a \o (b \o c)
OBVIOUS

\* See ConcatAssoc.
LEMMA ConcatNone ==
    ASSUME NEW S, NEW a \in Seq(S)
    PROVE  <<>> \o a = a /\ a \o <<>> = a
<1>1. <<>> \in Seq(S)
  OBVIOUS
<1>2. PICK e : e = <<>> /\ e \in Seq(S) /\ Len(e) = 0
  <2>1. Len(<<>>) = 0
    OBVIOUS
  <2> QED BY <1>1, <2>1, Zenon
<1>3. e \o a = a
  BY <1>2
<1>4. a \o e = a
  BY <1>2
<1> QED BY <1>2, <1>3, <1>4

\* What is appended is the last element.
LEMMA AppendIs ==
    ASSUME NEW S, NEW b \in Seq(S), NEW y \in S
    PROVE  /\ Append(b, y) \in Seq(S) /\ Len(Append(b, y)) = Len(b) + 1
           /\ Append(b, y)[Len(b) + 1] = y
           /\ \A i \in 1 .. Len(b) : Append(b, y)[i] = b[i]
OBVIOUS

\* See AppendIs.
LEMMA AppendOne ==
    ASSUME NEW S, NEW x \in S, NEW y \in S
    PROVE  Append(<<x>>, y) = <<x, y>>
<1>1. PICK b, u, n : b = <<x>> /\ u = Append(b, y) /\ n = Len(b)
  OBVIOUS
<1>2. b \in Seq(S) /\ n = 1 /\ b[1] = x
  BY <1>1
<1>3. u \in Seq(S) /\ Len(u) = n + 1 /\ u[n + 1] = y /\ \A i \in 1 .. n : u[i] = b[i]
  BY <1>1, <1>2, AppendIs
<1>4. 1 \in 1 .. n /\ n + 1 = 2
  BY <1>2
<1>5. u \in Seq(S) /\ Len(u) = 2 /\ u[1] = x /\ u[2] = y
  BY ONLY <1>2, <1>3, <1>4
<1> QED BY <1>1, <1>5, TwoElements

\* The request is the payload of its two members.
RequestMarks == {Opening, Ending, Comma, AColon, Quote, "text", "sample_rate"}
Request(t, n) == <<Member("text", append_json_string(t), t), Member("sample_rate", Decimal(n), Missing)>>
LEMMA RequestIs ==
    ASSUME NEW S, RequestMarks \subseteq S, NEW t, append_json_string(t) \in Seq(S), NEW n, Decimal(n) \in Seq(S)
    PROVE  build_tts_request(t, n) = Payload(Request(t, n), FALSE)
<1>1. PICK w, d, ka, kb : w = append_json_string(t) /\ d = Decimal(n) /\ ka = "text" /\ kb = "sample_rate"
  OBVIOUS
<1>2. PICK o, e, c, fa, fb : o = <<Opening>> /\ e = <<Ending>> /\ c = <<Comma>> /\ fa = KeyPart(ka) /\ fb = KeyPart(kb)
  OBVIOUS
<1>3. w \in Seq(S) /\ d \in Seq(S) /\ ka \in S /\ kb \in S
  BY <1>1, Zenon DEF RequestMarks
<1>4. Opening \in S /\ Ending \in S /\ Comma \in S /\ AColon \in S /\ Quote \in S
  BY Zenon DEF RequestMarks
<1>5. o \in Seq(S) /\ e \in Seq(S) /\ c \in Seq(S) /\ fa \in Seq(S) /\ fb \in Seq(S)
  BY <1>2, <1>3, <1>4 DEF KeyPart
<1>6. build_tts_request(t, n) = o \o (fa \o w) \o c \o (fb \o d) \o e
  BY <1>1, <1>2, Zenon DEF build_tts_request, Field, KeyPart, Opening, Ending, Comma, AColon
<1>7. PICK P, x, y : P = Pieces(Request(t, n), <<>>) /\ x = fa \o w /\ y = c \o (fb \o d)
  OBVIOUS
<1>8. x \in Seq(S) /\ y \in Seq(S) /\ fb \o d \in Seq(S)
  BY <1>5, <1>3, <1>7, ConcatFacts
<1>9. P = <<x, y>>
  <2>1. PICK ms, ma, mb : /\ ms = Request(t, n) /\ ma = Member(ka, w, t) /\ mb = Member(kb, d, Missing)
    OBVIOUS
  <2>2. ms = <<ma, mb>>
    BY <1>1, <2>1, Zenon DEF Request
  <2>3. ma.key = ka /\ ma.written = w /\ mb.key = kb /\ mb.written = d
    BY <2>1 DEF Member
  <2>4. MemberPiece(Lead(1, <<>>), ka, <<>>, w) = x
    <3>1. fa \o <<>> = fa /\ <<>> \o x = x
      BY <1>5, <1>8, ConcatNone
    <3>2. Lead(1, <<>>) = <<>>
      BY DEF Lead
    <3>3. MemberPiece(Lead(1, <<>>), ka, <<>>, w) = <<>> \o (fa \o <<>> \o w)
      BY <1>2, <3>2, Zenon DEF MemberPiece
    <3> QED BY <1>7, <3>1, <3>3
  <2>5. MemberPiece(Lead(2, <<>>), kb, <<>>, d) = y
    <3>1. fb \o <<>> = fb /\ c \o <<>> = c
      BY <1>5, ConcatNone
    <3>2. Lead(2, <<>>) = c \o <<>>
      BY <1>2 DEF Lead
    <3>3. MemberPiece(Lead(2, <<>>), kb, <<>>, d) = c \o <<>> \o (fb \o <<>> \o d)
      BY <1>2, <3>2, Zenon DEF MemberPiece
    <3> QED BY <1>7, <3>1, <3>3
  <2>6. Len(ms) = 2 /\ ms[1] = ma /\ ms[2] = mb
    BY <2>2
  <2>7. P = [ i \in 1 .. 2 |-> MemberPiece(Lead(i, <<>>), ms[i].key, <<>>, ms[i].written) ]
    BY <1>7, <2>1, <2>6, Zenon DEF Pieces
  <2>8. P[1] = x /\ P[2] = y
    BY <2>3, <2>4, <2>5, <2>6, <2>7
  <2>9. P \in Seq({x, y}) /\ Len(P) = 2
    <3>1. \A i \in 1 .. 2 : i = 1 \/ i = 2
      OBVIOUS
    <3>2. DOMAIN P = 1 .. 2 /\ \A i \in 1 .. 2 : P[i] \in {x, y}
      BY <2>7, <2>8, <3>1
    <3>3. P = [ i \in 1 .. 2 |-> P[i] ]
      BY <2>7
    <3> QED BY <3>2, <3>3
  <2> QED BY <2>8, <2>9, TwoElements
<1>10. FlattenSeq(P) = x \o y
  <2>1. PICK a, b : a = <<>> /\ b = Append(a, x) /\ a \in Seq(Seq(S)) /\ Len(a) = 0
    <3>1. <<>> \in Seq(Seq(S)) /\ Len(<<>>) = 0
      OBVIOUS
    <3> QED BY <3>1
  <2>2. b \in Seq(Seq(S)) /\ Len(b) = 1 /\ b[1] = x
    BY <1>8, <2>1
  <2>3. FlattenSeq(b) = x
    <3>1. FlattenSeq(b) = FlattenSeq(a) \o x
      BY <1>8, <2>1, FlattenPiece
    <3>2. FlattenSeq(a) = <<>>
      BY <2>1, FlattenNone
    <3> QED BY <1>8, <3>1, <3>2, ConcatNone
  <2>4. Append(b, y) = P
    <3>1. b \in Seq(Seq(S)) /\ Len(b) = 1 /\ y \in Seq(S)
      BY <1>8, <2>2
    <3>2. b = <<x>>
      BY <2>2, OneElement
    <3>3. Append(<<x>>, y) = <<x, y>>
      BY <1>8, AppendOne
    <3> QED BY <1>9, <3>2, <3>3
  <2> QED BY <1>8, <2>2, <2>3, <2>4, FlattenPiece
<1>11. Payload(Request(t, n), FALSE) = o \o (x \o y) \o e
  <2>1. Blanks(FALSE) = <<>>
    BY DEF Blanks
  <2> QED BY <1>2, <1>7, <1>10, <2>1, PayloadIs, Zenon DEF Wrapped
<1>12. o \o x \o c \o (fb \o d) = o \o (x \o y)
  <2>1. PICK z : z = fb \o d /\ z \in Seq(S)
    BY <1>8
  <2>2. y = c \o z
    BY <1>7, <2>1
  <2>3. PICK u : u = o \o x /\ u \in Seq(S)
    BY <1>5, <1>8, ConcatFacts
  <2>4. (u \o c) \o z = u \o (c \o z)
    <3>1. u \in Seq(S) /\ c \in Seq(S) /\ z \in Seq(S)
      BY <1>5, <2>1, <2>3
    <3> QED BY ONLY <3>1, ConcatAssoc
  <2>5. (o \o x) \o y = o \o (x \o y)
    <3>1. o \in Seq(S) /\ x \in Seq(S) /\ y \in Seq(S)
      BY <1>5, <1>8
    <3> QED BY ONLY <3>1, ConcatAssoc
  <2> QED BY <2>1, <2>2, <2>3, <2>4, <2>5
<1> QED BY <1>6, <1>7, <1>11, <1>12

\* A value of which there is one is found.
LEMMA RawTold ==
    ASSUME NEW p, NEW ms, Holding(p, ms), NEW i \in 1 .. Len(ms), \A j \in 1 .. Len(ms) : ms[j].key = ms[i].key => j = i
    PROVE  json_raw(p, ms[i].key) = ms[i].written
<1>1. PICK key, es, I, n : key = ms[i].key /\ es = Entries(p) /\ I = Owners(ms, key) /\ n = Len(ms)
  OBVIOUS
<1>2. n \in Nat /\ es = Told(ms)
  BY <1>1 DEF Holding
<1>3. Places(es, key) = I /\ \A x \in I : es[x].value = ms[x].written
  BY <1>1, <1>2, ToldIs
<1>4. i \in I /\ i \in Nat /\ \A x \in I : x = i
  BY <1>1, <1>2 DEF Owners
<1>5. \A x \in I : i <= x
  BY <1>4
<1>6. json_raw(p, key) = es[i].value
  BY <1>1, <1>3, <1>4, <1>5, RawIs
<1> QED BY <1>1, <1>3, <1>4, <1>6

\* Whatever the text and the number, the request gives them back.
THEOREM RequestRead ==
    ASSUME NEW t \in Seq(SentSymbols), Whole(t), NEW n \in Nat
    PROVE  /\ json_string(build_tts_request(t, n), "text") = t
           /\ json_u32(build_tts_request(t, n), "sample_rate") = n
<1>1. PICK S, w, d, ka, kb : S = SentSymbols /\ w = append_json_string(t) /\ d = Decimal(n) /\ ka = "text" /\ kb = "sample_rate"
  OBVIOUS
<1>2. /\ ka \in S \ {Quote, Bs} /\ kb \in S \ {Quote, Bs} /\ ka # kb /\ Quote \in S
      /\ RequestMarks \subseteq S /\ Marks \subseteq S /\ Blank \subseteq S
      /\ AColon \in S /\ Comma \in S /\ Opening \in S /\ Ending \in S
  <2>1. ka \in SentKeys /\ kb \in SentKeys /\ ka # kb
    BY <1>1, Zenon DEF SentKeys
  <2>2. SentKeys \subseteq S /\ ka \notin {Quote, Bs} /\ kb \notin {Quote, Bs} /\ Quote \in S
    BY <1>1, <2>1, SentSymbolsAre, NamesAre
  <2>3. AColon \in S /\ Comma \in S /\ Opening \in S /\ Ending \in S
    BY <1>1, SentSymbolsAre, Zenon DEF SentMarks
  <2>4. RequestMarks \subseteq S
    <3>1. ka \in S /\ kb \in S
      BY <2>1, <2>2
    <3> QED BY <1>1, <2>2, <2>3, <3>1, Zenon DEF RequestMarks
  <2>5. Marks \subseteq S /\ Blank \subseteq S
    BY <1>1, SentSymbolsAre
  <2> QED BY <2>1, <2>2, <2>3, <2>4, <2>5
<1>3. IsWritten(w, t, S)
  BY <1>1, <1>2, DeviceWrites
<1>4. w \in Seq(S)
  BY <1>2, <1>3, StringScans
<1>5. d \in Seq(Tens) /\ d # <<>>
  BY <1>1, DecimalIs DEF Means10
<1>6. d \in Seq(InNumber) /\ d \in Seq(S) /\ d[1] # Quote
  <2>1. Tens \subseteq InNumber /\ InNumber \subseteq S
    BY <1>1, NumberSymbols, SentSymbolsAre
  <2>2. d \in Seq(InNumber) /\ d[1] \in InNumber
    BY <1>5, <2>1
  <2> QED BY <2>1, <2>2, NumberSymbols
<1>7. PICK ma, mb, ms : ma = Member(ka, w, t) /\ mb = Member(kb, d, Missing) /\ ms = <<ma, mb>>
  OBVIOUS
<1>8. WellMeant(S, ma)
  BY <1>1, <1>2, <1>3, <1>7, StringMember
<1>9. WellMeant(S, mb)
  BY <1>2, <1>5, <1>6, <1>7, NumberScans, PlainMember
<1>10. ma.key = ka /\ ma.written = w /\ ma.meant = t /\ mb.key = kb /\ mb.written = d /\ mb.meant = Missing
  BY <1>7 DEF Member
<1>11. Len(ms) = 2 /\ ms[1] = ma /\ ms[2] = mb /\ ms \in Seq({ma, mb})
  BY <1>7
<1>12. \A i \in 1 .. 2 : i = 1 \/ i = 2
  OBVIOUS
<1>13. \A i \in 1 .. Len(ms) : WellMeant(S, ms[i])
  BY <1>8, <1>9, <1>11, <1>12, Zenon
<1>14. WellTold(S, ms) /\ Meanings(ms)
  <2>1. \A i \in 1 .. Len(ms) : /\ ms[i].key \in S /\ ms[i].key \notin {Quote, Bs}
                                /\ ms[i].written \in Seq(S) /\ Scans(ms[i].written)
                                /\ Meaning(ms[i].written) = ms[i].meant
    BY <1>13 DEF WellMeant
  <2>2. Len(ms) \in Nat
    BY <1>11
  <2> QED BY <1>2, <2>1, <2>2 DEF WellTold, Meanings
<1>15. PICK p : p = build_tts_request(t, n)
  OBVIOUS
<1>16. p = Payload(ms, FALSE)
  <2>1. Request(t, n) = ms
    BY <1>1, <1>7, Zenon DEF Request
  <2>2. append_json_string(t) \in Seq(S) /\ Decimal(n) \in Seq(S)
    BY <1>1, <1>4, <1>6
  <2>3. build_tts_request(t, n) = Payload(Request(t, n), FALSE)
    BY <1>2, <2>2, RequestIs
  <2> QED BY <1>15, <2>1, <2>3
<1>17. Holding(p, ms)
  <2>1. Entries(p) = Told(ms)
    BY <1>2, <1>11, <1>14, <1>16, PayloadTold
  <2> QED BY <1>11, <2>1 DEF Holding
<1>18. json_raw(p, ka) = w /\ json_raw(p, kb) = d
  <2>1. \A j \in 1 .. Len(ms) : ms[j].key = ms[1].key => j = 1
    BY <1>2, <1>10, <1>11, <1>12
  <2>2. \A j \in 1 .. Len(ms) : ms[j].key = ms[2].key => j = 2
    BY <1>2, <1>10, <1>11, <1>12
  <2>3. 1 \in 1 .. Len(ms) /\ 2 \in 1 .. Len(ms)
    BY <1>11
  <2>4. json_raw(p, ms[1].key) = ms[1].written
    BY <1>17, <2>1, <2>3, RawTold
  <2>5. json_raw(p, ms[2].key) = ms[2].written
    BY <1>17, <2>2, <2>3, RawTold
  <2> QED BY <1>10, <1>11, <2>4, <2>5
<1>19. json_string(p, ka) = t
  <2>1. Meaning(w) = t
    BY <1>8, <1>10 DEF WellMeant
  <2> QED BY <1>18, <2>1, StringIs
<1>20. json_u32(p, kb) = n
  BY <1>1, <1>18, NumberRead
<1> QED BY <1>1, <1>15, <1>19, <1>20, Zenon

-----------------------------------------------------------------------------
(* Texts between two quotes.                                               *)

\* What json_raw finds is part of the payload.
LEMMA RawTyped ==
    ASSUME NEW S, NEW p \in Seq(S), NEW key
    PROVE  json_raw(p, key) = Missing \/ json_raw(p, key) \in Seq(S)
<1>1. PICK es, I : es = Entries(p) /\ I = Places(es, key)
  OBVIOUS
<1>2. es \in Seq([ key : Seq(S), value : Seq(S) ])
  BY <1>1, EntriesTyped
<1>3. CASE I = {}
  BY <1>1, <1>3, RawIs
<1>4. CASE I # {}
  <2>1. PICK i : i \in I /\ \A j \in I : i <= j
    BY <1>1, <1>4, RawIs
  <2>2. json_raw(p, key) = es[i].value
    BY <1>1, <2>1, RawIs
  <2>3. i \in 1 .. Len(es)
    BY <1>1, <2>1 DEF Places
  <2>4. es[i] \in [ key : Seq(S), value : Seq(S) ]
    <3>1. PICK T : T = [ key : Seq(S), value : Seq(S) ]
      OBVIOUS
    <3>2. es \in Seq(T)
      BY <1>2, <3>1
    <3>3. es[i] \in T
      BY ONLY <2>3, <3>2
    <3> QED BY <3>1, <3>3
  <2> QED BY <2>2, <2>4
<1> QED BY <1>3, <1>4

\* What json_string puts out is a sequence.
LEMMA TextTyped ==
    ASSUME NEW S, NEW p \in Seq(S), NEW key
    PROVE  json_string(p, key) = Missing \/ Len(json_string(p, key)) \in Nat
<1>1. PICK raw : raw = json_raw(p, key)
  OBVIOUS
<1>2. json_string(p, key) = Meaning(raw)
  BY <1>1, StringIs
<1>3. CASE raw = Missing \/ raw[1] # Quote
  BY <1>2, <1>3, Zenon DEF Meaning
<1>4. CASE raw # Missing /\ raw[1] = Quote
  <2>1. raw \in Seq(S)
    BY <1>1, <1>4, RawTyped
  <2>2. PICK s : s = SubSeq(raw, 2, Len(raw) - 1)
    OBVIOUS
  <2>3. s \in Seq(S)
    BY <2>1, <2>2
  <2>4. PICK R : R = S \union Signs \union {"L", "C", "stuck"}
    OBVIOUS
  <2>5. 1 \in 1 .. Len(s) + 1
    BY <2>3
  <2>6. Sense(s)[1] \in Seq(R)
    BY <2>3, <2>4, <2>5, SenseIs
  <2>7. json_string(p, key) = Sense(s)[1]
    BY <1>2, <1>4, <2>2, UnescapeIs, Zenon DEF Meaning
  <2> QED BY <2>6, <2>7
<1> QED BY <1>3, <1>4

\* Whatever stands between the quotes, no half of a character comes out.
WholeText(t) ==
    \A i \in 1 .. Len(t) :
        /\ t[i] # "stuck"
        /\ t[i] = "L" => At(t, i + 1, "C")
        /\ t[i] = "C" => At(t, i - 1, "L")
LEMMA TextWhole ==
    ASSUME NEW S, NEW p \in Seq(S), "stuck" \notin S, NEW key
    PROVE  WholeText(json_string(p, key))
<1>1. PICK t : t = json_string(p, key)
  OBVIOUS
<1>2. CASE t = Missing
  <2>1. Len(t) = 1 /\ t[1] = "missing"
    BY <1>2 DEF Missing
  <2>2. \A i \in 1 .. 1 : i = 1
    OBVIOUS
  <2> QED BY <1>1, <2>1, <2>2 DEF WholeText
<1>3. CASE Len(t) \in Nat /\ Whole(t)
  <2>1. ASSUME NEW i \in 1 .. Len(t)
        PROVE  t[i] # "stuck" /\ (t[i] = "L" => At(t, i + 1, "C")) /\ (t[i] = "C" => At(t, i - 1, "L"))
    <3>1. /\ t[i] # "stuck"
          /\ t[i] = "L" => i < Len(t) /\ t[i + 1] = "C"
          /\ t[i] = "C" => 1 < i /\ t[i - 1] = "L"
      BY <1>3, <2>1 DEF Whole
    <3>2. (i < Len(t) => i + 1 \in 1 .. Len(t)) /\ (1 < i => i - 1 \in 1 .. Len(t))
      BY <1>3
    <3> QED BY <3>1, <3>2 DEF At
  <2> QED BY <1>1, <2>1 DEF WholeText
<1> QED BY <1>1, <1>2, <1>3, TextTyped, StringsWhole

\* What stands between the quotes.
Between == {Quote, Bs, "u", "0", "d", "8", "L", "C", "n"}
Loose == Between \union {Opening, Ending, AColon, "text"}
LEMMA LooseIs == "stuck" \notin Loose /\ Quote \in Loose /\ Between \subseteq Loose
BY Zenon DEF Loose, Between, Quote, Bs, Opening, Ending, AColon

\* The payload around it.
Around(t) == <<Opening, Quote, "text", Quote, AColon, Quote>> \o t \o <<Quote, Ending>>
LEMMA AroundTyped == ASSUME NEW t \in Seq(Between) PROVE Around(t) \in Seq(Loose)
<1>1. PICK k : k = "text"
  OBVIOUS
<1>2. Opening \in Loose /\ Ending \in Loose /\ AColon \in Loose /\ k \in Loose /\ Quote \in Loose
  BY <1>1, LooseIs, Zenon DEF Loose
<1>3. PICK a, b : a = <<Opening, Quote, k, Quote, AColon, Quote>> /\ b = <<Quote, Ending>>
  OBVIOUS
<1>4. a \in Seq(Loose) /\ b \in Seq(Loose) /\ t \in Seq(Loose)
  BY <1>2, <1>3, LooseIs
<1>5. (a \o t) \o b \in Seq(Loose)
  <2>1. a \o t \in Seq(Loose)
    BY ONLY <1>4, ConcatFacts
  <2>2. PICK c : c = a \o t
    OBVIOUS
  <2> QED BY <1>4, <2>1, <2>2, ConcatFacts
<1>6. Around(t) = (a \o t) \o b
  BY <1>1, <1>3, Zenon DEF Around
<1> QED BY <1>5, <1>6

\* What there is to read back: whole text, and anything between quotes.
Dictated ==
    /\ subject = "text" => item \in Seq(SentSymbols) /\ Whole(item)
    /\ subject = "literal" => item \in Seq(Between)

\* The characters that are added.
Chars == {<<"a">>, <<Quote>>, <<Bs>>, <<"nl">>, <<"ctl">>, <<"L", "C">>, <<Ending>>}
LEMMA CharsAre == \A s \in Chars : s \in Seq(SentSymbols) /\ Whole(s)
<1> SUFFICES ASSUME NEW s \in Chars PROVE s \in Seq(SentSymbols) /\ Whole(s)
  OBVIOUS
<1>1. {"a", "L", "C", "nl", "ctl"} \subseteq SentSymbols /\ Ending \in SentSymbols /\ Quote \in SentSymbols /\ Bs \in SentSymbols
  BY SentSymbolsAre, NamesAre, Zenon DEF SentLetters, SentMarks
<1>2. CASE s = <<"L", "C">>
  BY <1>1, <1>2, WholePair
<1>3. CASE \E c \in {"a", Quote, Bs, "nl", "ctl", Ending} : s = <<c>>
  <2>1. PICK c : c \in {"a", Quote, Bs, "nl", "ctl", Ending} /\ s = <<c>>
    BY <1>3
  <2>2. c \in SentSymbols
    BY <1>1, <2>1
  <2>3. c \notin {"stuck", "L", "C"}
    BY <2>1, Zenon DEF Quote, Bs, Ending
  <2> QED BY <2>1, <2>2, <2>3, WholeOne
<1> QED BY <1>2, <1>3, Zenon DEF Chars

\* See TextDecoded.
THEOREM TextReadBack == Spec => []TextDecoded
<1>1. Init => Dictated
  <2> SUFFICES ASSUME Init PROVE Dictated
    OBVIOUS
  <2>1. subject = "text" \/ subject = "literal" => item = <<>>
    BY Zenon DEF Init
  <2>2. <<>> \in Seq(SentSymbols) /\ <<>> \in Seq(Between) /\ Whole(<<>>)
    BY WholePair
  <2> QED BY <2>1, <2>2 DEF Dictated
<1>2. Dictated /\ [Next]_vars => Dictated'
  <2> SUFFICES ASSUME Dictated, [Next]_vars PROVE Dictated'
    OBVIOUS
  <2>1. CASE AddChar
    <3>1. PICK s : s \in Chars /\ item' = item \o s /\ subject = "text" /\ subject' = subject
      BY <2>1, Zenon DEF AddChar, Longer, Chars, Ending
    <3>2. item \in Seq(SentSymbols) /\ Whole(item) /\ s \in Seq(SentSymbols) /\ Whole(s)
      BY <3>1, CharsAre DEF Dictated
    <3>3. item \o s \in Seq(SentSymbols) /\ Whole(item \o s)
      BY <3>2, ConcatFacts, WholeConcat
    <3> QED BY <3>1, <3>3 DEF Dictated
  <2>2. CASE AddSymbol
    <3>1. PICK s : /\ s \in {<<Quote>>, <<Bs>>, <<"u">>, <<"0">>, <<"d">>, <<"8">>, <<"L">>, <<"C">>, <<"n">>}
                   /\ item' = item \o s /\ subject = "literal" /\ subject' = subject
      BY <2>2, Zenon DEF AddSymbol, Longer
    <3>2. PICK c : c \in Between /\ s = <<c>>
      BY <3>1 DEF Between
    <3>3. item \in Seq(Between) /\ s \in Seq(Between)
      BY <3>1, <3>2 DEF Dictated
    <3>4. item \o s \in Seq(Between)
      BY <3>3, ConcatFacts
    <3> QED BY <3>1, <3>4 DEF Dictated
  <2>3. CASE AddMember \/ AddByte \/ Configure \/ AddCertificate \/ AddExtension
    BY <2>3 DEF AddMember, AddByte, Longer, Configure, AddCertificate, AddExtension, Dictated
  <2>4. CASE UNCHANGED vars
    BY <2>4 DEF vars, Dictated
  <2> QED BY <2>1, <2>2, <2>3, <2>4 DEF Next
<1>3. Dictated => TextDecoded
  <2> SUFFICES ASSUME Dictated PROVE TextDecoded
    OBVIOUS
  <2>1. SPK_SAMPLE_RATE \in Nat
    BY DEF SPK_SAMPLE_RATE
  <2>2. subject = "literal" => WholeText(json_string(Around(item), "text"))
    BY AroundTyped, LooseIs, TextWhole DEF Dictated
  <2>3. subject = "literal" =>
          LET t == json_string(<<"{", Quote, "text", Quote, ":", Quote>> \o item \o <<Quote, "}">>, "text")
          IN \A i \in 1 .. Len(t) :
                /\ t[i] # "stuck"
                /\ t[i] = "L" => At(t, i + 1, "C")
                /\ t[i] = "C" => At(t, i - 1, "L")
    BY <2>2, Zenon DEF WholeText, Around, Opening, Ending, AColon
  <2>4. subject = "text" => /\ json_string(build_tts_request(item, SPK_SAMPLE_RATE), "text") = item
                            /\ json_u32(build_tts_request(item, SPK_SAMPLE_RATE), "sample_rate") = SPK_SAMPLE_RATE
    BY <2>1, RequestRead DEF Dictated
  <2> QED BY <2>3, <2>4, Zenon DEF TextDecoded
<1> QED BY <1>1, <1>2, <1>3, PTL DEF Spec
=============================================================================
