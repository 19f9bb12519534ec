---------------------------- MODULE StreamLemmas ----------------------------
(***************************************************************************)
(* Lemmas about sequences for the proofs about streams and folds:          *)
(* positions in a concatenation and in a piece of a sequence, induction    *)
(* for a set in the place of a property, and the recursion of FoldLeft.    *)
(***************************************************************************)
EXTENDS Integers, SequencesExt, TLAPS, WellFoundedInduction

\* A concatenation holds the first sequence and, behind it, the second.
LEMMA ConcatFacts ==
    ASSUME NEW S, NEW a \in Seq(S), NEW b \in Seq(S)
    PROVE  /\ a \o b \in Seq(S) /\ Len(a \o b) = Len(a) + Len(b)
           /\ \A i \in 1 .. Len(a) : (a \o b)[i] = a[i]
           /\ \A i \in 1 .. Len(b) : (a \o b)[Len(a) + i] = b[i]
<1>1. a \o b \in Seq(S) /\ Len(a \o b) = Len(a) + Len(b)
  OBVIOUS
<1>2. \A i \in 1 .. Len(a) : (a \o b)[i] = a[i]
  OBVIOUS
<1>3. \A i \in 1 .. Len(b) : (a \o b)[Len(a) + i] = b[i]
  <2> TAKE i \in 1 .. Len(b)
  <2>1. Len(a) \in Nat /\ Len(b) \in Nat
    OBVIOUS
  <2> QED BY <2>1
<1> QED BY <1>1, <1>2, <1>3

\* Sequences are equal, element by element.
LEMMA SameElements ==
    ASSUME NEW S, NEW s \in Seq(S), NEW t \in Seq(S), Len(s) = Len(t), \A i \in 1 .. Len(s) : s[i] = t[i]
    PROVE  s = t
OBVIOUS

\* A sequence made of two others.
LEMMA IsConcat ==
    ASSUME NEW S, NEW a \in Seq(S), NEW b \in Seq(S), NEW c \in Seq(S), Len(c) = Len(a) + Len(b),
           \A i \in 1 .. Len(a) : c[i] = a[i], \A i \in 1 .. Len(b) : c[Len(a) + i] = b[i]
    PROVE  c = a \o b
<1>1. /\ a \o b \in Seq(S) /\ Len(a \o b) = Len(a) + Len(b)
      /\ \A i \in 1 .. Len(a) : (a \o b)[i] = a[i]
      /\ \A i \in 1 .. Len(b) : (a \o b)[Len(a) + i] = b[i]
      /\ Len(a) \in Nat /\ Len(b) \in Nat
  BY ConcatFacts
<1>2. ASSUME NEW i \in 1 .. Len(c) PROVE c[i] = (a \o b)[i]
  <2>1. CASE i <= Len(a)
    <3>1. i \in 1 .. Len(a)
      BY <1>1, <2>1
    <3> QED BY <1>1, <3>1
  <2>2. CASE ~(i <= Len(a))
    <3>1. PICK j \in 1 .. Len(b) : i = Len(a) + j
      <4>1. i - Len(a) \in 1 .. Len(b) /\ i = Len(a) + (i - Len(a))
        BY <1>1, <2>2
      <4> QED BY <4>1
    <3> QED BY <1>1, <3>1
  <2> QED BY <2>1, <2>2
<1> QED BY <1>1, <1>2, SameElements

\* Append, to short sequences.
LEMMA PushedTo ==
    /\ \A a, b : Append(<<a>>, b) = <<a, b>>
    /\ \A a, b, d : Append(<<a, b>>, d) = <<a, b, d>>
    /\ \A a, b, d, e : Append(<<a, b, d>>, e) = <<a, b, d, e>>
    /\ \A a, b, d, e, f : Append(<<a, b, d, e>>, f) = <<a, b, d, e, f>>
<1>1. ASSUME NEW a, NEW b PROVE Append(<<a>>, b) = <<a, b>>
  <2>1. <<a>> \in Seq({a, b}) /\ <<a, b>> \in Seq({a, b})
    OBVIOUS
  <2>2. Append(<<a>>, b) \in Seq({a, b}) /\ Len(Append(<<a>>, b)) = 2
    BY <2>1
  <2>3. \A i \in 1 .. 2 : Append(<<a>>, b)[i] = <<a, b>>[i]
    BY <2>1
  <2> QED BY <2>1, <2>2, <2>3, SameElements
<1>2. ASSUME NEW a, NEW b, NEW d PROVE Append(<<a, b>>, d) = <<a, b, d>>
  <2>1. <<a, b>> \in Seq({a, b, d}) /\ <<a, b, d>> \in Seq({a, b, d})
    OBVIOUS
  <2>2. Append(<<a, b>>, d) \in Seq({a, b, d}) /\ Len(Append(<<a, b>>, d)) = 3
    BY <2>1
  <2>3. \A i \in 1 .. 3 : Append(<<a, b>>, d)[i] = <<a, b, d>>[i]
    BY <2>1
  <2> QED BY <2>1, <2>2, <2>3, SameElements
<1>3. ASSUME NEW a, NEW b, NEW d, NEW e PROVE Append(<<a, b, d>>, e) = <<a, b, d, e>>
  <2>1. <<a, b, d>> \in Seq({a, b, d, e}) /\ <<a, b, d, e>> \in Seq({a, b, d, e})
    OBVIOUS
  <2>2. Append(<<a, b, d>>, e) \in Seq({a, b, d, e}) /\ Len(Append(<<a, b, d>>, e)) = 4
    BY <2>1
  <2>3. \A i \in 1 .. 4 : Append(<<a, b, d>>, e)[i] = <<a, b, d, e>>[i]
    BY <2>1
  <2> QED BY <2>1, <2>2, <2>3, SameElements
<1>4. ASSUME NEW a, NEW b, NEW d, NEW e, NEW f PROVE Append(<<a, b, d, e>>, f) = <<a, b, d, e, f>>
  <2> DEFINE S == {a, b, d, e, f}
  <2>1. <<a, b, d, e>> \in Seq(S) /\ <<a, b, d, e, f>> \in Seq(S)
    OBVIOUS
  <2>2. Append(<<a, b, d, e>>, f) \in Seq(S) /\ Len(Append(<<a, b, d, e>>, f)) = 5
    BY <2>1
  <2>3. \A i \in 1 .. 5 : Append(<<a, b, d, e>>, f)[i] = <<a, b, d, e, f>>[i]
    BY <2>1
  <2> QED BY <2>1, <2>2, <2>3, SameElements
<1> QED BY <1>1, <1>2, <1>3, <1>4

\* The n elements behind the first m.
LEMMA SubSeqFacts ==
    ASSUME NEW S, NEW s \in Seq(S), NEW m \in Nat, NEW n \in Nat, m + n <= Len(s)
    PROVE  /\ SubSeq(s, m + 1, m + n) \in Seq(S) /\ Len(SubSeq(s, m + 1, m + n)) = n
           /\ \A i \in 1 .. n : SubSeq(s, m + 1, m + n)[i] = s[m + i]
<1>1. Len(SubSeq(s, m + 1, m + n)) = n
  OBVIOUS
<1>2. SubSeq(s, m + 1, m + n) \in Seq(S)
  OBVIOUS
<1>3. \A i \in 1 .. n : SubSeq(s, m + 1, m + n)[i] = s[m + i]
  OBVIOUS
<1> QED BY <1>1, <1>2, <1>3

\* A piece that lies within a sequence of length n.
LEMMA Within ==
    ASSUME NEW a \in Nat, NEW b \in Nat, NEW n \in Nat, a + b <= n
    PROVE  \A i \in 1 .. b : a + i \in 1 .. n
  OBVIOUS

\* A part of what fits, fits.
LEMMA PartFits ==
    ASSUME NEW a \in Nat, NEW b \in Nat, NEW n \in Nat, a + b <= n
    PROVE  a <= n
  OBVIOUS

\* An element of a sequence.
LEMMA ElementFacts ==
    ASSUME NEW S, NEW s \in Seq(S), NEW i \in DOMAIN s
    PROVE  s[i] \in S /\ i \in 1 .. Len(s)
  OBVIOUS

\* IsPrefix, element by element.
LEMMA PrefixByElements ==
    ASSUME NEW S, NEW s \in Seq(S), NEW t \in Seq(S), Len(s) <= Len(t),
           \A i \in 1 .. Len(s) : s[i] = t[i]
    PROVE  IsPrefix(s, t)
<1>1. /\ SubSeq(s, 1, Len(s)) \in Seq(S) /\ Len(SubSeq(s, 1, Len(s))) = Len(s)
      /\ \A i \in 1 .. Len(s) : SubSeq(s, 1, Len(s))[i] = s[i]
  OBVIOUS
<1>2. /\ SubSeq(t, 1, Len(s)) \in Seq(S) /\ Len(SubSeq(t, 1, Len(s))) = Len(s)
      /\ \A i \in 1 .. Len(s) : SubSeq(t, 1, Len(s))[i] = t[i]
  OBVIOUS
<1>3. SubSeq(s, 1, Len(s)) = SubSeq(t, 1, Len(s))
  BY <1>1, <1>2
<1> QED BY <1>3 DEF IsPrefix

-----------------------------------------------------------------------------
(* Induction and folds.                                                    *)

\* A set of numbers has a least one.
LEMMA Least ==
    ASSUME NEW T, T \subseteq Nat, T # {}
    PROVE  \E x \in T : \A y \in T : x <= y
<1>1. PICK x \in T : \A y \in T : ~(<<y, x>> \in OpToRel(<, Nat))
  BY WFMin, NatLessThanWellFounded
<1>2. ASSUME NEW y \in T PROVE x <= y
  <2>1. x \in Nat /\ y \in Nat /\ ~(y < x)
    BY <1>1 DEF OpToRel
  <2> QED BY <2>1
<1> QED BY <1>2

\* Induction, for a set in the place of a property.
LEMMA Induct ==
    ASSUME NEW T, T \subseteq Nat, 0 \in T, \A n \in T : n + 1 \in T
    PROVE  T = Nat
<1> DEFINE C == Nat \ T
<1>1. SUFFICES ASSUME C # {} PROVE FALSE
  OBVIOUS
<1>2. PICK x \in C : \A y \in C : x <= y
  BY <1>1, Least
<1>3. x # 0 /\ x - 1 \in Nat
  OBVIOUS
<1>4. x - 1 \in T
  BY <1>2, <1>3
<1> QED BY <1>3, <1>4

\* The largest of some of the numbers up to n.
LEMMA Topmost ==
    ASSUME NEW n \in Nat, NEW s \in SUBSET (0 .. n), s # {}
    PROVE  Max(s) \in s /\ \A y \in s : y <= Max(s)
<1> DEFINE T == { n - y : y \in s }
<1>1. T \subseteq Nat /\ T # {}
  <2>1. ASSUME NEW y \in s PROVE n - y \in Nat
    <3>1. y \in 0 .. n
      OBVIOUS
    <3> QED BY <3>1
  <2> QED BY <2>1
<1>2. PICK t \in T : \A u \in T : t <= u
  BY <1>1, Least
<1>3. PICK x \in s : t = n - x
  BY <1>2
<1>4. ASSUME NEW y \in s PROVE x >= y
  <2>1. n - x <= n - y
    BY <1>2, <1>3
  <2> QED BY <2>1
<1>5. Max(s) \in s /\ \A y \in s : Max(s) >= y
  BY <1>4 DEF Max
<1>6. ASSUME NEW y \in s PROVE y <= Max(s)
  <2>1. Max(s) \in 0 .. n /\ y \in 0 .. n /\ Max(s) >= y
    BY <1>5
  <2> QED BY <2>1
<1> QED BY <1>5, <1>6

\* See Topmost.
LEMMA MaxOf ==
    ASSUME NEW n \in Nat, NEW s \in SUBSET (1 .. n), s # {}
    PROVE  Max(s) \in s /\ \A y \in s : y <= Max(s)
<1>1. s \in SUBSET (0 .. n)
  OBVIOUS
<1> QED BY <1>1, Topmost

\* The recursion by which FoldLeft is defined, over the sets of positions, for
\* a function in the place of the operator.
Folds(h, base, n, step) ==
    \A s \in SUBSET (1 .. n) :
        h[s] = IF s = {} THEN base ELSE step[<<Max(s), h[s \ {Max(s)}]>>]

\* The values a fold goes through, one for each element, from base to end.
Traces(g, base, end, n, step) ==
    g[0] = base /\ g[n] = end /\ \A i \in 1 .. n : g[i] = step[<<i, g[i - 1]>>]

\* The recursion has a solution.
LEMMA FoldExists ==
    ASSUME NEW A, NEW base \in A, NEW n \in Nat, NEW step \in [ (1 .. n) \X A -> A ]
    PROVE  \E h \in [ SUBSET (1 .. n) -> A ] : Folds(h, base, n, step)
<1> DEFINE Sol(h, m) == \A s \in SUBSET (1 .. m) :
                            h[s] = IF s = {} THEN base ELSE step[<<Max(s), h[s \ {Max(s)}]>>]
           T == { m \in Nat : m <= n => \E h \in [ SUBSET (1 .. m) -> A ] : Sol(h, m) }
<1>1. 0 \in T
  <2> DEFINE h == [ s \in SUBSET (1 .. 0) |-> base ]
  <2>1. h \in [ SUBSET (1 .. 0) -> A ] /\ Sol(h, 0)
    OBVIOUS
  <2> QED BY <2>1
<1>2. ASSUME NEW m \in T PROVE m + 1 \in T
  <2>1. CASE m + 1 <= n
    <3>1. PICK h \in [ SUBSET (1 .. m) -> A ] : Sol(h, m)
      <4> HIDE DEF Sol
      <4>1. m \in Nat /\ (m <= n => \E h \in [ SUBSET (1 .. m) -> A ] : Sol(h, m))
        OBVIOUS
      <4>2. m <= n
        BY <2>1, <4>1
      <4> QED BY <4>1, <4>2
    <3> DEFINE k == m + 1
               g == [ s \in SUBSET (1 .. k) |-> IF k \in s THEN step[<<k, h[s \ {k}]>>] ELSE h[s] ]
    <3>2. m \in Nat /\ k \in 1 .. n
      BY <2>1
    <3> HIDE DEF Sol
    <3>3. ASSUME NEW s \in SUBSET (1 .. k)
          PROVE  /\ s \ {k} \in SUBSET (1 .. m)
                 /\ k \notin s => s \in SUBSET (1 .. m) /\ g[s] = h[s]
                 /\ k \in s => g[s] = step[<<k, h[s \ {k}]>>] /\ Max(s) = k
      <4>1. ASSUME NEW x \in s, x # k PROVE x \in 1 .. m
        <5>1. x \in 1 .. (m + 1) /\ x # m + 1
          BY <4>1
        <5> QED BY <5>1, <3>2
      <4>2. s \ {k} \in SUBSET (1 .. m)
        BY <4>1
      <4>3. ASSUME k \notin s PROVE s \in SUBSET (1 .. m)
        BY <4>1, <4>3
      <4>4. ASSUME k \in s PROVE Max(s) = k
        <5>1. s # {} /\ k \in Nat
          BY <4>4, <3>2
        <5>2. Max(s) \in s /\ k <= Max(s)
          BY <5>1, <4>4, MaxOf
        <5>3. Max(s) \in 1 .. k
          BY <5>2
        <5> QED BY <5>1, <5>2, <5>3
      <4> QED BY <4>2, <4>3, <4>4
    <3>4. g \in [ SUBSET (1 .. k) -> A ]
      <4>1. ASSUME NEW s \in SUBSET (1 .. k)
            PROVE  (IF k \in s THEN step[<<k, h[s \ {k}]>>] ELSE h[s]) \in A
        <5>1. CASE k \in s
          <6>1. h[s \ {k}] \in A
            BY <3>1, <3>3
          <6>2. <<k, h[s \ {k}]>> \in (1 .. n) \X A
            BY <6>1, <3>2
          <6> QED BY <5>1, <6>2
        <5>2. CASE k \notin s
          BY <3>1, <3>3, <5>2
        <5> QED BY <5>1, <5>2
      <4> QED BY <4>1
    <3> HIDE DEF g
    <3>5. ASSUME NEW s \in SUBSET (1 .. k)
          PROVE  g[s] = IF s = {} THEN base ELSE step[<<Max(s), g[s \ {Max(s)}]>>]
      <4>1. CASE k \in s
        <5>1. s \ {k} \in SUBSET (1 .. k) /\ k \notin s \ {k}
          OBVIOUS
        <5>2. g[s \ {k}] = h[s \ {k}]
          BY <5>1, <3>3
        <5> QED BY <4>1, <5>2, <3>3
      <4>2. CASE k \notin s /\ s # {}
        <5>1. s \in SUBSET (1 .. m) /\ g[s] = h[s]
          BY <4>2, <3>3
        <5>2. Max(s) \in s
          BY <4>2, <5>1, <3>2, MaxOf
        <5>3. s \ {Max(s)} \in SUBSET (1 .. k) /\ k \notin s \ {Max(s)}
          BY <4>2
        <5>4. g[s \ {Max(s)}] = h[s \ {Max(s)}]
          BY <5>3, <3>3
        <5>5. h[s] = step[<<Max(s), h[s \ {Max(s)}]>>]
          BY <3>1, <4>2, <5>1 DEF Sol
        <5> QED BY <4>2, <5>1, <5>4, <5>5
      <4>3. CASE s = {}
        <5>1. g[s] = h[s] /\ s \in SUBSET (1 .. m)
          BY <4>3, <3>3
        <5> QED BY <3>1, <4>3, <5>1 DEF Sol
      <4> QED BY <4>1, <4>2, <4>3
    <3>6. Sol(g, k)
      BY <3>5 DEF Sol
    <3> QED BY <3>2, <3>4, <3>6
  <2>2. CASE ~(m + 1 <= n)
    BY <2>2
  <2> QED BY <2>1, <2>2
<1>3. T = Nat
  <2> HIDE DEF T
  <2>1. T \subseteq Nat
    BY DEF T
  <2> QED BY <1>1, <1>2, <2>1, Induct
<1>4. n \in T
  <2> HIDE DEF T
  <2> QED BY <1>3
<1>5. \E h \in [ SUBSET (1 .. n) -> A ] : Sol(h, n)
  <2> HIDE DEF Sol
  <2>1. n <= n
    OBVIOUS
  <2>2. n <= n => \E h \in [ SUBSET (1 .. n) -> A ] : Sol(h, n)
    BY <1>4, Zenon
  <2> QED BY <2>1, <2>2
<1> QED BY <1>5 DEF Folds

\* A recursion over the sets 1 .. i, whose values may be in A.
Follows(h, A, base, n, step) ==
    /\ h[1 .. 0] = base
    /\ \A i \in 1 .. n : h[1 .. (i - 1)] \in A => h[1 .. i] = step[<<i, h[1 .. (i - 1)]>>]

\* It is a recursion over the numbers.
LEMMA TraceOf ==
    ASSUME NEW A, NEW base \in A, NEW n \in Nat, NEW step \in [ (1 .. n) \X A -> A ],
           NEW h, Follows(h, A, base, n, step)
    PROVE  \E g \in [ 0 .. n -> A ] : Traces(g, base, h[1 .. n], n, step)
<1> USE DEF Follows
<1> DEFINE T == { i \in Nat : i <= n => h[1 .. i] \in A }
           g == [ i \in 0 .. n |-> h[1 .. i] ]
<1>1. 0 \in T
  OBVIOUS
<1>2. ASSUME NEW i \in T PROVE i + 1 \in T
  <2>1. CASE i + 1 <= n
    <3>1. i \in Nat /\ i + 1 \in 1 .. n /\ (i + 1) - 1 = i /\ h[1 .. i] \in A
      BY <2>1
    <3>2. h[1 .. (i + 1)] = step[<<i + 1, h[1 .. i]>>]
      BY <3>1
    <3>3. <<i + 1, h[1 .. i]>> \in (1 .. n) \X A
      BY <3>1
    <3> QED BY <3>1, <3>2, <3>3
  <2>2. CASE ~(i + 1 <= n)
    BY <2>2
  <2> QED BY <2>1, <2>2
<1>3. T = Nat
  <2> HIDE DEF T
  <2>1. T \subseteq Nat
    BY DEF T
  <2> QED BY <1>1, <1>2, <2>1, Induct
<1>4. ASSUME NEW i \in 0 .. n PROVE h[1 .. i] \in A
  <2>1. i \in T /\ i <= n
    <3> HIDE DEF T
    <3> QED BY <1>3
  <2> QED BY <2>1
<1>5. g \in [ 0 .. n -> A ] /\ g[0] = base /\ g[n] = h[1 .. n]
  BY <1>4
<1>6. ASSUME NEW i \in 1 .. n PROVE g[i] = step[<<i, g[i - 1]>>]
  <2>1. i - 1 \in 0 .. n /\ i \in 0 .. n
    OBVIOUS
  <2> QED BY <1>4, <2>1
<1> QED BY <1>5, <1>6 DEF Traces

\* What satisfies the recursion of a fold wherever its values are in A is a fold.
LEMMA FoldTrace ==
    ASSUME NEW A, NEW base \in A, NEW n \in Nat, NEW step \in [ (1 .. n) \X A -> A ], NEW f,
           f[{}] = base,
           \A s \in SUBSET (1 .. n) : s # {} /\ f[s \ {Max(s)}] \in A =>
               f[s] = step[<<Max(s), f[s \ {Max(s)}]>>]
    PROVE  \E g \in [ 0 .. n -> A ] : Traces(g, base, f[1 .. n], n, step)
<1>1. f[1 .. 0] = base
  <2>1. 1 .. 0 = {}
    OBVIOUS
  <2> QED BY <2>1
<1>2. ASSUME NEW i \in 1 .. n, f[1 .. (i - 1)] \in A
      PROVE  f[1 .. i] = step[<<i, f[1 .. (i - 1)]>>]
  <2>1. 1 .. i \in SUBSET (1 .. n) /\ 1 .. i # {}
    OBVIOUS
  <2>2. Max(1 .. i) = i
    <3>1. i \in Nat /\ i \in 1 .. i /\ 1 .. i \in SUBSET (1 .. i) /\ 1 .. i # {}
      OBVIOUS
    <3>2. Max(1 .. i) \in 1 .. i /\ i <= Max(1 .. i)
      BY <3>1, MaxOf
    <3> QED BY <3>1, <3>2
  <2>3. (1 .. i) \ {i} = 1 .. (i - 1)
    OBVIOUS
  <2> QED BY <1>2, <2>1, <2>2, <2>3
<1>3. Follows(f, A, base, n, step)
  BY <1>1, <1>2 DEF Follows
<1> QED BY <1>3, TraceOf

\* The least of some numbers, as Min chooses it.
LEMMA MinOf ==
    ASSUME NEW T, T \subseteq Nat, T # {}
    PROVE  Min(T) \in T /\ \A y \in T : Min(T) <= y
<1>1. \E x \in T : \A y \in T : x <= y
  BY Least
<1> QED BY <1>1, Zenon DEF Min

\* Induction over what m measures.
LEMMA Descend ==
    ASSUME NEW D, NEW m \in [ D -> Nat ], NEW T,
           \A x \in D : (\A y \in D : m[y] < m[x] => y \in T) => x \in T
    PROVE  \A x \in D : x \in T
<1> DEFINE U == { k \in Nat : \A x \in D : m[x] < k => x \in T }
<1>1. 0 \in U
  OBVIOUS
<1>2. ASSUME NEW k \in U PROVE k + 1 \in U
  <2>1. ASSUME NEW x \in D, m[x] < k + 1 PROVE x \in T
    <3>1. ASSUME NEW y \in D, m[y] < m[x] PROVE y \in T
      <4>1. m[y] < k
        BY <2>1, <3>1
      <4> QED BY <4>1
    <3> QED BY <3>1
  <2> QED BY <2>1
<1>3. U = Nat
  <2> HIDE DEF U
  <2>1. U \subseteq Nat
    BY DEF U
  <2> QED BY <1>1, <1>2, <2>1, Induct
<1>4. ASSUME NEW x \in D PROVE x \in T
  <2>1. m[x] + 1 \in U
    <3> HIDE DEF U
    <3> QED BY <1>3
  <2> QED BY <2>1
<1> QED BY <1>4

\* A step of a recursion from D to A: for each argument and each function of
\* the arguments below it, a value.
Local(step, D, m) ==
    \A x \in D : \A f, g \in DOMAIN step[x] :
        (\A y \in D : m[y] < m[x] => f[y] = g[y]) => step[x][f] = step[x][g]

\* A recursion whose calls go to what measures less.
Recursive(step, D, A, base, m, N) ==
    /\ base \in A /\ N \in Nat /\ m \in [ D -> 0 .. N ]
    /\ step \in [ D -> [ [ D -> A ] -> A ] ] /\ Local(step, D, m)

\* It has a solution.
LEMMA Recursion ==
    ASSUME NEW D, NEW A, NEW base, NEW N, NEW m, NEW step, Recursive(step, D, A, base, m, N)
    PROVE  \E f \in [ D -> A ] : \A x \in D : f[x] = step[x][f]
<1>0. /\ base \in A /\ N \in Nat /\ m \in [ D -> 0 .. N ]
      /\ step \in [ D -> [ [ D -> A ] -> A ] ] /\ Local(step, D, m)
  BY DEF Recursive
<1> USE <1>0
<1> DEFINE F == [ D -> A ]
           Sol(f, k) == \A x \in D : m[x] < k => f[x] = step[x][f]
           T == { k \in Nat : \E f \in F : Sol(f, k) }
<1>1. ASSUME NEW x \in D, NEW f \in F, NEW g \in F, \A y \in D : m[y] < m[x] => f[y] = g[y]
      PROVE  step[x][f] = step[x][g]
  <2>1. DOMAIN step[x] = F
    OBVIOUS
  <2> HIDE DEF F
  <2> QED BY <1>1, <2>1 DEF Local
<1>2. \A x \in D, f \in F : step[x][f] \in A
  OBVIOUS
<1>3. 0 \in T
  <2>1. [ x \in D |-> base ] \in F
    OBVIOUS
  <2>2. \A f \in F : Sol(f, 0)
    OBVIOUS
  <2> QED BY <2>1, <2>2
<1>4. ASSUME NEW k \in T PROVE k + 1 \in T
  <2>1. PICK f \in F : Sol(f, k)
    OBVIOUS
  <2> DEFINE g == [ x \in D |-> IF m[x] = k THEN step[x][f] ELSE f[x] ]
  <2>2. g \in F
    BY <1>2
  <2>3. \A x \in D : g[x] = IF m[x] = k THEN step[x][f] ELSE f[x]
    OBVIOUS
  <2>4. k \in Nat /\ \A x \in D : m[x] \in Nat
    OBVIOUS
  <2> HIDE DEF g, F
  <2>5. ASSUME NEW x \in D, m[x] < k + 1 PROVE g[x] = step[x][g]
    <3>1. \A y \in D : m[y] < m[x] => f[y] = g[y]
      BY <2>3, <2>4, <2>5
    <3>2. step[x][f] = step[x][g]
      BY <1>1, <2>2, <3>1
    <3>3. CASE m[x] = k
      BY <2>3, <3>2, <3>3
    <3>4. CASE m[x] # k
      <4>1. m[x] < k
        <5>1. m[x] \in Nat /\ k \in Nat
          BY <2>4
        <5>2. \A a, b \in Nat : a < b + 1 /\ a # b => a < b
          OBVIOUS
        <5> HIDE DEF T, Sol
        <5> QED BY <2>5, <3>4, <5>1, <5>2
      <4> QED BY <2>1, <2>3, <3>2, <3>4, <4>1
    <3> QED BY <3>3, <3>4
  <2> QED BY <2>2, <2>4, <2>5
<1>5. T = Nat
  <2> HIDE DEF T
  <2>1. T \subseteq Nat
    BY DEF T
  <2> QED BY <1>3, <1>4, <2>1, Induct
<1>6. PICK f \in F : Sol(f, N + 1)
  <2>1. N + 1 \in T
    <3> HIDE DEF T
    <3> QED BY <1>5
  <2> QED BY <2>1
<1>7. \A x \in D : m[x] < N + 1
  OBVIOUS
<1> QED BY <1>6, <1>7

\* Each value is in A if those below it are.
Inherits(f, D, A, m, N) ==
    /\ N \in Nat /\ m \in [ D -> 0 .. N ]
    /\ \A x \in D : (\A y \in D : m[y] < m[x] => f[y] \in A) => f[x] \in A

\* Then all are.
LEMMA Solved ==
    ASSUME NEW f, NEW D, NEW A, NEW m, NEW N, Inherits(f, D, A, m, N)
    PROVE  \A x \in D : f[x] \in A
<1> USE DEF Inherits
<1> DEFINE T == { x \in D : f[x] \in A }
<1>1. m \in [ D -> Nat ]
  OBVIOUS
<1>2. \A x \in D : (\A y \in D : m[y] < m[x] => y \in T) => x \in T
  OBVIOUS
<1>3. \A x \in D : x \in T
  <2> HIDE DEF T
  <2> QED BY <1>1, <1>2, Descend
<1> QED BY <1>3

\* Two recursions that begin with the same value and are the same at each
\* argument if they were at the one before.
Lockstep(f, g, n) == f[0] = g[0] /\ \A i \in 1 .. n : f[i - 1] = g[i - 1] => f[i] = g[i]
Alike(f, g, n) == \A i \in 0 .. n : f[i] = g[i]

\* They are the same.
LEMMA Agree ==
    ASSUME NEW f, NEW g, NEW n \in Nat, Lockstep(f, g, n)
    PROVE  Alike(f, g, n)
<1> USE DEF Lockstep, Alike
<1> DEFINE T == { i \in Nat : i <= n => f[i] = g[i] }
<1>1. 0 \in T
  OBVIOUS
<1>2. ASSUME NEW i \in T PROVE i + 1 \in T
  <2>1. CASE i + 1 <= n
    <3>1. i + 1 \in 1 .. n /\ (i + 1) - 1 = i /\ f[i] = g[i]
      BY <2>1
    <3> QED BY <3>1
  <2>2. CASE ~(i + 1 <= n)
    BY <2>2
  <2> QED BY <2>1, <2>2
<1>3. T = Nat
  <2> HIDE DEF T
  <2>1. T \subseteq Nat
    BY DEF T
  <2> QED BY <1>1, <1>2, <2>1, Induct
<1>4. ASSUME NEW i \in 0 .. n PROVE f[i] = g[i]
  <2>1. i \in T /\ i <= n
    <3> HIDE DEF T
    <3> QED BY <1>3
  <2> QED BY <2>1
<1> QED BY <1>4

-----------------------------------------------------------------------------
(* FlattenSeq.                                                             *)

\* The concatenations of the first i pieces, by which FlattenSeq is defined.
Running(f, p) == f = [ i \in 1 .. Len(p) |-> IF i = 1 THEN p[i] ELSE f[i - 1] \o p[i] ]

\* FlattenSeq is the last of them.
LEMMA FlattenRuns ==
    ASSUME NEW S, NEW p \in Seq(Seq(S)), Len(p) > 0
    PROVE  \E f \in [ 1 .. Len(p) -> Seq(S) ] : Running(f, p) /\ FlattenSeq(p) = f[Len(p)]
<1> DEFINE n == Len(p)
           A == Seq(S)
           Sums(f, m) == \A i \in 1 .. m : f[i] = IF i = 1 THEN p[i] ELSE f[i - 1] \o p[i]
           Has(m) == \E f \in [ 1 .. m -> A ] : Sums(f, m)
           T == { m \in Nat : m <= n => Has(m) }
           F == CHOOSE f : Running(f, p)
<1>1. n \in Nat /\ n > 0 /\ \A i \in 1 .. n : p[i] \in A
  OBVIOUS
<1>2. \A a, b \in A : a \o b \in A
  OBVIOUS
<1> HIDE DEF A, n
<1>3. 0 \in T
  <2>1. [ i \in 1 .. 0 |-> <<>> ] \in [ 1 .. 0 -> A ]
    OBVIOUS
  <2>2. ASSUME NEW f PROVE Sums(f, 0)
    OBVIOUS
  <2> HIDE DEF Sums
  <2>3. Has(0)
    BY <2>1, <2>2
  <2> HIDE DEF Has
  <2> QED BY <2>3
<1>4. ASSUME NEW m \in T PROVE m + 1 \in T
  <2>1. CASE m + 1 <= n
    <3>1. m \in Nat /\ m <= n /\ m + 1 \in 1 .. n
      BY <1>1, <2>1
    <3>2. PICK f \in [ 1 .. m -> A ] : Sums(f, m)
      <4>1. Has(m)
        <5> HIDE DEF Has
        <5> QED BY <3>1
      <4> QED BY <4>1
    <3> DEFINE new == IF m = 0 THEN p[m + 1] ELSE f[m] \o p[m + 1]
               g == [ i \in 1 .. m + 1 |-> IF i <= m THEN f[i] ELSE new ]
    <3>3. new \in A
      BY <1>1, <1>2, <3>1, <3>2
    <3>4. g \in [ 1 .. m + 1 -> A ]
      BY <3>1, <3>2, <3>3
    <3>5. ASSUME NEW i \in 1 .. m + 1
          PROVE  g[i] = IF i = 1 THEN p[i] ELSE g[i - 1] \o p[i]
      <4>1. CASE i <= m
        <5>1. i \in 1 .. m /\ g[i] = f[i] /\ (i # 1 => g[i - 1] = f[i - 1])
          BY <3>1, <4>1
        <5> HIDE DEF g
        <5> QED BY <3>2, <5>1
      <4>2. CASE ~(i <= m)
        <5>1. i = m + 1 /\ g[i] = new /\ (m # 0 => g[m] = f[m])
          BY <3>1, <4>2
        <5> HIDE DEF g
        <5>2. i - 1 = m /\ (i = 1 <=> m = 0)
          BY <3>1, <5>1
        <5> QED BY <5>1, <5>2
      <4> QED BY <4>1, <4>2
    <3> HIDE DEF g
    <3>6. Sums(g, m + 1)
      BY <3>5
    <3> HIDE DEF Sums
    <3>7. Has(m + 1)
      BY <3>4, <3>6
    <3> HIDE DEF Has
    <3> QED BY <3>1, <3>7
  <2>2. CASE ~(m + 1 <= n)
    <3> HIDE DEF Has
    <3> QED BY <2>2
  <2> QED BY <2>1, <2>2
<1>5. T = Nat
  <2> HIDE DEF T
  <2>1. T \subseteq Nat
    BY DEF T
  <2> QED BY <1>3, <1>4, <2>1, Induct
<1>6. PICK f \in [ 1 .. n -> A ] : Sums(f, n)
  <2>1. Has(n)
    <3> HIDE DEF Has
    <3>1. n \in T
      <4> HIDE DEF T
      <4> QED BY <1>1, <1>5
    <3> QED BY <1>1, <3>1
  <2> QED BY <2>1
<1> HIDE DEF T
<1>7. Running(f, p)
  BY <1>6 DEF Running, n
<1>8. Running(F, p)
  <2> USE DEF Running
  <2> QED BY <1>7
<1>9. FlattenSeq(p) = F[n]
  <2>1. Len(p) # 0
    BY <1>1 DEF n
  <2> QED BY <2>1, Zenon DEF FlattenSeq, Running, n
<1>10. \A i \in 1 .. n : F[i] = IF i = 1 THEN p[i] ELSE F[i - 1] \o p[i]
  <2> HIDE DEF F
  <2> QED BY <1>8 DEF Running, n
<1> DEFINE U == { i \in Nat : i + 1 <= n => F[i + 1] \in A }
<1> HIDE DEF F
<1>11. 0 \in U
  <2>1. 1 \in 1 .. n
    BY <1>1
  <2>2. F[1] = p[1]
    BY <1>10, <2>1
  <2>3. F[0 + 1] \in A
    BY <1>1, <2>1, <2>2
  <2> QED BY <2>3
<1>12. ASSUME NEW i \in U PROVE i + 1 \in U
  <2>1. CASE (i + 1) + 1 <= n
    <3>1. i \in Nat /\ i + 1 <= n /\ (i + 1) + 1 \in 1 .. n /\ (i + 1) + 1 # 1 /\ ((i + 1) + 1) - 1 = i + 1
      BY <1>1, <2>1
    <3>2. F[(i + 1) + 1] = F[i + 1] \o p[(i + 1) + 1]
      BY <1>10, <3>1
    <3>3. F[i + 1] \in A /\ p[(i + 1) + 1] \in A
      BY <1>1, <3>1
    <3>4. F[(i + 1) + 1] \in A
      BY <1>2, <3>2, <3>3
    <3> QED BY <3>1, <3>4
  <2>2. CASE ~((i + 1) + 1 <= n)
    BY <2>2
  <2> QED BY <2>1, <2>2
<1>13. U = Nat
  <2> HIDE DEF U
  <2>1. U \subseteq Nat
    BY DEF U
  <2> QED BY <1>11, <1>12, <2>1, Induct
<1>14. ASSUME NEW i \in 1 .. n PROVE F[i] \in A
  <2>1. i - 1 \in U /\ (i - 1) + 1 = i /\ i <= n
    <3> HIDE DEF U
    <3> QED BY <1>1, <1>13
  <2> QED BY <2>1
<1>15. F \in [ 1 .. n -> A ]
  <2>1. F = [ i \in 1 .. n |-> IF i = 1 THEN p[i] ELSE F[i - 1] \o p[i] ]
    BY <1>8 DEF Running, n
  <2> QED BY <1>14, <2>1
<1> QED BY <1>8, <1>9, <1>15 DEF n, A

\* Nothing, flattened.
LEMMA FlattenNone == FlattenSeq(<<>>) = <<>>
<1>1. Len(<<>>) = 0
  OBVIOUS
<1> QED BY <1>1, Zenon DEF FlattenSeq

\* It is a sequence over the same set.
LEMMA FlattenTyped ==
    ASSUME NEW S, NEW p \in Seq(Seq(S))
    PROVE  FlattenSeq(p) \in Seq(S)
<1>1. CASE Len(p) = 0
  <2>1. p = <<>> /\ <<>> \in Seq(S)
    BY <1>1
  <2> QED BY <2>1, FlattenNone
<1>2. CASE Len(p) # 0
  <2>1. Len(p) \in Nat /\ Len(p) > 0 /\ Len(p) \in 1 .. Len(p)
    BY <1>2
  <2>2. PICK f \in [ 1 .. Len(p) -> Seq(S) ] : FlattenSeq(p) = f[Len(p)]
    BY <2>1, FlattenRuns
  <2> QED BY <2>1, <2>2
<1> QED BY <1>1, <1>2

\* One more piece.
LEMMA FlattenPiece ==
    ASSUME NEW S, NEW p \in Seq(Seq(S)), NEW s \in Seq(S)
    PROVE  FlattenSeq(Append(p, s)) = FlattenSeq(p) \o s
<1> DEFINE q == Append(p, s)
           n == Len(p)
<1>1. /\ q \in Seq(Seq(S)) /\ n \in Nat /\ Len(q) = n + 1 /\ q[n + 1] = s
      /\ \A i \in 1 .. n : q[i] = p[i]
  OBVIOUS
<1> HIDE DEF q
<1>2. PICK h \in [ 1 .. n + 1 -> Seq(S) ] : Running(h, q) /\ FlattenSeq(q) = h[n + 1]
  <2>1. Len(q) > 0
    BY <1>1
  <2> QED BY <1>1, <2>1, FlattenRuns
<1>3. \A i \in 1 .. n + 1 : h[i] = IF i = 1 THEN q[i] ELSE h[i - 1] \o q[i]
  BY <1>1, <1>2 DEF Running
<1>4. CASE n = 0
  <2>1. h[1] = s /\ p = <<>> /\ <<>> \o s = s
    BY <1>1, <1>3, <1>4
  <2> QED BY <1>2, <1>4, <2>1, FlattenNone DEF q
<1>5. CASE n # 0
  <2>1. n > 0 /\ n \in 1 .. n /\ n + 1 \in 1 .. n + 1 /\ n + 1 # 1 /\ (n + 1) - 1 = n
    BY <1>1, <1>5
  <2>2. PICK f \in [ 1 .. n -> Seq(S) ] : Running(f, p) /\ FlattenSeq(p) = f[n]
    BY <2>1, FlattenRuns
  <2>3. \A i \in 1 .. n : f[i] = IF i = 1 THEN p[i] ELSE f[i - 1] \o p[i]
    BY <2>2 DEF Running
  <2> DEFINE U == { i \in Nat : i + 1 <= n => f[i + 1] = h[i + 1] }
  <2>4. 0 \in U
    <3>1. 1 \in 1 .. n /\ 1 \in 1 .. n + 1
      BY <1>1, <2>1
    <3>2. f[1] = p[1] /\ h[1] = q[1] /\ q[1] = p[1]
      BY <1>1, <1>3, <2>3, <3>1
    <3>3. f[0 + 1] = h[0 + 1]
      BY <3>2
    <3> QED BY <3>3
  <2>5. ASSUME NEW i \in U PROVE i + 1 \in U
    <3>1. CASE (i + 1) + 1 <= n
      <4> DEFINE j == (i + 1) + 1
      <4>1. i \in Nat /\ i + 1 <= n /\ j \in 1 .. n /\ j \in 1 .. n + 1 /\ j # 1 /\ j - 1 = i + 1
        BY <1>1, <3>1
      <4> HIDE DEF j
      <4>2. f[j] = f[i + 1] \o p[j] /\ h[j] = h[i + 1] \o q[j] /\ q[j] = p[j]
        BY <1>1, <1>3, <2>3, <4>1
      <4>3. f[i + 1] = h[i + 1]
        BY <4>1
      <4>4. f[j] = h[j]
        BY <4>2, <4>3
      <4> QED BY <4>1, <4>4 DEF j
    <3>2. CASE ~((i + 1) + 1 <= n)
      BY <3>2
    <3> QED BY <3>1, <3>2
  <2>6. U = Nat
    <3> HIDE DEF U
    <3>1. U \subseteq Nat
      BY DEF U
    <3> QED BY <2>4, <2>5, <3>1, Induct
  <2>7. f[n] = h[n]
    <3>1. n - 1 \in U /\ (n - 1) + 1 = n
      <4> HIDE DEF U
      <4> QED BY <1>1, <2>1, <2>6
    <3> QED BY <3>1
  <2>8. h[n + 1] = h[n] \o s
    BY <1>1, <1>3, <2>1
  <2> QED BY <1>2, <2>2, <2>7, <2>8 DEF q
<1> QED BY <1>4, <1>5

\* A sequence that is not empty, as its front and its last element.
LEMMA LastOff ==
    ASSUME NEW S, NEW s \in Seq(S), NEW n \in Nat, Len(s) = n + 1
    PROVE  \E front \in Seq(S), e \in S : s = Append(front, e) /\ Len(front) = n
<1> DEFINE front == SubSeq(s, 1, n)
           e == s[n + 1]
<1>1. front \in Seq(S) /\ Len(front) = n /\ e \in S /\ \A i \in 1 .. n : front[i] = s[i]
  OBVIOUS
<1> HIDE DEF front
<1>2. Append(front, e) \in Seq(S) /\ Len(Append(front, e)) = n + 1
  BY <1>1
<1>3. \A i \in 1 .. n + 1 : Append(front, e)[i] = s[i]
  BY <1>1
<1>4. s = Append(front, e)
  BY <1>2, <1>3, SameElements
<1> QED BY <1>1, <1>4

\* The pieces of two sequences, one behind the other.
LEMMA FlattenConcat ==
    ASSUME NEW S, NEW p \in Seq(Seq(S)), NEW q \in Seq(Seq(S))
    PROVE  FlattenSeq(p \o q) = FlattenSeq(p) \o FlattenSeq(q)
<1> DEFINE A == Seq(S)
           U == { n \in Nat : \A r \in Seq(A) :
                    Len(r) = n => FlattenSeq(p \o r) = FlattenSeq(p) \o FlattenSeq(r) }
<1>1. 0 \in U
  <2>1. ASSUME NEW r \in Seq(A), Len(r) = 0 PROVE FlattenSeq(p \o r) = FlattenSeq(p) \o FlattenSeq(r)
    <3>1. r = <<>> /\ p \o r = p
      BY <2>1
    <3>2. FlattenSeq(p) \in Seq(S)
      BY FlattenTyped
    <3>3. FlattenSeq(p) \o <<>> = FlattenSeq(p)
      BY <3>2
    <3> QED BY <3>1, <3>3, FlattenNone
  <2> QED BY <2>1
<1>2. ASSUME NEW n \in U PROVE n + 1 \in U
  <2>1. ASSUME NEW r \in Seq(A), Len(r) = n + 1 PROVE FlattenSeq(p \o r) = FlattenSeq(p) \o FlattenSeq(r)
    <3>1. PICK t \in Seq(A), s \in A : r = Append(t, s) /\ Len(t) = n
      <4> HIDE DEF A
      <4> QED BY <2>1, LastOff
    <3>2. p \o t \in Seq(A) /\ p \o Append(t, s) = Append(p \o t, s)
      <4>1. p \in Seq(A)
        OBVIOUS
      <4> HIDE DEF A
      <4> QED BY <4>1
    <3>3. FlattenSeq(p \o t) = FlattenSeq(p) \o FlattenSeq(t)
      BY <3>1
    <3>4. FlattenSeq(r) = FlattenSeq(t) \o s /\ FlattenSeq(p \o r) = FlattenSeq(p \o t) \o s
      BY <3>1, <3>2, FlattenPiece
    <3>5. PICK a \in Seq(S), b \in Seq(S) : a = FlattenSeq(p) /\ b = FlattenSeq(t)
      BY FlattenTyped
    <3>6. (a \o b) \o s = a \o (b \o s)
      OBVIOUS
    <3> QED BY <3>3, <3>4, <3>5, <3>6
  <2> QED BY <2>1
<1>3. U = Nat
  <2> HIDE DEF U
  <2>1. U \subseteq Nat
    BY DEF U
  <2> QED BY <1>1, <1>2, <2>1, Induct
<1>4. q \in Seq(A) /\ Len(q) \in Nat
  OBVIOUS
<1> HIDE DEF A
<1> QED BY <1>3, <1>4
=============================================================================
