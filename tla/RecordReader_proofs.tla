------------------------- MODULE RecordReader_proofs -------------------------
(***************************************************************************)
(* The receiving half of the record layer stays within its buffer and in   *)
(* step with the server, and hands on an unbroken stream, whatever calls   *)
(* are dropped, for every buffer size, every length and order of records.  *)
(***************************************************************************)
EXTENDS RecordReader, StreamLemmas

-----------------------------------------------------------------------------
(* Types and bounds, by the variables they speak of.                       *)

ServerTypes ==
    /\ records \in Seq(Records)
    /\ stream \in Seq(Bytes)
    /\ plain \in Seq(Bytes)

CallTypes ==
    /\ taken \in 0 .. Len(stream)
    /\ call \in {"idle", "header", "body"} \cup Ended
    /\ want \in Wants

HeaderTypes ==
    /\ hdr \in Seq(Bytes) /\ Len(hdr) <= HeaderLen
    /\ body_active \in BOOLEAN
    /\ body_len \in BodyLens \cup {0}

BufferTypes ==
    /\ buf \in [0 .. BufLen - 1 -> Bytes]
    /\ decoded \in 0 .. BufLen
    /\ pending \in Nat

PlainTypes ==
    /\ decrypted \in [offset : Nat, len : Nat, consumed : Nat]
    /\ counter \in Nat \ {0}
    /\ out \in Seq(Bytes)

BodySlice ==
    /\ decoded + pending <= BufLen
    /\ body_active => pending < body_len
    /\ ~body_active => pending = 0
    /\ call = "body" => body_active /\ decoded + body_len <= BufLen
    /\ call = "header" => ~body_active

PlainSlice ==
    /\ decrypted.consumed <= decrypted.len
    /\ decrypted.offset + decrypted.len <= BufLen
    /\ decrypted.consumed < decrypted.len => decrypted.offset + decrypted.len <= decoded
    /\ call \in {"header", "body"} => decrypted.consumed = decrypted.len

\* TypeOK and SlicesInBounds rest on each other, and on two facts more: a call
\* that waits for a header has no body begun, and none waits while plaintext is
\* left.
Bounds ==
    /\ ServerTypes /\ CallTypes /\ HeaderTypes /\ BufferTypes /\ PlainTypes
    /\ BodySlice /\ PlainSlice

\* Bounds contains the types.
LEMMA BoundsTypes == Bounds => TypeOK
  BY DEF Bounds, ServerTypes, CallTypes, HeaderTypes, BufferTypes, PlainTypes, TypeOK

\* Bounds contains what SlicesInBounds says of the buffer.
LEMMA BoundsSlices == Bounds => SlicesInBounds
  BY ReaderAssumption, SMTT(30)
  DEF Bounds, CallTypes, HeaderTypes, BufferTypes, PlainTypes, BodySlice, PlainSlice, SlicesInBounds, Unread

\* The record of a number in use.
LEMMA RecordTypes ==
    ASSUME ServerTypes
    PROVE  \A k \in DOMAIN records :
               records[k] \in Records
  BY ElementFacts DEF ServerTypes

\* The buffer is empty behind what the handshake decoded.
LEMMA BoundsInit == Init => Bounds
<1> SUFFICES ASSUME Init PROVE Bounds
  OBVIOUS
<1> USE ReaderAssumption
<1>1. ServerTypes /\ CallTypes
  BY DEF Init, ServerTypes, CallTypes
<1>2. HeaderTypes
  <2>1. body_active \in BOOLEAN
    BY DEF Init
  <2> QED BY <2>1 DEF Init, HeaderTypes
<1>3. BufferTypes
  BY DEF Init, BufferTypes, Bytes, NoByte
<1>4. PlainTypes
  BY DEF Init, PlainTypes
<1>5. BodySlice /\ PlainSlice
  BY DEF Init, BodySlice, PlainSlice
<1> QED BY <1>1, <1>2, <1>3, <1>4, <1>5 DEF Bounds

-----------------------------------------------------------------------------
(* The steps that touch the buffer.                                        *)

\* Making room for a body keeps the part of it already received.
LEMMA AwaitBodyBounds ==
    ASSUME BufferTypes, NEW len \in BodyLens, AwaitBody(len), pending < len,
           decoded + pending <= BufLen
    PROVE  /\ call' \in {"body", "too_large"}
           /\ buf' \in [0 .. BufLen - 1 -> Bytes]
           /\ decoded' \in 0 .. BufLen
           /\ decoded' + pending <= BufLen
           /\ call' = "body" => decoded' + len <= BufLen
           /\ \A i \in 0 .. pending - 1 : buf'[decoded' + i] = buf[decoded + i]
<1>0. /\ BufLen \in Nat /\ len \in Nat
      /\ buf \in [0 .. BufLen - 1 -> Bytes]
      /\ decoded \in 0 .. BufLen /\ pending \in Nat
  BY ReaderAssumption DEF BufferTypes
<1>1. CASE len > BufLen
  BY <1>0, <1>1 DEF AwaitBody
<1>2. CASE len <= BufLen /\ ~MustMove(len)
  BY <1>0, <1>2 DEF AwaitBody, MustMove
<1>3. CASE len <= BufLen /\ MustMove(len)
  <2>1. buf' = MovedToFront /\ decoded' = 0 /\ call' = "body"
    BY <1>0, <1>3 DEF AwaitBody
  <2>2. /\ MovedToFront \in [0 .. BufLen - 1 -> Bytes]
        /\ \A i \in 0 .. pending - 1 : MovedToFront[i] = buf[decoded + i]
    BY <1>0 DEF MovedToFront
  <2> QED BY <1>0, <1>3, <2>1, <2>2
<1> QED BY <1>0, <1>1, <1>2, <1>3

\* Popping plaintext that lies in the buffer.
LEMMA PopFacts ==
    ASSUME out \in Seq(Bytes), NEW d \in [offset : Nat, len : Nat, consumed : Nat],
           NEW b \in [0 .. BufLen - 1 -> Bytes], NEW size \in Nat \ {0},
           d.consumed < d.len, d.offset + d.len <= BufLen, Pop(d, b, size)
    PROVE  \E n \in Nat \ {0} :
               /\ n <= d.len - d.consumed
               /\ decrypted' \in [offset : Nat, len : Nat, consumed : Nat]
               /\ decrypted'.offset = d.offset /\ decrypted'.len = d.len
               /\ decrypted'.consumed = d.consumed + n
               /\ out' \in Seq(Bytes) /\ Len(out') = Len(out) + n
               /\ \A i \in 1 .. Len(out) : out'[i] = out[i]
               /\ \A i \in 1 .. n : out'[Len(out) + i] = b[d.offset + d.consumed + i - 1]
               /\ call' = "idle"
<1> DEFINE n == IF Unread(d) < size THEN Unread(d) ELSE size
           s == [ i \in 1 .. n |-> b[d.offset + d.consumed + i - 1] ]
<1>1. n \in Nat /\ n > 0 /\ n <= d.len - d.consumed
  BY DEF Unread
<1>2. /\ decrypted' = [d EXCEPT !.consumed = d.consumed + n]
      /\ out' = out \o s
      /\ call' = "idle"
  BY DEF Pop, PopSome
<1> HIDE DEF n
<1>3. \A i \in 1 .. n : d.offset + d.consumed + i - 1 \in 0 .. BufLen - 1
  BY <1>1, ReaderAssumption, SMTT(30)
<1>4. s \in Seq(Bytes) /\ Len(s) = n /\ \A i \in 1 .. n : s[i] = b[d.offset + d.consumed + i - 1]
  BY <1>1, <1>3
<1> HIDE DEF s
<1>5. /\ out' \in Seq(Bytes) /\ Len(out') = Len(out) + n
      /\ \A i \in 1 .. Len(out) : out'[i] = out[i]
      /\ \A i \in 1 .. n : out'[Len(out) + i] = s[i]
  <2>1. /\ out \o s \in Seq(Bytes) /\ Len(out \o s) = Len(out) + Len(s)
        /\ \A i \in 1 .. Len(out) : (out \o s)[i] = out[i]
        /\ \A i \in 1 .. Len(s) : (out \o s)[Len(out) + i] = s[i]
    <3>1. s \in Seq(Bytes)
      BY <1>4
    <3> QED BY <3>1, ConcatFacts
  <2> QED BY <1>2, <1>4, <2>1
<1>7. /\ decrypted' \in [offset : Nat, len : Nat, consumed : Nat]
      /\ decrypted'.offset = d.offset /\ decrypted'.len = d.len
      /\ decrypted'.consumed = d.consumed + n
  <2>1. d.consumed + n \in Nat /\ d.offset \in Nat /\ d.len \in Nat
    BY <1>1
  <2> QED BY <1>2, <2>1
<1>6. \A i \in 1 .. n : out'[Len(out) + i] = b[d.offset + d.consumed + i - 1]
  BY <1>4, <1>5
<1>8. n \in Nat \ {0}
  BY <1>1
<1> QED BY <1>1, <1>2, <1>5, <1>6, <1>7, <1>8

\* Bytes that arrive in a header.
LEMMA HeaderBytes ==
    ASSUME ServerTypes, CallTypes, HeaderTypes, NEW n \in 1 .. Available, ReadHeader(n)
    PROVE  /\ n \in Nat \ {0} /\ taken' = taken + n /\ taken' \in 0 .. Len(stream)
           /\ hdr' \in Seq(Bytes) /\ Len(hdr') = Len(hdr) + n /\ Len(hdr') <= HeaderLen
           /\ \A i \in 1 .. Len(hdr) : hdr'[i] = hdr[i]
           /\ \A i \in 1 .. n : hdr'[Len(hdr) + i] = stream[taken + i]
<1>0. /\ HeaderLen \in Nat /\ stream \in Seq(Bytes) /\ hdr \in Seq(Bytes) /\ taken \in Nat
  BY ReaderAssumption DEF ServerTypes, CallTypes, HeaderTypes
<1>1. /\ n \in Nat \ {0} /\ taken' = taken + n /\ taken + n <= Len(stream)
      /\ n <= HeaderLen - Len(hdr)
      /\ hdr' = hdr \o SubSeq(stream, taken + 1, taken + n)
  BY <1>0 DEF ReadHeader, Available, HeaderLeft
<1> DEFINE s == SubSeq(stream, taken + 1, taken + n)
<1>2. s \in Seq(Bytes) /\ Len(s) = n /\ \A i \in 1 .. n : s[i] = stream[taken + i]
  BY <1>0, <1>1, SubSeqFacts
<1> HIDE DEF s
<1>3. hdr' = hdr \o s
  BY <1>1 DEF s
<1>4. /\ hdr' \in Seq(Bytes) /\ Len(hdr') = Len(hdr) + n
      /\ \A i \in 1 .. Len(hdr) : hdr'[i] = hdr[i]
      /\ \A i \in 1 .. n : hdr'[Len(hdr) + i] = s[i]
  <2>1. /\ hdr \o s \in Seq(Bytes) /\ Len(hdr \o s) = Len(hdr) + Len(s)
        /\ \A i \in 1 .. Len(hdr) : (hdr \o s)[i] = hdr[i]
        /\ \A i \in 1 .. Len(s) : (hdr \o s)[Len(hdr) + i] = s[i]
    <3>1. s \in Seq(Bytes) /\ hdr \in Seq(Bytes)
      BY <1>0, <1>2
    <3> QED BY <3>1, ConcatFacts
  <2> QED BY <1>2, <1>3, <2>1
<1>5. taken' \in 0 .. Len(stream) /\ Len(hdr') <= HeaderLen
  BY <1>0, <1>1, <1>4
<1>6. \A i \in 1 .. n : hdr'[Len(hdr) + i] = stream[taken + i]
  BY <1>2, <1>4
<1> QED BY <1>1, <1>4, <1>5, <1>6

\* Bytes that arrive in a body go behind those already received.
LEMMA BodyBytes ==
    ASSUME Bounds, NEW n \in 1 .. Available, ReadBody(n)
    PROVE  /\ n \in Nat \ {0} /\ taken' = taken + n /\ taken' \in 0 .. Len(stream)
           /\ body_len \in BodyLens /\ body_active /\ pending + n <= body_len
           /\ decoded + body_len <= BufLen
           /\ decrypted.consumed = decrypted.len
           /\ buf' \in [0 .. BufLen - 1 -> Bytes]
           /\ \A i \in 0 .. pending - 1 : buf'[decoded + i] = buf[decoded + i]
           /\ \A i \in 1 .. n : buf'[decoded + pending + i - 1] = stream[taken + i]
<1>0. /\ BufLen \in Nat /\ stream \in Seq(Bytes) /\ taken \in Nat
      /\ buf \in [0 .. BufLen - 1 -> Bytes] /\ decoded \in Nat /\ pending \in Nat
  BY ReaderAssumption DEF Bounds, ServerTypes, CallTypes, BufferTypes
<1>1. /\ body_active /\ pending < body_len /\ decoded + body_len <= BufLen
      /\ decrypted.consumed = decrypted.len
  BY DEF ReadBody, Bounds, BodySlice, PlainSlice
<1>2. body_len \in BodyLens /\ body_len \in Nat
  BY <1>0, <1>1, ReaderAssumption DEF Bounds, HeaderTypes
<1>3. /\ n \in Nat \ {0} /\ taken' = taken + n /\ taken + n <= Len(stream)
      /\ pending + n <= body_len
  BY <1>0, <1>2 DEF ReadBody, Available, Remain
<1> DEFINE d == decoded + pending
<1>4. buf' = [ i \in 0 .. BufLen - 1 |->
                 IF i \in d .. d + n - 1 THEN stream[taken + 1 + i - d] ELSE buf[i] ]
  BY <1>0 DEF ReadBody
<1>5. d \in Nat /\ d + n <= BufLen
  BY <1>0, <1>1, <1>2, <1>3
<1>8. d = decoded + pending
  OBVIOUS
<1> HIDE DEF d
<1>6. \A i \in d .. d + n - 1 : stream[taken + 1 + i - d] \in Bytes
  <2> TAKE i \in d .. d + n - 1
  <2>1. taken + 1 + i - d \in 1 .. Len(stream)
    BY <1>0, <1>3, <1>5
  <2> QED BY <1>0, <2>1
<1>7. buf' \in [0 .. BufLen - 1 -> Bytes]
  BY <1>0, <1>4, <1>6
<1>9. \A i \in 0 .. pending - 1 : buf'[decoded + i] = buf[decoded + i]
  BY <1>0, <1>4, <1>5, <1>8
<1>10. \A i \in 1 .. n : buf'[d + i - 1] = stream[taken + i]
  <2> TAKE i \in 1 .. n
  <2>1. d + i - 1 \in d .. d + n - 1 /\ d + i - 1 \in 0 .. BufLen - 1
    BY <1>0, <1>3, <1>5
  <2>2. taken + 1 + (d + i - 1) - d = taken + i
    BY <1>0, <1>3, <1>5
  <2> QED BY <1>4, <2>1, <2>2
<1> QED BY <1>0, <1>1, <1>2, <1>3, <1>7, <1>8, <1>9, <1>10

-----------------------------------------------------------------------------
\* A record more does not touch the reader.
LEMMA ServerBounds ==
    ASSUME Bounds, NEW kind \in Kinds, NEW len \in BodyLens, ServerSends(kind, len)
    PROVE  Bounds'
<1> USE ReaderAssumption DEF Bounds
<1>1. len \in Nat /\ HeaderLen \in Nat /\ Sealing \in Nat /\ len - Sealing \in Nat
  OBVIOUS
<1>2. Len(records) + 1 \in Nat /\ Len(stream) \in Nat /\ Len(plain) \in Nat
  BY DEF ServerTypes
<1>3. /\ RecordBytes(Len(records) + 1, len) \in Seq(Bytes)
      /\ PlainBytes(Len(records) + 1, len) \in Seq(Bytes)
  BY <1>1, <1>2 DEF RecordBytes, PlainBytes, Bytes
<1>4. stream' \in Seq(Bytes) /\ Len(stream') >= Len(stream)
  BY <1>2, <1>3 DEF ServerSends, ServerTypes
<1>5. plain' \in Seq(Bytes)
  BY <1>2, <1>3 DEF ServerSends, ServerTypes
<1>6. records' \in Seq(Records)
  <2> DEFINE r == [kind |-> kind, len |-> len, at |-> Len(stream), first |-> Len(plain)]
  <2>1. r \in Records
    BY <1>2 DEF Records
  <2>2. records' = Append(records, r)
    BY DEF ServerSends
  <2> HIDE DEF r
  <2> QED BY <2>1, <2>2 DEF ServerTypes
<1>7. UNCHANGED <<taken, readVars, plainVars, call, want>>
  BY DEF ServerSends
<1>8. CallTypes'
  BY <1>4, <1>7 DEF CallTypes, ServerTypes
<1>9. HeaderTypes' /\ BufferTypes' /\ BodySlice'
  BY <1>7 DEF readVars, HeaderTypes, BufferTypes, BodySlice
<1>10. PlainTypes' /\ PlainSlice'
  BY <1>7 DEF readVars, plainVars, PlainTypes, PlainSlice
<1> QED BY <1>4, <1>5, <1>6, <1>8, <1>9, <1>10 DEF ServerTypes

\* A read() moves the body to the front or hands out plaintext.
LEMMA ReadBounds ==
    ASSUME Bounds, NEW size \in Wants, Read(size)
    PROVE  Bounds'
<1> USE ReaderAssumption DEF Bounds
<1>1. UNCHANGED <<serverVars, taken>> /\ want' = size
  BY DEF Read
<1>2. ServerTypes'
  BY <1>1 DEF ServerTypes, serverVars
<1>3. CASE Unread(decrypted) > 0 /\ Pop(decrypted, buf, size) /\ UNCHANGED <<readVars, counter>>
  <2>1. /\ decrypted.consumed < decrypted.len
        /\ decrypted \in [offset : Nat, len : Nat, consumed : Nat]
        /\ decrypted.offset + decrypted.len <= BufLen
        /\ decrypted.offset + decrypted.len <= decoded
        /\ buf \in [0 .. BufLen - 1 -> Bytes] /\ size \in Nat \ {0} /\ out \in Seq(Bytes)
    BY <1>3 DEF Unread, PlainTypes, PlainSlice, BufferTypes
  <2>2. PICK n \in Nat \ {0} :
           /\ n <= decrypted.len - decrypted.consumed
           /\ decrypted' \in [offset : Nat, len : Nat, consumed : Nat]
           /\ decrypted'.offset = decrypted.offset /\ decrypted'.len = decrypted.len
           /\ decrypted'.consumed = decrypted.consumed + n
           /\ out' \in Seq(Bytes) /\ call' = "idle"
    BY <1>3, <2>1, PopFacts
  <2>3. HeaderTypes' /\ BufferTypes' /\ BodySlice'
    BY <1>3, <2>2 DEF readVars, HeaderTypes, BufferTypes, BodySlice
  <2>4. PlainTypes' /\ PlainSlice'
    BY <1>3, <2>1, <2>2 DEF readVars, PlainTypes, PlainSlice
  <2> QED BY <1>1, <1>2, <2>2, <2>3, <2>4 DEF CallTypes, serverVars
<1>4. CASE Unread(decrypted) = 0 /\ AwaitRecord /\ UNCHANGED plainVars
  <2>1. PlainTypes' /\ decrypted' = decrypted /\ decrypted.consumed = decrypted.len
    BY <1>4 DEF plainVars, PlainTypes, Unread
  <2>2. CASE body_active
    <3>1. /\ AwaitBody(body_len) /\ UNCHANGED <<hdr, body_active, body_len, pending>>
          /\ pending < body_len /\ body_len \in BodyLens /\ decoded + pending <= BufLen
      BY <1>4, <2>2 DEF AwaitRecord, BodySlice, HeaderTypes, BufferTypes
    <3>2. /\ call' \in {"body", "too_large"}
          /\ buf' \in [0 .. BufLen - 1 -> Bytes]
          /\ decoded' \in 0 .. BufLen
          /\ decoded' + pending <= BufLen
          /\ call' = "body" => decoded' + body_len <= BufLen
      BY <3>1, AwaitBodyBounds
    <3>3. HeaderTypes' /\ BufferTypes'
      BY <3>1, <3>2 DEF HeaderTypes, BufferTypes
    <3>4. BodySlice'
      BY <2>2, <3>1, <3>2 DEF BodySlice
    <3>5. PlainSlice'
      BY <2>1, <3>2 DEF PlainSlice, PlainTypes
    <3>6. CallTypes'
      BY <1>1, <3>2 DEF CallTypes, serverVars, Ended
    <3> QED BY <1>2, <2>1, <3>3, <3>4, <3>5, <3>6
  <2>3. CASE ~body_active
    <3>1. call' = "header" /\ UNCHANGED readVars
      BY <1>4, <2>3 DEF AwaitRecord
    <3>2. HeaderTypes' /\ BufferTypes' /\ BodySlice'
      BY <2>3, <3>1 DEF readVars, HeaderTypes, BufferTypes, BodySlice
    <3>3. PlainSlice'
      BY <2>1, <3>1 DEF PlainSlice, PlainTypes
    <3> QED BY <1>1, <1>2, <2>1, <3>1, <3>2, <3>3 DEF CallTypes, serverVars
  <2> QED BY <2>2, <2>3
<1> QED BY <1>3, <1>4 DEF Read

\* Header bytes: after the last one, there is room for the body.
LEMMA ReadHeaderBounds ==
    ASSUME Bounds, NEW n \in 1 .. Available, ReadHeader(n)
    PROVE  Bounds'
<1> USE ReaderAssumption DEF Bounds
<1>1. /\ taken' \in 0 .. Len(stream)
      /\ hdr' \in Seq(Bytes) /\ Len(hdr') <= HeaderLen
  BY HeaderBytes
<1>2. call = "header" /\ UNCHANGED <<serverVars, plainVars, want, pending>>
  BY DEF ReadHeader
<1>3. ~body_active /\ pending = 0 /\ decrypted.consumed = decrypted.len
  BY <1>2 DEF BodySlice, PlainSlice
<1>4. ServerTypes' /\ PlainTypes' /\ decrypted' = decrypted
  BY <1>2 DEF ServerTypes, PlainTypes, serverVars, plainVars
<1>5. CASE n < HeaderLeft \/ ~WholeHeader(hdr')
  <2>1. /\ UNCHANGED <<body_active, body_len, decoded, buf>>
        /\ call' \in {"header", "crypto_error"}
    BY <1>2, <1>5 DEF ReadHeader
  <2>2. HeaderTypes' /\ BufferTypes'
    BY <1>1, <1>2, <2>1 DEF HeaderTypes, BufferTypes
  <2>3. BodySlice'
    BY <1>2, <1>3, <2>1 DEF BodySlice
  <2>4. PlainSlice'
    BY <1>3, <1>4, <2>1 DEF PlainSlice
  <2>5. CallTypes'
    BY <1>1, <1>2, <2>1 DEF CallTypes, Ended, serverVars
  <2> QED BY <1>4, <2>2, <2>3, <2>4, <2>5
<1>6. CASE ~(n < HeaderLeft) /\ WholeHeader(hdr')
  <2>1. body_active' = TRUE /\ body_len' = DecodedLen(hdr') /\ AwaitBody(body_len')
    BY <1>6 DEF ReadHeader
  <2>2. body_len' \in BodyLens
    <3>1. PICK k \in DOMAIN records : hdr' = RecordBytes(k, 0)
      BY <1>6 DEF WholeHeader
    <3>2. RecordBytes(k, 0)[1] = [rec |-> k, off |-> 0]
      BY DEF RecordBytes
    <3>3. hdr'[1].rec = k
      BY <3>1, <3>2
    <3>4. records[k] \in Records
      BY <3>1, RecordTypes
    <3> QED BY <2>1, <3>3, <3>4 DEF DecodedLen, Records
  <2>3. body_len' \in Nat /\ body_len' > 0 /\ decoded + pending <= BufLen
    BY <2>2 DEF BodySlice
  <2>4. /\ call' \in {"body", "too_large"}
        /\ buf' \in [0 .. BufLen - 1 -> Bytes]
        /\ decoded' \in 0 .. BufLen
        /\ decoded' + pending <= BufLen
        /\ call' = "body" => decoded' + body_len' <= BufLen
    BY <1>3, <2>1, <2>2, <2>3, AwaitBodyBounds
  <2>5. body_active' \in BOOLEAN
    BY <2>1
  <2>6. HeaderTypes' /\ BufferTypes'
    BY <1>1, <1>2, <2>2, <2>4, <2>5 DEF HeaderTypes, BufferTypes
  <2>7. BodySlice'
    BY <1>2, <1>3, <2>1, <2>3, <2>4 DEF BodySlice
  <2>8. PlainSlice'
    BY <1>3, <1>4, <2>4 DEF PlainSlice, PlainTypes
  <2>9. CallTypes'
    BY <1>1, <1>2, <2>4 DEF CallTypes, Ended, serverVars
  <2> QED BY <1>4, <2>6, <2>7, <2>8, <2>9
<1> QED BY <1>5, <1>6

\* What is left of a whole body once it has been decrypted.
LEMMA DecryptCases ==
    ASSUME Bounds, NEW n \in 1 .. Available, ReadBody(n), ~(pending + n < body_len)
    PROVE  /\ body_active' = FALSE /\ hdr' = <<>>
           /\ decoded' = decoded + body_len /\ pending' = 0 /\ pending + n = body_len
           /\ \/ UNCHANGED plainVars /\ call' = "crypto_error" /\ ~Authentic(buf')
              \/ UNCHANGED plainVars /\ call' \in {"closed", "panicked"} /\ Authentic(buf')
              \/ /\ Authentic(buf') /\ counter' = counter + 1
                 /\ records[counter].kind = "ticket"
                 /\ call' = "header" /\ UNCHANGED <<decrypted, out>>
              \/ /\ Authentic(buf') /\ counter' = counter + 1
                 /\ records[counter].kind = "data"
                 /\ body_len > Sealing /\ Pop(Plaintext, buf', want)
              \/ /\ Authentic(buf') /\ counter' = counter + 1
                 /\ records[counter].kind = "data"
                 /\ body_len = Sealing /\ decrypted' = Plaintext
                 /\ call' = "header" /\ UNCHANGED out
<1>1. n \in Nat /\ body_len \in Nat /\ pending \in Nat /\ pending + n <= body_len
      /\ body_len >= Sealing /\ Sealing \in Nat
  BY BodyBytes, ReaderAssumption DEF Bounds, BufferTypes
<1>2. pending + n = body_len
  BY <1>1
<1>3. /\ body_active' = FALSE /\ hdr' = <<>> /\ decoded' = decoded + body_len
      /\ pending' = pending + n - body_len /\ Decrypt(buf')
  BY DEF ReadBody
<1>4. pending' = 0
  BY <1>1, <1>2, <1>3
<1>5. Unread(Plaintext) = body_len - Sealing
  BY <1>1 DEF Unread, Plaintext
<1>6. (Unread(Plaintext) > 0 <=> body_len > Sealing) /\ (~(Unread(Plaintext) > 0) <=> body_len = Sealing)
  BY <1>1, <1>5
<1> QED BY <1>2, <1>3, <1>4, <1>6 DEF Decrypt

\* Body bytes: they land in the room made for them.
LEMMA ReadBodyBounds ==
    ASSUME Bounds, NEW n \in 1 .. Available, ReadBody(n)
    PROVE  Bounds'
<1> USE ReaderAssumption DEF Bounds
<1>1. /\ n \in Nat \ {0} /\ taken' \in 0 .. Len(stream)
      /\ body_len \in BodyLens /\ body_len \in Nat /\ body_len >= Sealing
      /\ body_active /\ pending + n <= body_len
      /\ decoded + body_len <= BufLen
      /\ decrypted.consumed = decrypted.len
      /\ buf' \in [0 .. BufLen - 1 -> Bytes]
  BY BodyBytes
<1>2. call = "body" /\ UNCHANGED <<serverVars, body_len, want>>
  BY DEF ReadBody
<1>3. ServerTypes'
  BY <1>2 DEF ServerTypes, serverVars
<1>4. decoded \in Nat /\ pending \in Nat
  BY DEF BufferTypes
<1>5. CASE pending + n < body_len
  <2>1. pending' = pending + n /\ UNCHANGED <<hdr, body_active, decoded, plainVars, call>>
    BY <1>5 DEF ReadBody
  <2>2. HeaderTypes' /\ BufferTypes'
    BY <1>1, <1>2, <1>4, <2>1 DEF HeaderTypes, BufferTypes
  <2>3. BodySlice'
    BY <1>1, <1>2, <1>4, <1>5, <2>1 DEF BodySlice
  <2>4. PlainTypes' /\ PlainSlice'
    BY <2>1 DEF plainVars, PlainTypes, PlainSlice
  <2>5. CallTypes'
    BY <1>1, <1>2, <2>1 DEF CallTypes, serverVars
  <2> QED BY <1>3, <2>2, <2>3, <2>4, <2>5
<1>6. CASE ~(pending + n < body_len)
  <2>1. /\ body_active' = FALSE /\ hdr' = <<>>
        /\ decoded' = decoded + body_len /\ pending' = 0
    BY <1>6, DecryptCases
  <2>0. body_active' \in BOOLEAN
    BY <2>1
  <2>2. hdr' \in Seq(Bytes) /\ Len(hdr') = 0
    BY <2>1
  <2>3. HeaderTypes' /\ BufferTypes'
    BY <1>1, <1>2, <1>4, <2>0, <2>1, <2>2, SMTT(30) DEF HeaderTypes, BufferTypes
  <2>4. ASSUME call' \in {"crypto_error", "closed", "panicked", "header", "idle"} PROVE BodySlice' /\ CallTypes'
    BY <1>1, <1>2, <1>4, <2>1, <2>4 DEF BodySlice, CallTypes, Ended, serverVars
  <2>5. CASE UNCHANGED plainVars /\ call' \in {"crypto_error", "closed", "panicked"}
    <3>1. PlainTypes' /\ PlainSlice'
      BY <1>1, <2>5 DEF plainVars, PlainTypes, PlainSlice
    <3> QED BY <1>3, <2>3, <2>4, <2>5, <3>1
  <2>6. CASE counter' = counter + 1 /\ call' = "header" /\ UNCHANGED <<decrypted, out>>
    <3>1. PlainTypes' /\ PlainSlice'
      BY <1>1, <2>6 DEF PlainTypes, PlainSlice
    <3> QED BY <1>3, <2>3, <2>4, <2>6, <3>1
  <2>7. /\ Plaintext \in [offset : Nat, len : Nat, consumed : Nat]
        /\ Plaintext.offset = decoded /\ Plaintext.len = body_len - Sealing
        /\ Plaintext.consumed = 0
    BY <1>1, <1>4 DEF Plaintext
  <2>8. CASE counter' = counter + 1 /\ body_len > Sealing /\ Pop(Plaintext, buf', want)
    <3>1. /\ Plaintext.consumed < Plaintext.len /\ Plaintext.offset + Plaintext.len <= BufLen
          /\ want \in Nat \ {0} /\ out \in Seq(Bytes)
      BY <1>1, <1>4, <2>7, <2>8 DEF CallTypes, PlainTypes
    <3>2. PICK k \in Nat \ {0} :
             /\ k <= Plaintext.len - Plaintext.consumed
             /\ decrypted' \in [offset : Nat, len : Nat, consumed : Nat]
             /\ decrypted'.offset = Plaintext.offset /\ decrypted'.len = Plaintext.len
             /\ decrypted'.consumed = Plaintext.consumed + k
             /\ out' \in Seq(Bytes) /\ call' = "idle"
      <4>1. buf' \in [0 .. BufLen - 1 -> Bytes] /\ Plaintext \in [offset : Nat, len : Nat, consumed : Nat]
        BY <1>1, <2>7
      <4>2. Pop(Plaintext, buf', want)
        BY <2>8
      <4> HIDE DEF Plaintext
      <4> QED BY <3>1, <4>1, <4>2, SMTT(30), PopFacts
    <3>3. PlainTypes'
      BY <2>8, <3>2 DEF PlainTypes
    <3>4. PlainSlice'
      BY <1>1, <1>4, <2>1, <2>7, <3>2 DEF PlainSlice
    <3> QED BY <1>3, <2>3, <2>4, <3>2, <3>3, <3>4
  <2>9. CASE counter' = counter + 1 /\ body_len = Sealing /\ decrypted' = Plaintext
             /\ call' = "header" /\ UNCHANGED out
    <3>1. PlainTypes'
      BY <2>7, <2>9 DEF PlainTypes
    <3>2. PlainSlice'
      BY <1>1, <1>4, <2>1, <2>7, <2>9 DEF PlainSlice
    <3> QED BY <1>3, <2>3, <2>4, <2>9, <3>1, <3>2
  <2> QED BY <1>6, <2>5, <2>6, <2>8, <2>9, DecryptCases
<1> QED BY <1>5, <1>6

\* Bounds is inductive.
LEMMA BoundsStep == Bounds /\ [Next]_vars => Bounds'
<1> SUFFICES ASSUME Bounds, [Next]_vars PROVE Bounds'
  OBVIOUS
<1>1. CASE DropRead \/ ReadFails
  <2>1. /\ call' \in {"idle", "io_error"}
        /\ UNCHANGED <<serverVars, taken, readVars, plainVars, want>>
    BY <1>1 DEF DropRead, ReadFails
  <2>2. ServerTypes' /\ CallTypes'
    BY <2>1 DEF Bounds, ServerTypes, CallTypes, serverVars, Ended
  <2>3. HeaderTypes' /\ BufferTypes' /\ BodySlice'
    BY <2>1 DEF Bounds, HeaderTypes, BufferTypes, BodySlice, readVars
  <2>4. PlainTypes' /\ PlainSlice'
    BY <2>1 DEF Bounds, PlainTypes, PlainSlice, plainVars, readVars
  <2> QED BY <2>2, <2>3, <2>4 DEF Bounds
<1>2. CASE UNCHANGED vars
  <2>1. ServerTypes' /\ CallTypes'
    BY <1>2 DEF Bounds, ServerTypes, CallTypes, serverVars, vars
  <2>2. HeaderTypes' /\ BufferTypes' /\ BodySlice'
    BY <1>2 DEF Bounds, HeaderTypes, BufferTypes, BodySlice, readVars, vars
  <2>3. PlainTypes' /\ PlainSlice'
    BY <1>2 DEF Bounds, PlainTypes, PlainSlice, plainVars, readVars, vars
  <2> QED BY <2>1, <2>2, <2>3 DEF Bounds
<1> QED
  BY <1>1, <1>2, ServerBounds, ReadBounds, ReadHeaderBounds, ReadBodyBounds
  DEF Next, Server, Socket

\* The reader's variables stay in type: no counter of a partial read runs over.
THEOREM ReaderTyping == Spec => []TypeOK
  BY BoundsInit, BoundsStep, BoundsTypes, PTL DEF Spec

\* Every slice of the read buffer exists and no subtraction underflows.
THEOREM InBounds == Spec => []SlicesInBounds
  BY BoundsInit, BoundsStep, BoundsSlices, PTL DEF Spec

-----------------------------------------------------------------------------
(* The reader in step with the server.                                     *)

\* Where record k begins in `stream`, and its data in `plain`; for the record
\* the server will send next, the ends of both.
At(k)    == IF k \in DOMAIN records THEN records[k].at ELSE Len(stream)
First(k) == IF k \in DOMAIN records THEN records[k].first ELSE Len(plain)

DataLen(r) == IF r.kind = "data" THEN r.len - Sealing ELSE 0

Layout ==
    \A k \in DOMAIN records :
        /\ At(k + 1) = records[k].at + HeaderLen + records[k].len
        /\ records[k].at + HeaderLen + records[k].len <= Len(stream)
        /\ First(k + 1) = records[k].first + DataLen(records[k])
        /\ records[k].first + DataLen(records[k]) <= Len(plain)
        /\ \A i \in 1 .. HeaderLen + records[k].len :
               stream[records[k].at + i] = [rec |-> k, off |-> i - 1]
        /\ \A i \in 1 .. DataLen(records[k]) :
               plain[records[k].first + i] = [rec |-> k, off |-> HeaderLen + i - 1]

\* What is received of the current record is the beginning of record `counter`.
InRecord ==
    /\ taken = At(counter) + Len(hdr) + pending
    /\ \A i \in 1 .. Len(hdr) : hdr[i] = [rec |-> counter, off |-> i - 1]
    /\ \A i \in 0 .. pending - 1 : buf[decoded + i] = [rec |-> counter, off |-> HeaderLen + i]
    /\ body_active => /\ counter \in DOMAIN records
                      /\ body_len = records[counter].len
                      /\ Len(hdr) = HeaderLen
    /\ ~body_active => Len(hdr) < HeaderLen

\* What was returned and what is still to be returned of the records decrypted.
InStream ==
    /\ First(counter) = Len(out) + (decrypted.len - decrypted.consumed)
    /\ \A i \in 1 .. Len(out) : out[i] = plain[i]
    /\ \A i \in 1 .. decrypted.len - decrypted.consumed :
           buf[decrypted.offset + decrypted.consumed + i - 1] = plain[Len(out) + i]

Sync ==
    /\ Layout
    /\ counter <= Len(records) + 1
    /\ call \notin Ended => InRecord
    /\ call # "crypto_error"
    /\ InStream

\* The lengths in a record.
LEMMA RecordLens ==
    ASSUME ServerTypes
    PROVE  \A k \in DOMAIN records :
               /\ records[k].at \in Nat /\ records[k].first \in Nat /\ records[k].len \in Nat
               /\ records[k].len - Sealing \in Nat /\ DataLen(records[k]) \in Nat
<1> TAKE k \in DOMAIN records
<1>1. records[k] \in Records
  BY RecordTypes
<1>2. /\ records[k].at \in Nat /\ records[k].first \in Nat /\ records[k].len \in Nat
      /\ records[k].len - Sealing \in Nat
  <2>1. /\ records[k].at \in Nat /\ records[k].first \in Nat /\ records[k].len \in BodyLens
    BY <1>1 DEF Records
  <2>2. \A len \in BodyLens : len \in Nat /\ len - Sealing \in Nat
    BY ReaderAssumption
  <2> QED BY <2>1, <2>2
<1>3. DataLen(records[k]) = records[k].len - Sealing \/ DataLen(records[k]) = 0
  BY DEF DataLen
<1>4. DataLen(records[k]) \in Nat
  BY <1>2, <1>3
<1> QED BY <1>2, <1>4

\* Nothing has been sent.
LEMMA SyncInit == Init => Sync
<1> SUFFICES ASSUME Init PROVE Sync
  OBVIOUS
<1>1. Len(records) = 0 /\ DOMAIN records = {} /\ Len(stream) = 0 /\ Len(plain) = 0 /\ Len(out) = 0
  BY DEF Init
<1>2. Layout
  BY <1>1 DEF Layout
<1>3. InRecord
  BY <1>1, ReaderAssumption DEF Init, InRecord, At
<1>4. InStream
  BY <1>1 DEF Init, InStream, First
<1> QED BY <1>1, <1>2, <1>3, <1>4 DEF Init, Sync

\* A new record leaves the place of the others, and of itself, as it was.
LEMMA ServerPlaces ==
    ASSUME Bounds, Layout, NEW kind \in Kinds, NEW len \in BodyLens, ServerSends(kind, len)
    PROVE  /\ Layout'
           /\ \A k \in 1 .. Len(records) + 1 : At(k)' = At(k) /\ First(k)' = First(k)
           /\ Len(records') = Len(records) + 1
           /\ \A k \in DOMAIN records : k \in DOMAIN records' /\ records'[k] = records[k]
           /\ Len(plain') >= Len(plain)
           /\ \A i \in 1 .. Len(plain) : plain'[i] = plain[i]
<1> PICK m \in Nat : m = Len(records) + 1
  BY DEF Bounds, ServerTypes
<1> DEFINE r == [kind |-> kind, len |-> len, at |-> Len(stream), first |-> Len(plain)]
           s == RecordBytes(m, len)
           p == IF kind = "data" THEN PlainBytes(m, len) ELSE <<>>
<1>1. /\ len \in Nat /\ HeaderLen \in Nat /\ Sealing \in Nat /\ len - Sealing \in Nat
      /\ records \in Seq(Records) /\ stream \in Seq(Bytes) /\ plain \in Seq(Bytes)
  BY ReaderAssumption DEF Bounds, ServerTypes
<1>2. Len(stream) \in Nat /\ Len(plain) \in Nat /\ Len(records) \in Nat
  BY <1>1
<1>3. /\ s \in Seq(Bytes) /\ Len(s) = HeaderLen + len
      /\ \A i \in 1 .. HeaderLen + len : s[i] = [rec |-> m, off |-> i - 1]
  BY <1>1, <1>2 DEF RecordBytes, Bytes
<1>4. /\ p \in Seq(Bytes) /\ Len(p) = DataLen(r)
      /\ \A i \in 1 .. DataLen(r) : p[i] = [rec |-> m, off |-> HeaderLen + i - 1]
  <2>1. CASE kind = "data"
    BY <1>1, <1>2, <2>1 DEF PlainBytes, Bytes, DataLen
  <2>2. CASE kind # "data"
    BY <2>2 DEF DataLen
  <2> QED BY <2>1, <2>2
<1>5. r \in Records /\ r.at = Len(stream) /\ r.first = Len(plain) /\ r.len = len /\ r.kind = kind
  BY <1>2 DEF Records
<1>6. records' = Append(records, r) /\ stream' = stream \o s
  BY DEF ServerSends
<1>7. plain' = plain \o p
  <2>1. CASE kind = "data"
    BY <2>1 DEF ServerSends
  <2>2. CASE kind # "data"
    <3>1. plain' = plain /\ p = <<>>
      BY <2>2 DEF ServerSends
    <3>2. plain \o <<>> = plain
      BY <1>1
    <3> QED BY <3>1, <3>2
  <2> QED BY <2>1, <2>2
<1>8. DataLen(r) \in Nat
  BY <1>1, <1>5 DEF DataLen
<1> HIDE DEF s, p, r
<1>9. /\ Len(records') = m /\ records'[m] = r
      /\ DOMAIN records = 1 .. Len(records) /\ DOMAIN records' = 1 .. m
      /\ \A k \in DOMAIN records : records'[k] = records[k]
  BY <1>1, <1>2, <1>5, <1>6, <1>8
<1>10. /\ Len(stream \o s) = Len(stream) + Len(s)
       /\ \A i \in 1 .. Len(stream) : (stream \o s)[i] = stream[i]
       /\ \A i \in 1 .. Len(s) : (stream \o s)[Len(stream) + i] = s[i]
  <2>1. s \in Seq(Bytes) /\ stream \in Seq(Bytes)
    BY <1>1, <1>3
  <2> QED BY <2>1, ConcatFacts
<1>11. /\ Len(plain \o p) = Len(plain) + Len(p)
       /\ \A i \in 1 .. Len(plain) : (plain \o p)[i] = plain[i]
       /\ \A i \in 1 .. Len(p) : (plain \o p)[Len(plain) + i] = p[i]
  <2>1. p \in Seq(Bytes) /\ plain \in Seq(Bytes)
    BY <1>1, <1>4
  <2> QED BY <2>1, ConcatFacts
<1>12. /\ Len(stream') = Len(stream) + HeaderLen + len
       /\ \A i \in 1 .. Len(stream) : stream'[i] = stream[i]
       /\ \A i \in 1 .. HeaderLen + len : stream'[Len(stream) + i] = [rec |-> m, off |-> i - 1]
  BY <1>1, <1>2, <1>3, <1>6, <1>10, SMTT(30)
<1>13. /\ Len(plain') = Len(plain) + DataLen(r)
       /\ \A i \in 1 .. Len(plain) : plain'[i] = plain[i]
       /\ \A i \in 1 .. DataLen(r) : plain'[Len(plain) + i] = [rec |-> m, off |-> HeaderLen + i - 1]
  BY <1>2, <1>4, <1>7, <1>11
<1>14. \A k \in 1 .. m : At(k)' = At(k) /\ First(k)' = First(k)
  <2> TAKE k \in 1 .. m
  <2>1. CASE k \in DOMAIN records
    BY <1>9, <2>1 DEF At, First
  <2>2. CASE k \notin DOMAIN records
    <3>1. k = m
      BY <1>2, <1>8, <1>9, <2>2
    <3> QED BY <1>5, <1>9, <2>2, <3>1 DEF At, First
  <2> QED BY <2>1, <2>2
<1>15. At(m + 1)' = Len(stream') /\ First(m + 1)' = Len(plain')
  BY <1>2, <1>9 DEF At, First
<1>16. Layout'
  <2> SUFFICES ASSUME NEW k \in DOMAIN records'
               PROVE  /\ At(k + 1)' = records'[k].at + HeaderLen + records'[k].len
                      /\ records'[k].at + HeaderLen + records'[k].len <= Len(stream')
                      /\ First(k + 1)' = records'[k].first + DataLen(records'[k])
                      /\ records'[k].first + DataLen(records'[k]) <= Len(plain')
                      /\ \A i \in 1 .. HeaderLen + records'[k].len :
                             stream'[records'[k].at + i] = [rec |-> k, off |-> i - 1]
                      /\ \A i \in 1 .. DataLen(records'[k]) :
                             plain'[records'[k].first + i] = [rec |-> k, off |-> HeaderLen + i - 1]
    BY DEF Layout, DataLen
  <2>1. CASE k = m
    <3>1. At(k + 1)' = Len(stream') /\ First(k + 1)' = Len(plain') /\ records'[k] = r
      BY <1>9, <1>15, <2>1
    <3>2. /\ Len(stream') = r.at + HeaderLen + r.len
          /\ \A i \in 1 .. HeaderLen + r.len : stream'[r.at + i] = [rec |-> k, off |-> i - 1]
      BY <1>5, <1>12, <2>1
    <3>3. /\ Len(plain') = r.first + DataLen(r)
          /\ \A i \in 1 .. DataLen(r) : plain'[r.first + i] = [rec |-> k, off |-> HeaderLen + i - 1]
      BY <1>5, <1>13, <2>1
    <3>4. Len(stream') \in Nat /\ Len(plain') \in Nat
      BY <1>1, <1>2, <1>8, <1>12, <1>13
    <3>5. Len(stream') <= Len(stream') /\ Len(plain') <= Len(plain')
      BY <3>4
    <3> QED BY <3>1, <3>2, <3>3, <3>5
  <2>2. CASE k # m
    <3>1. k \in DOMAIN records /\ records'[k] = records[k] /\ k \in Nat /\ k + 1 \in 1 .. m
      BY <1>2, <1>8, <1>9, <2>2
    <3>3. records[k].at \in Nat /\ records[k].first \in Nat /\ records[k].len \in Nat
          /\ records[k].len - Sealing \in Nat /\ DataLen(records[k]) \in Nat
      BY <3>1, RecordLens DEF Bounds
    <3>4. /\ At(k + 1) = records[k].at + HeaderLen + records[k].len
          /\ First(k + 1) = records[k].first + DataLen(records[k])
      BY <3>1 DEF Layout
    <3>5. /\ records[k].at + HeaderLen + records[k].len <= Len(stream)
          /\ records[k].first + DataLen(records[k]) <= Len(plain)
      BY <3>1 DEF Layout
    <3>6. /\ \A i \in 1 .. HeaderLen + records[k].len :
                 stream[records[k].at + i] = [rec |-> k, off |-> i - 1]
          /\ \A i \in 1 .. DataLen(records[k]) :
                 plain[records[k].first + i] = [rec |-> k, off |-> HeaderLen + i - 1]
      BY <3>1 DEF Layout
    <3>7. records[k].at + HeaderLen + records[k].len <= Len(stream')
      <4>1. Len(stream') = Len(stream) + HeaderLen + len
        BY <1>12
      <4>2. len \in Nat /\ HeaderLen \in Nat /\ Len(stream) \in Nat
        BY <1>1, <1>2
      <4>3. records[k].at \in Nat /\ records[k].len \in Nat
        BY <3>3
      <4>4. records[k].at + HeaderLen + records[k].len <= Len(stream)
        BY <3>5
      <4> QED BY <4>1, <4>2, <4>3, <4>4, SMTT(30)
    <3>8. records[k].first + DataLen(records[k]) <= Len(plain')
      <4>1. Len(plain') = Len(plain) + DataLen(r)
        BY <1>13
      <4> QED BY <1>2, <1>8, <3>3, <3>5, <4>1, SMTT(30)
    <3>9. At(k + 1)' = At(k + 1) /\ First(k + 1)' = First(k + 1)
      BY <1>14, <3>1
    <3>10. \A i \in 1 .. HeaderLen + records[k].len :
               stream'[records[k].at + i] = [rec |-> k, off |-> i - 1]
      <4> TAKE i \in 1 .. HeaderLen + records[k].len
      <4>1. records[k].at + i \in 1 .. Len(stream)
        <5>1. HeaderLen \in Nat /\ Len(stream) \in Nat /\ records[k].at \in Nat /\ records[k].len \in Nat
          BY <1>1, <1>2, <3>3
        <5>2. records[k].at + HeaderLen + records[k].len <= Len(stream)
          BY <3>5
        <5>3. HeaderLen + records[k].len \in Nat /\ records[k].at + (HeaderLen + records[k].len) <= Len(stream)
          BY <5>1, <5>2, SMTT(30)
        <5> QED BY <5>1, <5>3, Within
      <4> QED BY <1>12, <3>6, <4>1
    <3>11. \A i \in 1 .. DataLen(records[k]) :
               plain'[records[k].first + i] = [rec |-> k, off |-> HeaderLen + i - 1]
      <4> TAKE i \in 1 .. DataLen(records[k])
      <4>1. records[k].first + i \in 1 .. Len(plain)
        <5>1. Len(plain) \in Nat /\ records[k].first \in Nat /\ DataLen(records[k]) \in Nat
          BY <1>2, <3>3
        <5>2. records[k].first + DataLen(records[k]) <= Len(plain)
          BY <3>5
        <5> QED BY <5>1, <5>2, Within
      <4> QED BY <1>13, <3>6, <4>1
    <3> QED BY <3>1, <3>4, <3>7, <3>8, <3>9, <3>10, <3>11
  <2> QED BY <2>1, <2>2
<1>17. Len(plain') >= Len(plain)
  BY <1>2, <1>8, <1>13
<1> QED BY <1>8, <1>9, <1>13, <1>14, <1>16, <1>17

\* What record `counter` holds lies within the two streams.
LEMMA CounterPlaces ==
    ASSUME Bounds, Layout, counter <= Len(records) + 1
    PROVE  /\ counter \in DOMAIN records \/ counter = Len(records) + 1
           /\ At(counter) \in Nat /\ At(counter) <= Len(stream)
           /\ First(counter) \in Nat /\ First(counter) <= Len(plain)
<1>1. /\ counter \in Nat \ {0} /\ HeaderLen \in Nat
      /\ Len(records) \in Nat /\ Len(stream) \in Nat /\ Len(plain) \in Nat
      /\ DOMAIN records = 1 .. Len(records)
  BY ReaderAssumption DEF Bounds, PlainTypes, ServerTypes
<1>2. counter \in DOMAIN records \/ counter = Len(records) + 1
  BY <1>1
<1>3. CASE counter \notin DOMAIN records
  BY <1>1, <1>2, <1>3 DEF At, First
<1>4. CASE counter \in DOMAIN records
  <2>2. /\ records[counter].at \in Nat /\ records[counter].first \in Nat
        /\ records[counter].len \in Nat /\ DataLen(records[counter]) \in Nat
    BY <1>4, RecordLens DEF Bounds
  <2>3. /\ records[counter].at + HeaderLen + records[counter].len <= Len(stream)
        /\ records[counter].first + DataLen(records[counter]) <= Len(plain)
    BY <1>4 DEF Layout
  <2>4. At(counter) = records[counter].at /\ First(counter) = records[counter].first
    BY <1>4 DEF At, First
  <2>5. records[counter].at <= Len(stream)
    <3>1. /\ records[counter].at \in Nat /\ Len(stream) \in Nat
          /\ HeaderLen + records[counter].len \in Nat
      BY <1>1, <2>2, SMTT(30)
    <3>2. records[counter].at + (HeaderLen + records[counter].len) <= Len(stream)
      BY <1>1, <2>2, <2>3, SMTT(30)
    <3> QED BY <3>1, <3>2, PartFits
  <2>6. records[counter].first <= Len(plain)
    BY <1>1, <2>2, <2>3, PartFits
  <2> QED BY <1>4, <2>2, <2>4, <2>5, <2>6
<1> QED BY <1>2, <1>3, <1>4

\* Records sent keep their places when another one follows.
LEMMA SyncServer ==
    ASSUME Bounds, Sync, NEW kind \in Kinds, NEW len \in BodyLens, ServerSends(kind, len)
    PROVE  Sync'
<1>1. /\ Layout /\ counter <= Len(records) + 1 /\ InStream
      /\ call \notin Ended => InRecord
      /\ call # "crypto_error"
  BY DEF Sync
<1>2. UNCHANGED <<taken, readVars, plainVars, call, want>>
  BY DEF ServerSends
<1>3. /\ Layout' /\ Len(records') = Len(records) + 1
      /\ \A k \in 1 .. Len(records) + 1 : At(k)' = At(k) /\ First(k)' = First(k)
      /\ \A k \in DOMAIN records : k \in DOMAIN records' /\ records'[k] = records[k]
      /\ \A i \in 1 .. Len(plain) : plain'[i] = plain[i]
  BY <1>1, ServerPlaces
<1>4. /\ counter \in Nat \ {0} /\ Len(records) \in Nat /\ Len(plain) \in Nat /\ Len(out) \in Nat
      /\ decrypted.len - decrypted.consumed \in Nat
  BY DEF Bounds, PlainTypes, PlainSlice, ServerTypes
<1>5. PICK c \in 1 .. Len(records) + 1 : c = counter
  BY <1>1, <1>4
<1>6. At(counter)' = At(counter) /\ First(counter)' = First(counter)
  <2>1. At(counter)' = At(c)' /\ First(counter)' = First(c)'
    BY <1>2, <1>5 DEF At, First, plainVars
  <2>2. At(counter) = At(c) /\ First(counter) = First(c)
    BY <1>5
  <2> QED BY <1>3, <2>1, <2>2
<1>7. counter' <= Len(records') + 1
  BY <1>1, <1>2, <1>3, <1>4 DEF plainVars
<1>8. call' \notin Ended => InRecord'
  BY <1>1, <1>2, <1>3, <1>6 DEF InRecord, readVars, plainVars
<1>9. InStream'
  <2>1. First(counter) <= Len(plain)
    BY <1>1, CounterPlaces
  <2>2. /\ First(counter) = Len(out) + (decrypted.len - decrypted.consumed)
        /\ \A i \in 1 .. Len(out) : out[i] = plain[i]
        /\ \A i \in 1 .. decrypted.len - decrypted.consumed :
               buf[decrypted.offset + decrypted.consumed + i - 1] = plain[Len(out) + i]
    BY <1>1 DEF InStream
  <2>3. \A i \in 1 .. Len(out) : i \in 1 .. Len(plain)
    BY <1>4, <2>1, <2>2
  <2>4. \A i \in 1 .. decrypted.len - decrypted.consumed : Len(out) + i \in 1 .. Len(plain)
    BY <1>4, <2>1, <2>2, Within
  <2>5. UNCHANGED <<out, decrypted, buf, counter>>
    BY <1>2 DEF readVars, plainVars
  <2>6. \A i \in 1 .. Len(out) : out[i] = plain'[i]
    BY <1>3, <2>2, <2>3
  <2>7. \A i \in 1 .. decrypted.len - decrypted.consumed :
            buf[decrypted.offset + decrypted.consumed + i - 1] = plain'[Len(out) + i]
    BY <1>3, <2>2, <2>4
  <2> QED BY <1>6, <2>2, <2>5, <2>6, <2>7 DEF InStream
<1> QED BY <1>1, <1>2, <1>3, <1>7, <1>8, <1>9 DEF Sync

\* The places do not move when the server is silent.
LEMMA SamePlaces ==
    ASSUME Layout, UNCHANGED serverVars
    PROVE  /\ Layout'
           /\ counter' = counter => At(counter)' = At(counter) /\ First(counter)' = First(counter)
  BY DEF Layout, At, First, DataLen, serverVars

\* Dropped and failed calls leave everything but `call` as it is.
LEMMA SyncQuiet ==
    ASSUME Sync, UNCHANGED <<serverVars, taken, readVars, plainVars>>,
           call \notin Ended \/ call' = call, call' \in {"idle", "io_error"} \/ call' = call
    PROVE  Sync'
<1>1. /\ Layout /\ counter <= Len(records) + 1 /\ InStream
      /\ call \notin Ended => InRecord
      /\ call # "crypto_error"
  BY DEF Sync
<1>2. Layout' /\ At(counter)' = At(counter) /\ First(counter)' = First(counter)
  BY <1>1, SamePlaces DEF plainVars
<1>3. InRecord => InRecord'
  BY <1>2 DEF InRecord, readVars, plainVars, serverVars
<1>4. InStream'
  BY <1>1, <1>2 DEF InStream, readVars, plainVars, serverVars
<1>5. counter' <= Len(records') + 1
  BY <1>1 DEF plainVars, serverVars
<1> QED BY <1>1, <1>2, <1>3, <1>4, <1>5 DEF Sync, Ended

\* Popping hands on the plaintext where the caller's stream goes on.
LEMMA PopStream ==
    ASSUME out \in Seq(Bytes), NEW d \in [offset : Nat, len : Nat, consumed : Nat],
           NEW b \in [0 .. BufLen - 1 -> Bytes], NEW size \in Nat \ {0},
           d.consumed < d.len, d.offset + d.len <= BufLen, Pop(d, b, size),
           \A i \in 1 .. Len(out) : out[i] = plain[i],
           \A i \in 1 .. d.len - d.consumed : b[d.offset + d.consumed + i - 1] = plain[Len(out) + i]
    PROVE  /\ call' = "idle" /\ Len(out') >= Len(out)
           /\ Len(out') + (decrypted'.len - decrypted'.consumed) = Len(out) + (d.len - d.consumed)
           /\ \A i \in 1 .. Len(out') : out'[i] = plain[i]
           /\ \A i \in 1 .. decrypted'.len - decrypted'.consumed :
                  b[decrypted'.offset + decrypted'.consumed + i - 1] = plain[Len(out') + i]
<1>1. PICK n \in Nat \ {0} :
         /\ n <= d.len - d.consumed
         /\ decrypted' \in [offset : Nat, len : Nat, consumed : Nat]
         /\ decrypted'.offset = d.offset /\ decrypted'.len = d.len
         /\ decrypted'.consumed = d.consumed + n
         /\ out' \in Seq(Bytes) /\ Len(out') = Len(out) + n
         /\ \A i \in 1 .. Len(out) : out'[i] = out[i]
         /\ \A i \in 1 .. n : out'[Len(out) + i] = b[d.offset + d.consumed + i - 1]
         /\ call' = "idle"
  BY PopFacts
<1>2. Len(out) \in Nat /\ d.offset \in Nat /\ d.len \in Nat /\ d.consumed \in Nat
  OBVIOUS
<1>3. ASSUME NEW i \in 1 .. Len(out') PROVE out'[i] = plain[i]
  <2>1. CASE i <= Len(out)
    BY <1>1, <1>2, <2>1, SMTT(30)
  <2>2. CASE i > Len(out)
    <3>1. PICK j \in 1 .. n : i = Len(out) + j
      <4>1. i - Len(out) \in 1 .. n /\ i = Len(out) + (i - Len(out))
        BY <1>1, <1>2, <2>2, SMTT(30)
      <4> QED BY <4>1
    <3>2. j \in 1 .. d.len - d.consumed
      BY <1>1, <1>2, SMTT(30)
    <3> QED BY <1>1, <3>1, <3>2
  <2> QED BY <1>1, <1>2, <2>1, <2>2
<1>4. ASSUME NEW i \in 1 .. decrypted'.len - decrypted'.consumed
      PROVE  b[decrypted'.offset + decrypted'.consumed + i - 1] = plain[Len(out') + i]
  <2>1. PICK j \in 1 .. d.len - d.consumed : j = n + i
    BY <1>1, <1>2, SMTT(30)
  <2>2. b[d.offset + d.consumed + j - 1] = plain[Len(out) + j]
    OBVIOUS
  <2>3. /\ d.offset + d.consumed + j - 1 = decrypted'.offset + decrypted'.consumed + i - 1
        /\ Len(out) + j = Len(out') + i
    <3>1. decrypted'.offset = d.offset /\ decrypted'.consumed = d.consumed + n /\ Len(out') = Len(out) + n
      BY <1>1
    <3>2. i \in Nat /\ n \in Nat /\ Len(out) \in Nat /\ d.offset \in Nat /\ d.consumed \in Nat
      BY <1>1, <1>2
    <3>3. d.offset + d.consumed + (n + i) - 1 = d.offset + (d.consumed + n) + i - 1
      BY <3>2, SMTT(30)
    <3>4. Len(out) + (n + i) = (Len(out) + n) + i
      BY <3>2
    <3> QED BY <2>1, <3>1, <3>3, <3>4
  <2> QED BY <2>2, <2>3
<1>5. Len(out') + (decrypted'.len - decrypted'.consumed) = Len(out) + (d.len - d.consumed)
  BY <1>1, <1>2
<1>6. Len(out') >= Len(out)
  BY <1>1, <1>2
<1> QED BY <1>1, <1>3, <1>4, <1>5, <1>6

\* A read() keeps what a dropped call received.
LEMMA SyncRead ==
    ASSUME Bounds, Sync, NEW size \in Wants, Read(size)
    PROVE  Sync' /\ Len(out') >= Len(out)
<1>1. /\ Layout /\ counter <= Len(records) + 1 /\ InStream /\ InRecord
  BY DEF Sync, Read, Ended
<1>2. UNCHANGED serverVars /\ taken' = taken
  BY DEF Read
<1>3. Layout' /\ (counter' = counter => At(counter)' = At(counter) /\ First(counter)' = First(counter))
  BY <1>1, <1>2, SamePlaces
<1>4. Len(out) \in Nat
  BY DEF Bounds, PlainTypes
<1>5. CASE Unread(decrypted) > 0 /\ Pop(decrypted, buf, size) /\ UNCHANGED <<readVars, counter>>
  <2>1. /\ decrypted.consumed < decrypted.len
        /\ decrypted \in [offset : Nat, len : Nat, consumed : Nat]
        /\ decrypted.offset + decrypted.len <= BufLen
        /\ buf \in [0 .. BufLen - 1 -> Bytes] /\ size \in Nat \ {0} /\ out \in Seq(Bytes)
    BY <1>5, ReaderAssumption DEF Unread, Bounds, PlainTypes, PlainSlice, BufferTypes
  <2>2. /\ First(counter) = Len(out) + (decrypted.len - decrypted.consumed)
        /\ \A i \in 1 .. Len(out) : out[i] = plain[i]
        /\ \A i \in 1 .. decrypted.len - decrypted.consumed :
               buf[decrypted.offset + decrypted.consumed + i - 1] = plain[Len(out) + i]
    BY <1>1 DEF InStream
  <2>3. /\ call' = "idle" /\ Len(out') >= Len(out)
        /\ Len(out') + (decrypted'.len - decrypted'.consumed) = Len(out) + (decrypted.len - decrypted.consumed)
        /\ \A i \in 1 .. Len(out') : out'[i] = plain[i]
        /\ \A i \in 1 .. decrypted'.len - decrypted'.consumed :
               buf[decrypted'.offset + decrypted'.consumed + i - 1] = plain[Len(out') + i]
    BY <1>5, <2>1, <2>2, PopStream
  <2>4. InStream'
    BY <1>2, <1>3, <1>5, <2>2, <2>3 DEF InStream, serverVars, readVars
  <2>5. InRecord'
    BY <1>1, <1>2, <1>3, <1>5 DEF InRecord, serverVars, readVars
  <2>6. counter' <= Len(records') + 1
    BY <1>1, <1>2, <1>5 DEF serverVars
  <2> QED BY <1>3, <2>3, <2>4, <2>5, <2>6 DEF Sync
<1>6. CASE Unread(decrypted) = 0 /\ AwaitRecord /\ UNCHANGED plainVars
  <2>1. decrypted.len - decrypted.consumed = 0 /\ decrypted' = decrypted /\ out' = out /\ counter' = counter
    BY <1>6 DEF plainVars, Unread
  <2>2. InStream'
    BY <1>1, <1>2, <1>3, <2>1 DEF InStream, serverVars
  <2>3. counter' <= Len(records') + 1
    BY <1>1, <1>2, <2>1 DEF serverVars
  <2>4. InRecord' /\ call' # "crypto_error"
    <3>1. CASE body_active
      <4>1. /\ AwaitBody(body_len) /\ UNCHANGED <<hdr, body_active, body_len, pending>>
            /\ pending < body_len /\ body_len \in BodyLens /\ decoded + pending <= BufLen
            /\ BufferTypes
        BY <1>6, <3>1, ReaderAssumption
        DEF AwaitRecord, Bounds, BodySlice, HeaderTypes, BufferTypes
      <4>2. /\ call' \in {"body", "too_large"}
            /\ \A i \in 0 .. pending - 1 : buf'[decoded' + i] = buf[decoded + i]
        BY <4>1, AwaitBodyBounds
      <4> QED BY <1>1, <1>2, <1>3, <2>1, <4>1, <4>2 DEF InRecord, serverVars
    <3>2. CASE ~body_active
      BY <1>1, <1>2, <1>3, <1>6, <2>1, <3>2 DEF AwaitRecord, InRecord, serverVars, readVars
    <3> QED BY <3>1, <3>2
  <2> QED BY <1>3, <1>4, <2>1, <2>2, <2>3, <2>4 DEF Sync
<1> QED BY <1>5, <1>6 DEF Read

\* A record of which something is still to come is in `stream` as a whole.
LEMMA RecordAhead ==
    ASSUME Bounds, Layout, counter \in DOMAIN records
    PROVE  /\ At(counter) = records[counter].at /\ First(counter) = records[counter].first
           /\ At(counter + 1) = records[counter].at + HeaderLen + records[counter].len
           /\ First(counter + 1) = records[counter].first + DataLen(records[counter])
           /\ counter + 1 <= Len(records) + 1
           /\ \A i \in 1 .. HeaderLen + records[counter].len :
                  stream[records[counter].at + i] = [rec |-> counter, off |-> i - 1]
           /\ \A i \in 1 .. DataLen(records[counter]) :
                  plain[records[counter].first + i] = [rec |-> counter, off |-> HeaderLen + i - 1]
<1>1. At(counter) = records[counter].at /\ First(counter) = records[counter].first
  BY DEF At, First
<1>2. counter \in 1 .. Len(records) /\ Len(records) \in Nat
  BY DEF Bounds, ServerTypes
<1>3. counter + 1 <= Len(records) + 1
  BY <1>2
<1> QED BY <1>1, <1>3 DEF Layout

\* The bytes of a header are those of the record expected next.
LEMMA SyncHeader ==
    ASSUME Bounds, Sync, NEW n \in 1 .. Available, ReadHeader(n)
    PROVE  Sync' /\ out' = out
<1> DEFINE a == records[counter].at
           l == records[counter].len
<1>1. /\ n \in Nat \ {0} /\ taken' = taken + n /\ taken' \in 0 .. Len(stream)
      /\ hdr' \in Seq(Bytes) /\ Len(hdr') = Len(hdr) + n /\ Len(hdr') <= HeaderLen
      /\ \A i \in 1 .. Len(hdr) : hdr'[i] = hdr[i]
      /\ \A i \in 1 .. n : hdr'[Len(hdr) + i] = stream[taken + i]
  BY HeaderBytes DEF Bounds
<1>2. /\ call = "header" /\ UNCHANGED <<serverVars, plainVars, want, pending>>
      /\ ~body_active /\ pending = 0 /\ decrypted.len - decrypted.consumed = 0
  <2>1. call = "header" /\ UNCHANGED <<serverVars, plainVars, want, pending>>
    BY DEF ReadHeader
  <2>2. ~body_active /\ pending = 0
    BY <2>1 DEF Bounds, BodySlice
  <2>3. decrypted.consumed = decrypted.len /\ decrypted.len \in Nat
    BY <2>1 DEF Bounds, PlainSlice, PlainTypes
  <2> QED BY <2>1, <2>2, <2>3
<1>3. /\ Layout /\ counter <= Len(records) + 1 /\ InStream /\ InRecord
  BY <1>2 DEF Sync, Ended
<1>4. /\ HeaderLen \in Nat /\ taken \in Nat /\ Len(stream) \in Nat /\ Len(hdr) \in Nat
      /\ counter \in Nat
  BY ReaderAssumption, SMTT(30) DEF Bounds, ServerTypes, CallTypes, HeaderTypes, PlainTypes
<1>5. taken = At(counter) + Len(hdr) /\ At(counter) \in Nat
  <2>1. taken = At(counter) + Len(hdr) + pending
    BY <1>3 DEF InRecord
  <2>2. At(counter) \in Nat
    BY <1>3, CounterPlaces
  <2> QED BY <1>2, <1>4, <2>1, <2>2
<1>6. counter \in DOMAIN records
  <2> SUFFICES ASSUME counter \notin DOMAIN records PROVE FALSE
    OBVIOUS
  <2>1. At(counter) = Len(stream)
    BY DEF At
  <2> QED BY <1>1, <1>4, <1>5, <2>1
<1>7. /\ At(counter) = a /\ a \in Nat /\ l \in Nat
      /\ \A i \in 1 .. HeaderLen + l : stream[a + i] = [rec |-> counter, off |-> i - 1]
  BY <1>3, <1>6, RecordAhead, RecordLens DEF Bounds
<1> HIDE DEF a, l
<1>8. ASSUME NEW i \in 1 .. Len(hdr') PROVE hdr'[i] = [rec |-> counter, off |-> i - 1]
  <2>1. CASE i <= Len(hdr)
    <3>1. i \in 1 .. Len(hdr)
      BY <1>1, <1>4, <2>1
    <3> QED BY <1>1, <1>3, <3>1 DEF InRecord
  <2>2. CASE i > Len(hdr)
    <3>1. PICK j \in 1 .. n : i = Len(hdr) + j
      <4>1. i - Len(hdr) \in 1 .. n /\ i = Len(hdr) + (i - Len(hdr))
        BY <1>1, <1>4, <2>2
      <4> QED BY <4>1
    <3>2. taken + j = a + i
      BY <1>1, <1>4, <1>5, <1>7, <3>1
    <3>3. i \in 1 .. HeaderLen + l
      BY <1>1, <1>4, <1>7, SMTT(30)
    <3>4. hdr'[i] = stream[a + i]
      BY <1>1, <3>1, <3>2
    <3> QED BY <1>7, <3>3, <3>4
  <2> QED BY <1>1, <1>4, <2>1, <2>2
<1>9. Layout' /\ At(counter)' = At(counter) /\ First(counter)' = First(counter) /\ counter' = counter
  BY <1>2, <1>3, SamePlaces DEF plainVars
<1>10. InStream' /\ counter' <= Len(records') + 1 /\ out' = out
  BY <1>2, <1>3, <1>9 DEF InStream, serverVars, plainVars
<1>11. taken' = At(counter)' + Len(hdr') + pending'
  BY <1>1, <1>2, <1>4, <1>5, <1>9, SMTT(30)
<1>12. /\ \A i \in 1 .. Len(hdr') : hdr'[i] = [rec |-> counter', off |-> i - 1]
       /\ \A i \in 0 .. pending' - 1 : buf'[decoded' + i] = [rec |-> counter', off |-> HeaderLen + i]
  BY <1>2, <1>8, <1>9
<1>13. CASE n < HeaderLeft
  <2>1. call' = call /\ body_active' = body_active
    BY <1>13 DEF ReadHeader
  <2>2. Len(hdr') < HeaderLen
    BY <1>1, <1>4, <1>13 DEF HeaderLeft
  <2>3. InRecord'
    BY <1>2, <1>11, <1>12, <2>1, <2>2 DEF InRecord
  <2> QED BY <1>2, <1>9, <1>10, <2>1, <2>3 DEF Sync
<1>14. CASE ~(n < HeaderLeft)
  <2>1. Len(hdr') = HeaderLen
    BY <1>1, <1>4, <1>14, SMTT(30) DEF HeaderLeft
  <2>2. hdr' = RecordBytes(counter, 0)
    <3>1. hdr' = [ i \in 1 .. HeaderLen |-> [rec |-> counter, off |-> i - 1] ]
      BY <1>1, <1>8, <2>1
    <3>2. HeaderLen + 0 = HeaderLen
      BY <1>4
    <3> QED BY <3>1, <3>2 DEF RecordBytes
  <2>3. WholeHeader(hdr')
    BY <1>6, <2>2 DEF WholeHeader
  <2>4. hdr'[1].rec = counter
    BY <1>8, <2>1, ReaderAssumption
  <2>5. /\ body_active' = TRUE /\ body_len' = l /\ AwaitBody(body_len')
    BY <1>14, <2>3, <2>4 DEF ReadHeader, DecodedLen, l
  <2>6. l \in BodyLens /\ pending < l /\ decoded + pending <= BufLen /\ BufferTypes
    <3>1. records[counter] \in Records
      BY <1>6, RecordTypes DEF Bounds
    <3>2. l \in BodyLens
      BY <3>1 DEF Records, l
    <3>3. pending < l
      BY <1>2, <3>2, ReaderAssumption
    <3>4. decoded + pending <= BufLen /\ BufferTypes
      BY DEF Bounds, BodySlice
    <3> QED BY <3>2, <3>3, <3>4
  <2>7. call' \in {"body", "too_large"}
    BY <2>5, <2>6, AwaitBodyBounds
  <2>8. counter' \in DOMAIN records' /\ body_len' = records'[counter'].len
    BY <1>2, <1>6, <1>9, <2>5 DEF serverVars, l
  <2>9. InRecord'
    BY <1>11, <1>12, <2>1, <2>5, <2>8 DEF InRecord
  <2> QED BY <1>9, <1>10, <2>7, <2>9 DEF Sync
<1> QED BY <1>13, <1>14

\* The bytes of a body are, and a whole body is that record's data.
LEMMA SyncBody ==
    ASSUME Bounds, Sync, NEW n \in 1 .. Available, ReadBody(n)
    PROVE  Sync' /\ Len(out') >= Len(out)
<1> DEFINE a == records[counter].at
           l == records[counter].len
           f == records[counter].first
<1>1. /\ n \in Nat \ {0} /\ taken' = taken + n
      /\ body_active /\ pending + n <= body_len /\ decoded + body_len <= BufLen
      /\ decrypted.consumed = decrypted.len
      /\ buf' \in [0 .. BufLen - 1 -> Bytes]
      /\ \A i \in 0 .. pending - 1 : buf'[decoded + i] = buf[decoded + i]
      /\ \A i \in 1 .. n : buf'[decoded + pending + i - 1] = stream[taken + i]
  BY BodyBytes
<1>2. call = "body" /\ UNCHANGED <<serverVars, body_len, want>>
  BY DEF ReadBody
<1>3. /\ Layout /\ counter <= Len(records) + 1 /\ InStream /\ InRecord
  BY <1>2 DEF Sync, Ended
<1>4. /\ BufLen \in Nat /\ HeaderLen \in Nat /\ Sealing \in Nat \ {0} /\ taken \in Nat /\ decoded \in Nat
      /\ pending \in Nat /\ counter \in Nat /\ Len(out) \in Nat /\ decrypted.len \in Nat
      /\ out \in Seq(Bytes) /\ want \in Nat \ {0}
  BY ReaderAssumption DEF Bounds, CallTypes, BufferTypes, PlainTypes
<1>5. /\ counter \in DOMAIN records /\ body_len = l /\ Len(hdr) = HeaderLen
      /\ taken = At(counter) + Len(hdr) + pending
      /\ \A i \in 0 .. pending - 1 : buf[decoded + i] = [rec |-> counter, off |-> HeaderLen + i]
  BY <1>1, <1>3 DEF InRecord
<1>6. /\ At(counter) = a /\ First(counter) = f
      /\ At(counter + 1) = a + HeaderLen + l
      /\ First(counter + 1) = f + DataLen(records[counter])
      /\ counter + 1 <= Len(records) + 1
      /\ \A i \in 1 .. HeaderLen + l : stream[a + i] = [rec |-> counter, off |-> i - 1]
      /\ \A i \in 1 .. DataLen(records[counter]) :
             plain[f + i] = [rec |-> counter, off |-> HeaderLen + i - 1]
  BY <1>3, <1>5, RecordAhead
<1>7. a \in Nat /\ l \in Nat /\ f \in Nat /\ l - Sealing \in Nat
  BY <1>5, RecordLens DEF Bounds
<1>8. decrypted.len - decrypted.consumed = 0 /\ First(counter) = Len(out)
      /\ \A i \in 1 .. Len(out) : out[i] = plain[i]
  BY <1>1, <1>3, <1>4, SMTT(30) DEF InStream
<1>9. taken = a + HeaderLen + pending
  BY <1>5, <1>6
<1>10. l = records[counter].len
  OBVIOUS
<1> HIDE DEF a, l, f
<1>num. /\ n \in Nat /\ n > 0 /\ pending + n <= l /\ taken' = taken + n
        /\ taken = a + HeaderLen + pending /\ body_len = l
        /\ a \in Nat /\ l \in Nat /\ HeaderLen \in Nat /\ pending \in Nat /\ decoded \in Nat
  <2>1. n \in Nat /\ n > 0 /\ taken' = taken + n
    BY <1>1
  <2>2. pending + n <= l /\ body_len = l
    BY <1>1, <1>5
  <2> QED BY <1>4, <1>7, <1>9, <2>1, <2>2
<1>11. ASSUME NEW i \in 0 .. pending + n - 1
       PROVE  buf'[decoded + i] = [rec |-> counter, off |-> HeaderLen + i]
  <2>1. CASE i < pending
    <3>1. i \in 0 .. pending - 1
      BY <1>4, <2>1
    <3> QED BY <1>1, <1>5, <3>1
  <2>2. CASE i >= pending
    <3>1. PICK j \in 1 .. n : i = pending + j - 1
      <4>1. i - pending + 1 \in 1 .. n /\ i = pending + (i - pending + 1) - 1
        BY <1>num, <2>2
      <4> QED BY <4>1
    <3>2. PICK k \in 1 .. HeaderLen + l : k = HeaderLen + i + 1
      BY <1>num, <3>1
    <3>3. decoded + i = decoded + pending + j - 1 /\ taken + j = a + k /\ k - 1 = HeaderLen + i
      BY <1>num, <3>1, <3>2
    <3>4. buf'[decoded + pending + j - 1] = stream[taken + j]
      BY <1>1
    <3>5. stream[a + k] = [rec |-> counter, off |-> k - 1]
      BY <1>6
    <3> QED BY <3>3, <3>4, <3>5
  <2> QED BY <1>num, <2>1, <2>2
<1>12. CASE pending + n < body_len
  <2>1. pending' = pending + n /\ UNCHANGED <<hdr, body_active, decoded, plainVars, call>>
    BY <1>12 DEF ReadBody
  <2>2. Layout' /\ At(counter)' = At(counter) /\ First(counter)' = First(counter) /\ counter' = counter
    BY <1>2, <1>3, <2>1, SamePlaces DEF plainVars
  <2>3. taken' = At(counter)' + Len(hdr') + pending'
    <3>1. At(counter)' = a /\ Len(hdr') = HeaderLen
      BY <1>5, <1>6, <2>1, <2>2
    <3> QED BY <1>num, <2>1, <3>1
  <2>4. \A i \in 0 .. pending' - 1 : buf'[decoded' + i] = [rec |-> counter', off |-> HeaderLen + i]
    <3>1. pending' - 1 = pending + n - 1 /\ decoded' = decoded /\ counter' = counter
      <4>1. pending' = pending + n /\ decoded' = decoded /\ counter' = counter
        BY <2>1, <2>2
      <4> QED BY <1>num, <4>1
    <3>2. \A i \in 0 .. pending + n - 1 : buf'[decoded + i] = [rec |-> counter, off |-> HeaderLen + i]
      BY <1>11
    <3> QED BY <3>1, <3>2
  <2>5. InRecord'
    BY <1>2, <1>3, <2>1, <2>2, <2>3, <2>4 DEF InRecord, serverVars
  <2>6. InStream'
    BY <1>2, <1>3, <1>8, <2>1, <2>2 DEF InStream, serverVars, plainVars
  <2>7. out' = out /\ counter' <= Len(records') + 1
    BY <1>2, <1>3, <2>1 DEF serverVars, plainVars
  <2> QED BY <1>2, <1>4, <2>1, <2>2, <2>5, <2>6, <2>7 DEF Sync
<1>13. CASE ~(pending + n < body_len)
  <2>1. /\ body_active' = FALSE /\ hdr' = <<>>
        /\ decoded' = decoded + body_len /\ pending' = 0 /\ pending + n = body_len
    BY <1>13, DecryptCases
  <2>2. Authentic(buf')
    <3>1. \A i \in 0 .. body_len - 1 : buf'[decoded + i] = [rec |-> counter, off |-> HeaderLen + i]
      <4>0. pending + n = body_len
        BY <2>1
      <4>1. body_len - 1 = pending + n - 1
        BY <1>num, <4>0
      <4>2. \A i \in 0 .. pending + n - 1 : buf'[decoded + i] = [rec |-> counter, off |-> HeaderLen + i]
        BY <1>11
      <4> QED BY <4>1, <4>2
    <3> QED BY <1>5, <1>10, <3>1 DEF Authentic
  <2>3. Layout' /\ UNCHANGED <<records, stream, plain>>
    BY <1>2, <1>3, SamePlaces DEF serverVars
  <2>4. \A k : At(k)' = At(k) /\ First(k)' = First(k)
    BY <2>3 DEF At, First
  <2>5. taken' = a + HeaderLen + l
    BY <1>num, <2>1
  <2>6. ASSUME counter' = counter + 1
        PROVE  /\ InRecord' /\ counter' <= Len(records') + 1
               /\ First(counter)' = f + DataLen(records[counter])
    <3>1. PICK c \in Nat : c = counter + 1
      BY <1>4
    <3>2. At(counter)' = At(c)' /\ First(counter)' = First(c)'
      BY <2>6, <3>1 DEF At, First
    <3>3. At(counter)' = a + HeaderLen + l /\ First(counter)' = f + DataLen(records[counter])
      BY <1>6, <2>4, <3>1, <3>2
    <3>4. Len(hdr') = 0 /\ pending' = 0 /\ ~body_active'
      BY <2>1
    <3>5. taken' = At(counter)' + Len(hdr') + pending'
      BY <1>4, <1>7, <2>5, <3>3, <3>4
    <3>6. Len(hdr') < HeaderLen
      BY <3>4, ReaderAssumption
    <3>7. InRecord'
      BY <3>4, <3>5, <3>6 DEF InRecord
    <3> QED BY <1>6, <2>3, <2>6, <3>3, <3>7
  <2>7. CASE UNCHANGED plainVars /\ call' \in {"closed", "panicked"}
    <3>1. First(counter)' = First(counter)
      BY <2>3, <2>7 DEF First, plainVars
    <3>2. InStream'
      BY <1>8, <2>3, <2>7, <3>1 DEF InStream, plainVars
    <3>3. counter' <= Len(records') + 1 /\ out' = out
      BY <1>3, <2>3, <2>7 DEF plainVars
    <3> QED BY <1>4, <2>3, <2>7, <3>2, <3>3 DEF Sync, Ended
  <2>8. CASE /\ counter' = counter + 1 /\ records[counter].kind = "ticket"
             /\ call' = "header" /\ UNCHANGED <<decrypted, out>>
    <3>1. First(counter)' = Len(out)
      <4>1. DataLen(records[counter]) = 0
        BY <2>8 DEF DataLen
      <4> QED BY <1>6, <1>7, <1>8, <2>6, <2>8, <4>1
    <3>2. InStream'
      BY <1>4, <1>8, <2>3, <2>8, <3>1 DEF InStream
    <3> QED BY <1>4, <2>3, <2>6, <2>8, <3>2 DEF Sync, Ended
  <2>9. /\ Plaintext \in [offset : Nat, len : Nat, consumed : Nat]
        /\ Plaintext.offset = decoded /\ Plaintext.len = l - Sealing
        /\ Plaintext.consumed = 0
    BY <1>4, <1>5, <1>7 DEF Plaintext
  <2>10. ASSUME records[counter].kind = "data"
         PROVE  /\ DataLen(records[counter]) = l - Sealing
                /\ \A i \in 1 .. Plaintext.len - Plaintext.consumed :
                       buf'[Plaintext.offset + Plaintext.consumed + i - 1] = plain[Len(out) + i]
    <3>1. DataLen(records[counter]) = l - Sealing
      BY <1>10, <2>10 DEF DataLen
    <3>2. ASSUME NEW i \in 1 .. l - Sealing PROVE buf'[decoded + (i - 1)] = plain[Len(out) + i]
      <4>1. i - 1 \in 0 .. pending + n - 1 /\ HeaderLen + (i - 1) = HeaderLen + i - 1
        BY <1>4, <1>5, <1>7, <2>1
      <4>2. plain[f + i] = [rec |-> counter, off |-> HeaderLen + i - 1]
        BY <1>6, <3>1
      <4>3. buf'[decoded + (i - 1)] = [rec |-> counter, off |-> HeaderLen + (i - 1)]
        BY <1>11, <4>1
      <4> QED BY <1>6, <1>8, <4>1, <4>2, <4>3
    <3>3. /\ Plaintext.len - Plaintext.consumed = l - Sealing
          /\ \A i \in 1 .. l - Sealing : Plaintext.offset + Plaintext.consumed + i - 1 = decoded + (i - 1)
      BY <1>4, <1>7, <2>9
    <3> QED BY <3>1, <3>2, <3>3
  <2>11. CASE /\ counter' = counter + 1 /\ records[counter].kind = "data"
              /\ body_len > Sealing /\ Pop(Plaintext, buf', want)
    <3>1. Plaintext.consumed < Plaintext.len /\ Plaintext.offset + Plaintext.len <= BufLen
      BY <1>1, <1>4, <1>5, <1>7, <2>9, <2>11
    <3>2. /\ call' = "idle" /\ Len(out') >= Len(out)
          /\ Len(out') + (decrypted'.len - decrypted'.consumed) = Len(out) + (Plaintext.len - Plaintext.consumed)
          /\ \A i \in 1 .. Len(out') : out'[i] = plain[i]
          /\ \A i \in 1 .. decrypted'.len - decrypted'.consumed :
                 buf'[decrypted'.offset + decrypted'.consumed + i - 1] = plain[Len(out') + i]
      BY <1>1, <1>4, <1>8, <2>9, <2>10, <2>11, <3>1, PopStream
    <3>3. Len(out) + (Plaintext.len - Plaintext.consumed) = f + (l - Sealing)
      BY <1>4, <1>6, <1>7, <1>8, <2>9
    <3>4. InStream'
      BY <2>3, <2>6, <2>10, <2>11, <3>2, <3>3 DEF InStream
    <3> QED BY <2>3, <2>6, <2>11, <3>2, <3>4 DEF Sync, Ended
  <2>12. CASE /\ counter' = counter + 1 /\ records[counter].kind = "data"
              /\ body_len = Sealing /\ decrypted' = Plaintext
              /\ call' = "header" /\ UNCHANGED out
    <3>1. decrypted'.len - decrypted'.consumed = 0 /\ l - Sealing = 0
      BY <1>4, <1>5, <2>9, <2>12
    <3>2. First(counter)' = Len(out)
      BY <1>4, <1>6, <1>7, <1>8, <2>6, <2>10, <2>12, <3>1
    <3>3. InStream'
      BY <1>4, <1>8, <2>3, <2>12, <3>1, <3>2 DEF InStream
    <3> QED BY <1>4, <2>3, <2>6, <2>12, <3>3 DEF Sync, Ended
  <2> QED BY <1>13, <2>2, <2>7, <2>8, <2>11, <2>12, DecryptCases
<1> QED BY <1>12, <1>13

\* Sync is inductive on bounded states.
LEMMA SyncStep == Bounds /\ Sync /\ [Next]_vars => Sync'
<1> SUFFICES ASSUME Bounds, Sync, [Next]_vars PROVE Sync'
  OBVIOUS
<1>1. CASE DropRead \/ ReadFails
  <2>1. /\ call \notin Ended /\ call' \in {"idle", "io_error"}
        /\ UNCHANGED <<serverVars, taken, readVars, plainVars>>
    BY <1>1 DEF DropRead, ReadFails, Ended
  <2> QED BY <2>1, SyncQuiet
<1>2. CASE UNCHANGED vars
  <2>1. call' = call /\ UNCHANGED <<serverVars, taken, readVars, plainVars>>
    BY <1>2 DEF vars
  <2> QED BY <2>1, SyncQuiet
<1> QED
  BY <1>1, <1>2, SyncServer, SyncRead, SyncHeader, SyncBody DEF Next, Server, Socket

\* Sync contains NeverMisaligned.
LEMMA SyncAligned == Sync => NeverMisaligned
  BY DEF Sync, NeverMisaligned

\* The reader never decrypts anything but the next whole record.
THEOREM ReaderInStep == Spec => []NeverMisaligned
<1>1. Init => Bounds /\ Sync
  BY BoundsInit, SyncInit
<1>2. Bounds /\ Sync /\ [Next]_vars => Bounds' /\ Sync'
  BY BoundsStep, SyncStep
<1> QED BY <1>1, <1>2, SyncAligned, PTL DEF Spec

-----------------------------------------------------------------------------
(* The stream of the caller is that of the server.                         *)

\* What has been returned is a beginning of what was sent.
OutWithinPlain ==
    /\ out \in Seq(Bytes) /\ plain \in Seq(Bytes) /\ Len(out) <= Len(plain)
    /\ \A i \in 1 .. Len(out) : out[i] = plain[i]

\* In step, what was returned is a beginning of what was sent.
LEMMA SyncOut == Bounds /\ Sync => OutWithinPlain
<1> SUFFICES ASSUME Bounds, Sync PROVE OutWithinPlain
  OBVIOUS
<1>1. /\ out \in Seq(Bytes) /\ plain \in Seq(Bytes) /\ Len(out) \in Nat /\ Len(plain) \in Nat
      /\ decrypted.len - decrypted.consumed \in Nat
  BY DEF Bounds, ServerTypes, PlainTypes, PlainSlice
<1>2. First(counter) <= Len(plain)
  BY CounterPlaces DEF Sync
<1>3. /\ First(counter) = Len(out) + (decrypted.len - decrypted.consumed)
      /\ \A i \in 1 .. Len(out) : out[i] = plain[i]
  BY DEF Sync, InStream
<1>4. Len(out) <= Len(plain)
  BY <1>1, <1>2, <1>3
<1> QED BY <1>1, <1>3, <1>4 DEF OutWithinPlain

\* Every step sends, receives or leaves both streams alone.
LEMMA StreamStep ==
    ASSUME Bounds, Sync, OutWithinPlain, OutWithinPlain', [Next]_vars
    PROVE  [Stream!Send \/ Stream!Receive]_<<plain, out>>
<1>1. /\ out \in Seq(Bytes) /\ plain \in Seq(Bytes) /\ Len(out) <= Len(plain)
      /\ \A i \in 1 .. Len(out) : out[i] = plain[i]
  BY DEF OutWithinPlain
<1>2. /\ out' \in Seq(Bytes) /\ plain' \in Seq(Bytes) /\ Len(out') <= Len(plain')
      /\ \A i \in 1 .. Len(out') : out'[i] = plain'[i]
  BY DEF OutWithinPlain
<1>3. ASSUME plain' = plain, Len(out') >= Len(out) PROVE Stream!Receive
  <2>1. IsPrefix(out', plain)
    BY <1>1, <1>2, <1>3, PrefixByElements
  <2>2. Len(out) <= Len(out') /\ \A i \in 1 .. Len(out) : out[i] = out'[i]
    <3>1. Len(out) \in Nat /\ Len(out') \in Nat
      BY <1>1, <1>2
    <3>2. Len(out) <= Len(out')
      BY <1>3, <3>1
    <3>3. \A i \in 1 .. Len(out) : i \in 1 .. Len(out')
      BY <3>1, <3>2
    <3> QED BY <1>1, <1>2, <1>3, <3>2, <3>3
  <2>3. IsPrefix(out, out')
    BY <1>1, <1>2, <2>2, PrefixByElements
  <2> QED BY <1>3, <2>1, <2>3 DEF Stream!Receive, Stream!IsPrefix, IsPrefix
<1>4. CASE Server
  <2>1. PICK kind \in Kinds, len \in BodyLens : ServerSends(kind, len)
    BY <1>4 DEF Server
  <2>2. Len(plain') >= Len(plain) /\ \A i \in 1 .. Len(plain) : plain'[i] = plain[i]
    BY <2>1, ServerPlaces DEF Sync
  <2>3. IsPrefix(plain, plain')
    <3>1. Len(plain) <= Len(plain') /\ \A i \in 1 .. Len(plain) : plain[i] = plain'[i]
      BY <1>1, <1>2, <2>2
    <3> QED BY <1>1, <1>2, <3>1, PrefixByElements
  <2>4. out' = out
    BY <2>1 DEF ServerSends, plainVars
  <2> QED BY <2>3, <2>4 DEF Stream!Send, Stream!IsPrefix, IsPrefix
<1>5. CASE \E size \in Wants : Read(size)
  <2>1. plain' = plain /\ Len(out') >= Len(out)
    BY <1>5, SyncRead DEF Read, serverVars
  <2> QED BY <1>3, <2>1
<1>6. CASE Socket
  <2>1. PICK n \in 1 .. Available : ReadHeader(n) \/ ReadBody(n)
    BY <1>6 DEF Socket
  <2>2. CASE ReadHeader(n)
    BY <2>2, SyncHeader DEF ReadHeader, serverVars
  <2>3. CASE ReadBody(n)
    <3>1. plain' = plain /\ Len(out') >= Len(out)
      BY <2>3, SyncBody DEF ReadBody, serverVars
    <3> QED BY <1>3, <3>1
  <2> QED BY <2>1, <2>2, <2>3
<1>7. CASE DropRead \/ ReadFails \/ UNCHANGED vars
  BY <1>7 DEF DropRead, ReadFails, vars, serverVars, plainVars
<1> QED BY <1>4, <1>5, <1>6, <1>7 DEF Next

\* The caller's bytes are an unbroken stream: the reader refines ByteStream.
THEOREM ReaderImplements == Spec => ImplementsStream
<1>1. Init => Bounds /\ Sync
  BY BoundsInit, SyncInit
<1>2. Bounds /\ Sync /\ [Next]_vars => Bounds' /\ Sync'
  BY BoundsStep, SyncStep
<1>3. Init => Stream!Init
  BY DEF Init, Stream!Init
<1>4. Bounds /\ Sync /\ OutWithinPlain /\ OutWithinPlain' /\ [Next]_vars => [Stream!Send \/ Stream!Receive]_<<plain, out>>
  BY StreamStep
<1> QED BY <1>1, <1>2, <1>3, <1>4, SyncOut, PTL DEF Spec, ImplementsStream, Stream!Spec
=============================================================================
