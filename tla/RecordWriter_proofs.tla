------------------------- MODULE RecordWriter_proofs -------------------------
(***************************************************************************)
(* The sending half of the record layer never overwrites a record on its   *)
(* way, keeps the server in step and delivers every byte it took, once and *)
(* in order, whatever calls are dropped, for every buffer size, every      *)
(* frame length and every way the socket cuts the records up.              *)
(***************************************************************************)
EXTENDS RecordWriter, StreamLemmas

-----------------------------------------------------------------------------
(* The inductive invariant, by what it speaks of.                          *)

Numbers ==
    /\ frames \in Nat /\ frame_start \in Nat /\ frame_end \in Nat /\ acked \in Nat
    /\ counter \in Nat /\ slice \in Nat /\ buffered \in Nat
    /\ pos \in 0 .. BufLen /\ pending_len \in 0 .. BufLen /\ pending_sent \in 0 .. BufLen

Contents ==
    /\ body \in Seq(Nat)
    /\ cipher \in [nonce : Nat, data : Seq(Nat)]
    /\ got \in Seq(Nat)

Control ==
    /\ open \in BOOLEAN
    /\ call \in Waiting \cup {"idle", "failed"}
    /\ srv \in [next : Nat, have : Nat, ok : BOOLEAN]

\* One buffer, one tenant.
Tenant ==
    /\ open => pending_sent = pending_len /\ HeaderLen <= pos /\ pos < MaxBlock
    /\ ~open => pos = 0 /\ body = <<>>
    /\ pending_sent <= pending_len
    /\ call \in Waiting => ~open /\ pending_sent < pending_len

\* What the open record holds is of the current frame.
InFrame ==
    /\ frame_start <= acked
    /\ acked + buffered <= frame_end
    /\ call \notin {"full", "failed"} => buffered = 0
    /\ call = "write" => slice > 0 /\ acked + slice <= frame_end
    /\ open => pos + frame_start <= HeaderLen + acked
    /\ call = "full" => MaxBlock + frame_start <= HeaderLen + frame_end

\* The server expects the next byte of the pending record, or the next record.
InStep ==
    /\ srv.ok
    /\ pending_sent < pending_len =>
           srv.next = cipher.nonce /\ srv.have = pending_sent /\ counter = cipher.nonce + 1
    /\ pending_sent = pending_len => srv.next = counter /\ srv.have = 0

\* Data that continues the first b bytes of the application up to byte e.
Continues(data, b, e) ==
    /\ b + Len(data) = e
    /\ \A i \in 1 .. Len(data) : data[i] = b + i

\* Every byte taken is at the server, or behind it in the buffer.
InOrder ==
    /\ \A i \in 1 .. Len(got) : got[i] = i
    /\ pending_sent < pending_len => Continues(cipher.data, Len(got), acked + buffered)
    /\ pending_sent = pending_len => Continues(body, Len(got), acked + buffered)

WriterInv == Numbers /\ Contents /\ Control /\ Tenant /\ InFrame /\ InStep /\ InOrder

-----------------------------------------------------------------------------
(* The properties follow from it.                                          *)

\* A record, its header and its overhead fit the buffer.
LEMMA Sizes ==
    /\ BufLen \in Nat /\ HeaderLen \in Nat /\ Sealing \in Nat /\ MaxBlock \in Nat
    /\ HeaderLen > 0 /\ HeaderLen < MaxBlock /\ MaxBlock + Sealing <= BufLen
<1>1. /\ BufLen \in Nat /\ HeaderLen \in Nat /\ Sealing \in Nat /\ Overhead \in Nat
      /\ HeaderLen > 0 /\ Sealing <= Overhead /\ BufLen > Overhead + HeaderLen
  BY WriterAssumption DEF WriterAssumption
<1> QED BY <1>1 DEF MaxBlock

\* The invariant contains the types.
LEMMA InvTypes == WriterInv => TypeOK
<1> SUFFICES ASSUME WriterInv PROVE TypeOK
  OBVIOUS
<1>1. {frames, frame_start, frame_end, acked, counter, slice, buffered} \subseteq Nat
  BY DEF WriterInv, Numbers
<1>2. {pos, pending_len, pending_sent} \subseteq 0 .. BufLen
  BY DEF WriterInv, Numbers
<1> QED BY <1>1, <1>2 DEF WriterInv, Contents, Control, InFrame, TypeOK

\* ... that the buffer has one tenant,
LEMMA InvTenant == WriterInv => OneTenant
<1> SUFFICES ASSUME WriterInv PROVE OneTenant
  OBVIOUS
<1>1. /\ pos \in Nat /\ pending_len \in Nat /\ pending_sent \in Nat
      /\ HeaderLen \in Nat /\ MaxBlock \in Nat
  BY Sizes DEF WriterInv, Numbers
<1>2. open => Remaining = 0 /\ pos \in HeaderLen .. MaxBlock - 1
  BY <1>1 DEF WriterInv, Tenant, Remaining
<1>3. call \in Waiting => ~open /\ Remaining > 0
  BY <1>1 DEF WriterInv, Tenant, Remaining
<1> QED BY <1>2, <1>3 DEF WriterInv, Tenant, OneTenant

\* ... that the server is in step,
LEMMA InvInStep == WriterInv => ServerInStep
  BY DEF WriterInv, InStep, ServerInStep

\* ... and that a full record holds bytes of one frame only.
LEMMA InvSplit == WriterInv => OnlyLongFramesSplit
<1> SUFFICES ASSUME WriterInv, call = "full" PROVE frame_end - frame_start >= MaxBlock - HeaderLen
  BY DEF OnlyLongFramesSplit
<1>1. /\ frame_start \in Nat /\ frame_end \in Nat /\ HeaderLen \in Nat /\ MaxBlock \in Nat
  BY Sizes DEF WriterInv, Numbers
<1>2. MaxBlock + frame_start <= HeaderLen + frame_end
  BY DEF WriterInv, InFrame
<1> QED BY <1>1, <1>2

\* The buffer is empty.
LEMMA InvInit == Init => WriterInv
<1> SUFFICES ASSUME Init PROVE WriterInv
  OBVIOUS
<1>1. Numbers
  BY Sizes DEF Init, Numbers
<1>2. Contents
  BY DEF Init, NoRecord, Contents
<1>3. Control
  <2>1. open \in BOOLEAN
    BY DEF Init
  <2>2. srv \in [next : Nat, have : Nat, ok : BOOLEAN]
    BY DEF Init
  <2> QED BY <2>1, <2>2 DEF Init, Control
<1>4. Tenant /\ InFrame
  BY DEF Init, Tenant, InFrame, Waiting
<1>5. InStep
  BY DEF Init, InStep
<1>6. InOrder
  BY DEF Init, InOrder, Continues
<1> QED BY <1>1, <1>2, <1>3, <1>4, <1>5, <1>6 DEF WriterInv

-----------------------------------------------------------------------------
(* append(): t more bytes in the record, which is sealed when full.        *)

Filled(p, t, longer) ==
    \/ /\ p + t = MaxBlock
       /\ CloseRecord(p + t, longer)
       /\ call' = "full"
       /\ buffered' = t
       /\ UNCHANGED <<slice, acked>>
    \/ /\ p + t < MaxBlock
       /\ open' = TRUE /\ pos' = p + t /\ body' = longer
       /\ acked' = acked + t
       /\ call' = "idle"
       /\ open => UNCHANGED <<pending_len, pending_sent>>
       /\ ~open => pending_len' = 0 /\ pending_sent' = 0
       /\ UNCHANGED <<cipher, counter, slice, buffered>>

\* Data followed by the next t bytes of the application goes on with them.
LEMMA LongerContinues ==
    ASSUME NEW data \in Seq(Nat), NEW b \in Nat, NEW a \in Nat, Continues(data, b, a), NEW t \in Nat
    PROVE  /\ data \o [ i \in 1 .. t |-> a + i ] \in Seq(Nat)
           /\ Continues(data \o [ i \in 1 .. t |-> a + i ], b, a + t)
<1> DEFINE s == [ i \in 1 .. t |-> a + i ]
<1>1. s \in Seq(Nat) /\ Len(s) = t /\ \A i \in 1 .. t : s[i] = a + i
  OBVIOUS
<1> HIDE DEF s
<1>2. /\ data \o s \in Seq(Nat) /\ Len(data \o s) = Len(data) + Len(s)
      /\ \A i \in 1 .. Len(data) : (data \o s)[i] = data[i]
      /\ \A i \in 1 .. Len(s) : (data \o s)[Len(data) + i] = s[i]
  <2>1. s \in Seq(Nat)
    BY <1>1
  <2> QED BY <2>1, ConcatFacts
<1>3. b + Len(data) = a /\ Len(data) \in Nat /\ \A i \in 1 .. Len(data) : data[i] = b + i
  BY DEF Continues
<1>4. b + Len(data \o s) = a + t
  <2>1. Len(data \o s) = Len(data) + t
    BY <1>1, <1>2
  <2>2. b + Len(data) = a /\ Len(data) \in Nat
    BY <1>3
  <2> QED BY <2>1, <2>2
<1>5. ASSUME NEW i \in 1 .. Len(data \o s) PROVE (data \o s)[i] = b + i
  <2>1. CASE i <= Len(data)
    <3>1. i \in 1 .. Len(data)
      BY <1>3, <2>1
    <3> QED BY <1>2, <1>3, <3>1
  <2>2. CASE i > Len(data)
    <3>1. PICK j \in 1 .. t : i = Len(data) + j
      <4>1. i - Len(data) \in 1 .. t /\ i = Len(data) + (i - Len(data))
        BY <1>1, <1>2, <1>3, <2>2
      <4> QED BY <4>1
    <3>2. (data \o s)[i] = a + j
      BY <1>1, <1>2, <3>1
    <3>3. b + Len(data) = a /\ Len(data) \in Nat /\ j \in Nat
      BY <1>3
    <3>4. a + j = b + i
      BY <3>1, <3>3
    <3> QED BY <3>2, <3>4
  <2> QED BY <1>2, <1>3, <2>1, <2>2
<1> QED BY <1>2, <1>4, <1>5 DEF Continues, s

\* append() takes as much of the slice as fits.
LEMMA AppendFacts ==
    ASSUME acked \in Nat, NEW p \in Nat, p < MaxBlock, NEW data \in Seq(Nat), NEW b \in Nat,
           Continues(data, b, acked), NEW n \in Nat, n > 0, AppendAt(p, data, n)
    PROVE  \E t \in Nat, longer \in Seq(Nat) :
               /\ t > 0 /\ t <= n /\ p + t <= MaxBlock
               /\ Continues(longer, b, acked + t)
               /\ Filled(p, t, longer)
<1> DEFINE space == MaxBlock - p
           t == IF n < space THEN n ELSE space
           longer == data \o [ i \in 1 .. t |-> acked + i ]
<1>1. t \in Nat /\ t > 0 /\ t <= n /\ p + t <= MaxBlock
  BY Sizes
<1>2. longer \in Seq(Nat) /\ Continues(longer, b, acked + t)
  <2> HIDE DEF t
  <2> QED BY <1>1, LongerContinues
<1>3. \/ /\ p + t = MaxBlock
         /\ CloseRecord(p + t, longer)
         /\ call' = "full"
         /\ buffered' = t
         /\ UNCHANGED <<slice, acked>>
      \/ /\ p + t # MaxBlock
         /\ open' = TRUE /\ pos' = p + t /\ body' = longer
         /\ acked' = acked + t
         /\ call' = "idle"
         /\ IF open THEN UNCHANGED <<pending_len, pending_sent>>
                    ELSE pending_len' = 0 /\ pending_sent' = 0
         /\ UNCHANGED <<cipher, counter, slice, buffered>>
  BY DEF AppendAt, Credit
<1> HIDE DEF t, longer
<1>4. p + t # MaxBlock => p + t < MaxBlock
  BY <1>1, Sizes
<1>5. Filled(p, t, longer)
  BY <1>3, <1>4 DEF Filled
<1> QED BY <1>1, <1>2, <1>5

\* Whatever append() did, the invariant holds after it: the server is at the
\* next record, and has everything in front of the record being filled.
LEMMA FilledInv ==
    ASSUME Numbers, Contents, Control, NEW p \in Nat, NEW t \in Nat, NEW longer \in Seq(Nat),
           t > 0, HeaderLen <= p, p + t <= MaxBlock, Filled(p, t, longer),
           open => pending_sent = pending_len,
           frame_start <= acked, p + frame_start <= HeaderLen + acked, acked + t <= frame_end,
           buffered = 0, UNCHANGED <<frames, frame_start, frame_end>>,
           got' \in Seq(Nat), \A i \in 1 .. Len(got') : got'[i] = i,
           Continues(longer, Len(got'), acked + t),
           srv' \in [next : Nat, have : Nat, ok : BOOLEAN], srv'.ok,
           srv'.next = counter, srv'.have = 0
    PROVE  WriterInv'
<1>1. /\ frames \in Nat /\ frame_start \in Nat /\ frame_end \in Nat /\ acked \in Nat
      /\ counter \in Nat /\ slice \in Nat /\ buffered \in Nat
      /\ pos \in Nat /\ pending_len \in Nat /\ pending_sent \in Nat
      /\ pending_len <= BufLen /\ pending_sent <= BufLen
  BY Sizes DEF Numbers
<1>2. cipher \in [nonce : Nat, data : Seq(Nat)]
  BY DEF Contents
<1>3. CASE p + t = MaxBlock /\ CloseRecord(p + t, longer) /\ call' = "full" /\ buffered' = t
           /\ UNCHANGED <<slice, acked>>
  <2>1. /\ cipher' = [nonce |-> counter, data |-> longer]
        /\ pending_len' = p + t + Sealing /\ pending_sent' = 0
        /\ counter' = counter + 1 /\ pos' = 0 /\ body' = <<>>
    BY <1>3 DEF CloseRecord
  <2>2. open' = FALSE
    BY <1>3 DEF CloseRecord
  <2>3. Numbers'
    BY <1>1, <1>3, <2>1, Sizes DEF Numbers
  <2>4. Contents'
    BY <1>1, <2>1 DEF Contents
  <2>5. Control'
    <3>1. open' \in BOOLEAN
      BY <2>2
    <3>2. call' \in Waiting \cup {"idle", "failed"}
      BY <1>3 DEF Waiting
    <3> QED BY <3>1, <3>2 DEF Control
  <2>6. pending_sent' < pending_len'
    BY <2>1, Sizes
  <2>7. Tenant'
    BY <2>1, <2>2, <2>6, Sizes DEF Tenant
  <2>8. InFrame'
    <3>1. MaxBlock + frame_start <= HeaderLen + frame_end
      BY <1>1, <1>3, Sizes
    <3> QED BY <1>1, <1>3, <2>2, <3>1 DEF InFrame
  <2>9. InStep'
    <3>1. cipher'.nonce = counter
      BY <2>1
    <3> QED BY <1>1, <2>1, <2>6, <3>1 DEF InStep
  <2>10. InOrder'
    <3>1. cipher'.data = longer
      BY <2>1
    <3>2. acked' + buffered' = acked + t
      BY <1>3
    <3>3. pending_sent' # pending_len'
      BY <2>1, <2>6, Sizes
    <3> QED BY <3>1, <3>2, <3>3 DEF InOrder, Continues
  <2> QED BY <2>3, <2>4, <2>5, <2>7, <2>8, <2>9, <2>10 DEF WriterInv
<1>4. CASE /\ p + t < MaxBlock
           /\ open' = TRUE /\ pos' = p + t /\ body' = longer
           /\ acked' = acked + t
           /\ call' = "idle"
           /\ open => UNCHANGED <<pending_len, pending_sent>>
           /\ ~open => pending_len' = 0 /\ pending_sent' = 0
           /\ UNCHANGED <<cipher, counter, slice, buffered>>
  <2>1. pos' = p + t /\ body' = longer /\ acked' = acked + t /\ UNCHANGED <<cipher, counter, slice, buffered>>
    BY <1>4
  <2>2. open' = TRUE
    BY <1>4
  <2>3. pending_sent' = pending_len' /\ pending_len' \in 0 .. BufLen /\ pending_sent' \in 0 .. BufLen
    BY <1>1, <1>4, Sizes
  <2>4. Numbers'
    BY <1>1, <1>4, <2>1, <2>3, Sizes DEF Numbers
  <2>5. Contents'
    BY <1>2, <2>1 DEF Contents
  <2>6. Control'
    <3>1. open' \in BOOLEAN
      BY <2>2
    <3>2. call' \in Waiting \cup {"idle", "failed"}
      BY <1>4 DEF Waiting
    <3> QED BY <3>1, <3>2 DEF Control
  <2>7. Tenant'
    <3>1. call' \notin Waiting
      BY <1>4 DEF Waiting
    <3>2. HeaderLen <= pos' /\ pos' < MaxBlock /\ pending_sent' <= pending_len'
      BY <1>4, <2>1, <2>3, Sizes
    <3> QED BY <2>2, <2>3, <3>1, <3>2 DEF Tenant
  <2>8. InFrame'
    <3>1. frame_start <= acked + t /\ p + t + frame_start <= HeaderLen + (acked + t)
      BY <1>1, Sizes
    <3> QED BY <1>1, <1>4, <2>1, <3>1 DEF InFrame
  <2>9. InStep'
    BY <2>1, <2>3, Sizes DEF InStep
  <2>10. InOrder'
    <3>1. acked' + buffered' = acked + t
      BY <1>1, <2>1
    <3>2. ~(pending_sent' < pending_len')
      BY <2>3, Sizes
    <3> QED BY <2>1, <3>1, <3>2 DEF InOrder, Continues
  <2> QED BY <2>4, <2>5, <2>6, <2>7, <2>8, <2>9, <2>10 DEF WriterInv
<1> QED BY <1>3, <1>4 DEF Filled

-----------------------------------------------------------------------------
(* One lemma per action.                                                   *)

\* Steps that touch neither the buffer nor what has been taken.
LEMMA QuietInv ==
    ASSUME WriterInv, UNCHANGED <<recordVars, sealedVars, acked, slice, buffered, serverVars>>,
           frames' \in Nat, frame_start' \in Nat, frame_end' \in Nat,
           frame_start' <= acked, acked + buffered <= frame_end',
           open => frame_start' = frame_start,
           call' \in {"idle", "failed"} \/ (call' = call /\ UNCHANGED appVars),
           call' = "idle" => call # "failed" /\ call # "full"
    PROVE  WriterInv'
<1> USE DEF WriterInv, recordVars, sealedVars, serverVars
<1>1. Numbers' /\ Contents'
  BY DEF Numbers, Contents
<1>2. Control'
  BY DEF Control, appVars
<1>3. Tenant'
  BY DEF Tenant, Waiting, appVars
<1>4. InFrame'
  <2>1. CASE call' \in {"idle", "failed"}
    <3>1. call' = "idle" => buffered' = 0
      BY DEF InFrame
    <3>2. open' => pos' + frame_start' <= HeaderLen + acked'
      BY DEF InFrame
    <3> QED BY <2>1, <3>1, <3>2 DEF InFrame
  <2>2. CASE call' = call /\ UNCHANGED appVars
    BY <2>2 DEF InFrame, appVars
  <2> QED BY <2>1, <2>2
<1>5. InStep'
  BY DEF InStep
<1>6. InOrder'
  BY DEF InOrder, Continues
<1> QED BY <1>1, <1>2, <1>3, <1>4, <1>5, <1>6

\* A frame begins where the one in front of it was flushed.
LEMMA BeginFrameInv ==
    ASSUME WriterInv, NEW n \in FrameLens, BeginFrame(n)
    PROVE  WriterInv'
<1>1. /\ frames \in Nat /\ frame_end \in Nat /\ acked \in Nat /\ n \in Nat /\ n > 0
      /\ call = "idle" /\ acked = frame_end /\ ~open
  BY WriterAssumption DEF WriterInv, Numbers, BeginFrame, FrameFlushed, WriterAssumption
<1>2. buffered = 0
  BY <1>1 DEF WriterInv, InFrame
<1>3. frames' = frames + 1 /\ frame_start' = frame_end /\ frame_end' = frame_end + n
      /\ UNCHANGED <<acked, recordVars, sealedVars, callVars, serverVars>>
  BY DEF BeginFrame
<1>4. /\ frames' \in Nat /\ frame_start' \in Nat /\ frame_end' \in Nat
      /\ frame_start' <= acked /\ acked + buffered <= frame_end'
  BY <1>1, <1>2, <1>3
<1> QED BY <1>1, <1>3, <1>4, QuietInv DEF callVars

\* Dropping a call, or an error, leaves the buffer as it is.
LEMMA DropInv ==
    ASSUME WriterInv, Drop \/ SocketFails \/ UNCHANGED vars
    PROVE  WriterInv'
<1>1. UNCHANGED <<appVars, recordVars, sealedVars, slice, buffered, serverVars>>
  BY DEF Drop, SocketFails, vars, callVars
<1>2. /\ call' \in {"idle", "failed"} \/ call' = call
      /\ call' = "idle" => (call # "failed" /\ call # "full") \/ call' = call
  BY DEF Drop, SocketFails, Waiting, vars, callVars
<1>3. call' = "idle" => call # "failed" /\ call # "full"
  BY <1>2
<1>4. /\ frames' \in Nat /\ frame_start' \in Nat /\ frame_end' \in Nat
      /\ frame_start' <= acked /\ acked + buffered <= frame_end'
  BY <1>1 DEF WriterInv, Numbers, InFrame, appVars
<1>5. frame_start' = frame_start /\ acked' = acked
  BY <1>1 DEF appVars
<1> QED BY <1>1, <1>2, <1>3, <1>4, <1>5, QuietInv

\* A write() with its record open or to be opened, nothing being on its way.
LEMMA WriteInv ==
    ASSUME WriterInv, NEW n \in 1 .. frame_end - acked, Write(n)
    PROVE  WriterInv'
<1>1. /\ frames \in Nat /\ frame_start \in Nat /\ frame_end \in Nat /\ acked \in Nat
      /\ pos \in Nat /\ pending_len \in Nat /\ pending_sent \in Nat /\ counter \in Nat
      /\ got \in Seq(Nat) /\ body \in Seq(Nat)
  BY Sizes DEF WriterInv, Numbers, Contents
<1>2. n \in Nat /\ n > 0 /\ acked + n <= frame_end
  BY <1>1 DEF Write
<1>3. call = "idle" /\ buffered = 0 /\ frame_start <= acked
  BY DEF Write, WriterInv, InFrame
<1>4. UNCHANGED <<frames, frame_start, frame_end, srv, got>>
  BY DEF Write, serverVars
<1>5. CASE open /\ AppendAt(pos, body, n)
  <2>1. /\ pending_sent = pending_len /\ HeaderLen <= pos /\ pos < MaxBlock
        /\ pos + frame_start <= HeaderLen + acked
    BY <1>5 DEF WriterInv, Tenant, InFrame
  <2>2. Continues(body, Len(got), acked)
    <3>1. acked + buffered = acked
      BY <1>1, <1>3
    <3> QED BY <2>1, <3>1 DEF WriterInv, InOrder
  <2>3. PICK t \in Nat, longer \in Seq(Nat) :
           /\ t > 0 /\ t <= n /\ pos + t <= MaxBlock
           /\ Continues(longer, Len(got), acked + t)
           /\ Filled(pos, t, longer)
    <3>1. Len(got) \in Nat
      BY <1>1
    <3> QED BY <1>1, <1>2, <1>5, <2>1, <2>2, <3>1, AppendFacts
  <2>4. acked + t <= frame_end
    BY <1>1, <1>2, <2>3
  <2>5. /\ got' \in Seq(Nat) /\ (\A i \in 1 .. Len(got') : got'[i] = i)
        /\ Continues(longer, Len(got'), acked + t)
        /\ srv' \in [next : Nat, have : Nat, ok : BOOLEAN] /\ srv'.ok
        /\ srv'.next = counter /\ srv'.have = 0
    BY <1>1, <1>4, <2>1, <2>3 DEF WriterInv, Control, InStep, InOrder
  <2>6. Numbers /\ Contents /\ Control
    BY DEF WriterInv
  <2> QED BY <1>1, <1>3, <1>4, <2>1, <2>3, <2>4, <2>5, <2>6, FilledInv
<1>6. CASE ~open /\ FlushedBefore /\ AppendAt(HeaderLen, <<>>, n)
  <2>1. pending_sent = pending_len /\ body = <<>>
    BY <1>1, <1>6 DEF FlushedBefore, Remaining, WriterInv, Tenant
  <2>2. Continues(<<>>, Len(got), acked)
    <3>1. acked + buffered = acked
      BY <1>1, <1>3
    <3> QED BY <2>1, <3>1 DEF WriterInv, InOrder
  <2>3. PICK t \in Nat, longer \in Seq(Nat) :
           /\ t > 0 /\ t <= n /\ HeaderLen + t <= MaxBlock
           /\ Continues(longer, Len(got), acked + t)
           /\ Filled(HeaderLen, t, longer)
    <3>1. Len(got) \in Nat /\ <<>> \in Seq(Nat)
      BY <1>1
    <3> QED BY <1>1, <1>2, <1>6, <2>2, <3>1, Sizes, AppendFacts
  <2>4. acked + t <= frame_end /\ HeaderLen + frame_start <= HeaderLen + acked
    BY <1>1, <1>2, <1>3, <2>3, Sizes
  <2>5. /\ got' \in Seq(Nat) /\ (\A i \in 1 .. Len(got') : got'[i] = i)
        /\ Continues(longer, Len(got'), acked + t)
        /\ srv' \in [next : Nat, have : Nat, ok : BOOLEAN] /\ srv'.ok
        /\ srv'.next = counter /\ srv'.have = 0
    BY <1>1, <1>4, <2>1, <2>3 DEF WriterInv, Control, InStep, InOrder
  <2>6. Numbers /\ Contents /\ Control /\ HeaderLen <= HeaderLen
    BY Sizes DEF WriterInv
  <2> QED BY <1>1, <1>3, <1>4, <1>6, <2>1, <2>3, <2>4, <2>5, <2>6, Sizes, FilledInv
<1>7. CASE /\ ~open /\ ~FlushedBefore /\ call' = "write" /\ slice' = n
           /\ UNCHANGED <<acked, recordVars, sealedVars, buffered>>
  <2>1. Numbers' /\ Contents'
    BY <1>2, <1>4, <1>7 DEF WriterInv, Numbers, Contents, recordVars, sealedVars
  <2>2. Control'
    BY <1>4, <1>7 DEF WriterInv, Control, Waiting, recordVars
  <2>3. pending_sent < pending_len
    BY <1>1, <1>7 DEF FlushedBefore, Remaining, WriterInv, Tenant
  <2>4. Tenant'
    BY <1>7, <2>3 DEF WriterInv, Tenant, recordVars, sealedVars
  <2>5. InFrame'
    BY <1>1, <1>2, <1>3, <1>4, <1>7 DEF WriterInv, InFrame, recordVars
  <2>6. InStep'
    BY <1>4, <1>7 DEF WriterInv, InStep, sealedVars
  <2>7. InOrder'
    BY <1>4, <1>7 DEF WriterInv, InOrder, Continues, recordVars, sealedVars
  <2> QED BY <2>1, <2>2, <2>4, <2>5, <2>6, <2>7 DEF WriterInv
<1> QED BY <1>5, <1>6, <1>7 DEF Write

\* flush() seals what it finds open, with the next number.
LEMMA FlushInv ==
    ASSUME WriterInv, Flush
    PROVE  WriterInv'
<1>1. /\ acked \in Nat /\ frame_start \in Nat /\ frame_end \in Nat /\ counter \in Nat
      /\ pos \in Nat /\ pending_len \in Nat /\ pending_sent \in Nat
      /\ body \in Seq(Nat)
  BY Sizes DEF WriterInv, Numbers, Contents
<1>2. /\ call = "idle" /\ call' = "flush" /\ buffered = 0
      /\ UNCHANGED <<appVars, slice, buffered, serverVars>>
  BY DEF Flush, WriterInv, InFrame
<1>3. CASE open /\ CloseRecord(pos, body)
  <2>1. /\ cipher' = [nonce |-> counter, data |-> body]
        /\ pending_len' = pos + Sealing /\ pending_sent' = 0
        /\ counter' = counter + 1 /\ pos' = 0 /\ body' = <<>>
    BY <1>3 DEF CloseRecord
  <2>2. open' = FALSE
    BY <1>3 DEF CloseRecord
  <2>3. pending_sent = pending_len /\ HeaderLen <= pos /\ pos < MaxBlock
    BY <1>3 DEF WriterInv, Tenant
  <2>4. pending_sent' < pending_len' /\ pending_len' <= BufLen
    BY <1>1, <2>1, <2>3, Sizes
  <2>5. Numbers'
    BY <1>1, <1>2, <2>1, <2>4, Sizes DEF WriterInv, Numbers, appVars
  <2>6. Contents'
    BY <1>1, <1>2, <2>1 DEF WriterInv, Contents, serverVars
  <2>7. Control'
    <3>1. open' \in BOOLEAN
      BY <2>2
    <3> QED BY <1>2, <3>1 DEF WriterInv, Control, Waiting, serverVars
  <2>8. Tenant'
    BY <2>1, <2>2, <2>4, Sizes DEF Tenant
  <2>9. InFrame'
    BY <1>2, <2>2 DEF WriterInv, InFrame, appVars
  <2>10. InStep'
    <3>1. cipher'.nonce = counter /\ srv' = srv /\ srv.next = counter /\ srv.have = 0 /\ srv.ok
      BY <1>2, <2>1, <2>3 DEF WriterInv, InStep, serverVars
    <3>2. pending_sent' # pending_len'
      BY <2>1, <2>4, Sizes
    <3> QED BY <2>1, <3>1, <3>2 DEF InStep
  <2>11. InOrder'
    <3>1. cipher'.data = body /\ UNCHANGED <<acked, buffered, got>>
      BY <1>2, <2>1 DEF appVars, serverVars
    <3>2. pending_sent' # pending_len'
      BY <2>1, <2>4, Sizes
    <3> QED BY <2>3, <3>1, <3>2 DEF WriterInv, InOrder, Continues
  <2> QED BY <2>5, <2>6, <2>7, <2>8, <2>9, <2>10, <2>11 DEF WriterInv
<1>4. CASE ~open /\ Remaining > 0 /\ UNCHANGED <<recordVars, sealedVars>>
  <2>1. Numbers' /\ Contents' /\ Control'
    BY <1>2, <1>4
    DEF WriterInv, Numbers, Contents, Control, Waiting, recordVars, sealedVars, appVars, serverVars
  <2>2. Tenant'
    <3>1. pending_sent < pending_len
      BY <1>1, <1>4 DEF Remaining
    <3> QED BY <1>4, <3>1 DEF WriterInv, Tenant, recordVars, sealedVars
  <2>3. InFrame'
    BY <1>2, <1>4 DEF WriterInv, InFrame, recordVars, appVars
  <2>4. InStep' /\ InOrder'
    BY <1>2, <1>4 DEF WriterInv, InStep, InOrder, Continues, recordVars, sealedVars, appVars, serverVars
  <2> QED BY <2>1, <2>2, <2>3, <2>4 DEF WriterInv
<1> QED BY <1>3, <1>4 DEF Flush

-----------------------------------------------------------------------------
(* The socket takes ciphertext.                                            *)

\* Part of the pending record goes out.
LEMMA PartSentInv ==
    ASSUME WriterInv, NEW n \in 1 .. Remaining, n < Remaining, SocketTakes(n)
    PROVE  WriterInv'
<1>1. /\ pending_len \in Nat /\ pending_sent \in Nat /\ n \in Nat /\ n > 0
      /\ pending_sent <= pending_len /\ pending_len <= BufLen /\ BufLen \in Nat
  BY Sizes DEF WriterInv, Numbers, Tenant
<1>2. pending_sent + n < pending_len /\ pending_sent < pending_len
  BY <1>1 DEF Remaining
<1>3. /\ pending_sent' = pending_sent + n
      /\ UNCHANGED <<acked, recordVars, cipher, pending_len, counter, callVars>>
      /\ UNCHANGED <<frames, frame_start, frame_end>>
  <2>1. n # Remaining
    BY <1>1 DEF Remaining
  <2> QED BY <2>1 DEF SocketTakes
<1>4. /\ srv.ok /\ srv.next = cipher.nonce /\ srv.have = pending_sent
      /\ counter = cipher.nonce + 1 /\ srv \in [next : Nat, have : Nat, ok : BOOLEAN]
  BY <1>2 DEF WriterInv, InStep, Control
<1>5. srv' = [srv EXCEPT !.have = @ + n] /\ UNCHANGED got
  BY <1>2, <1>4 DEF SocketTakes, ServerGets
<1>6. /\ srv' \in [next : Nat, have : Nat, ok : BOOLEAN] /\ srv'.ok
      /\ srv'.next = cipher.nonce /\ srv'.have = pending_sent + n
  BY <1>1, <1>4, <1>5
<1>7. pending_sent' < pending_len' /\ pending_sent' \in 0 .. BufLen /\ pending_sent' # pending_len'
  BY <1>1, <1>2, <1>3
<1>8. Numbers'
  BY <1>3, <1>7 DEF WriterInv, Numbers, recordVars, callVars
<1>9. Contents'
  BY <1>3, <1>5 DEF WriterInv, Contents, recordVars
<1>10. Control'
  BY <1>3, <1>6 DEF WriterInv, Control, recordVars, callVars
<1>11. Tenant'
  <2>1. ~open
    BY <1>2 DEF SocketTakes, WriterInv, Tenant
  <2>2. pending_sent' <= pending_len'
    BY <1>1, <1>2, <1>3
  <2> QED BY <1>3, <1>7, <2>1, <2>2 DEF WriterInv, Tenant, recordVars
<1>12. InFrame'
  BY <1>3 DEF WriterInv, InFrame, recordVars, callVars
<1>13. InStep'
  BY <1>3, <1>4, <1>6, <1>7 DEF InStep
<1>14. InOrder'
  BY <1>2, <1>3, <1>5, <1>7 DEF WriterInv, InOrder, Continues, callVars
<1> QED BY <1>8, <1>9, <1>10, <1>11, <1>12, <1>13, <1>14 DEF WriterInv

\* The end of a record reaches the server, which then has all of it.
LEMMA ServerHasRecord ==
    ASSUME WriterInv, NEW n \in 1 .. Remaining, n = Remaining, SocketTakes(n)
    PROVE  /\ pending_sent < pending_len
           /\ srv' \in [next : Nat, have : Nat, ok : BOOLEAN] /\ srv'.ok
           /\ srv'.next = counter /\ srv'.have = 0
           /\ got' \in Seq(Nat) /\ Len(got') = acked + buffered
           /\ \A i \in 1 .. Len(got') : got'[i] = i
<1>1. /\ pending_len \in Nat /\ pending_sent \in Nat /\ n \in Nat /\ n > 0
      /\ got \in Seq(Nat) /\ cipher \in [nonce : Nat, data : Seq(Nat)]
  BY Sizes DEF WriterInv, Numbers, Contents
<1>2. pending_sent < pending_len /\ ~(pending_sent + n < pending_len)
  BY <1>1 DEF Remaining
<1>3. /\ srv.ok /\ srv.next = cipher.nonce /\ srv.have = pending_sent
      /\ counter = cipher.nonce + 1 /\ srv \in [next : Nat, have : Nat, ok : BOOLEAN]
      /\ Continues(cipher.data, Len(got), acked + buffered)
      /\ \A i \in 1 .. Len(got) : got[i] = i
  BY <1>2 DEF WriterInv, InStep, InOrder, Control
<1>4. srv' = [srv EXCEPT !.next = @ + 1, !.have = 0] /\ got' = got \o cipher.data
  <2>1. srv.have + n >= pending_len
    BY <1>1, <1>2, <1>3
  <2>2. ~(srv.have + n < pending_len)
    BY <1>2, <1>3
  <2> QED BY <1>3, <2>2 DEF SocketTakes, ServerGets
<1>5. /\ srv' \in [next : Nat, have : Nat, ok : BOOLEAN] /\ srv'.ok
      /\ srv'.next = counter /\ srv'.have = 0
  <2>1. srv.next \in Nat /\ srv.next + 1 \in Nat /\ srv.next + 1 = counter
    BY <1>1, <1>3
  <2>2. srv' = [next |-> srv.next + 1, have |-> 0, ok |-> srv.ok]
    BY <1>3, <1>4
  <2>3. srv.ok \in BOOLEAN
    BY <1>3
  <2> QED BY <1>3, <2>1, <2>2, <2>3
<1> DEFINE data == cipher.data
           g == got
<1>6. data \in Seq(Nat) /\ g \in Seq(Nat) /\ Len(g) \in Nat /\ Len(data) \in Nat
  BY <1>1
<1>7. /\ g \o data \in Seq(Nat) /\ Len(g \o data) = Len(g) + Len(data)
      /\ \A i \in 1 .. Len(g) : (g \o data)[i] = g[i]
      /\ \A i \in 1 .. Len(data) : (g \o data)[Len(g) + i] = data[i]
  <2> HIDE DEF g, data
  <2> QED BY <1>6, ConcatFacts
<1>8. /\ Len(g) + Len(data) = acked + buffered
      /\ \A i \in 1 .. Len(data) : data[i] = Len(g) + i
      /\ \A i \in 1 .. Len(g) : g[i] = i
  BY <1>3 DEF Continues
<1>9. ASSUME NEW i \in 1 .. Len(g) + Len(data) PROVE (g \o data)[i] = i
  <2> HIDE DEF g, data
  <2>1. CASE i <= Len(g)
    <3>1. i \in 1 .. Len(g)
      BY <1>6, <2>1
    <3> QED BY <1>7, <1>8, <3>1
  <2>2. CASE i > Len(g)
    <3>1. PICK j \in 1 .. Len(data) : i = Len(g) + j
      <4>1. i - Len(g) \in 1 .. Len(data) /\ i = Len(g) + (i - Len(g))
        BY <1>6, <2>2
      <4> QED BY <4>1
    <3> QED BY <1>7, <1>8, <3>1
  <2> QED BY <1>6, <2>1, <2>2
<1>10. got' = g \o data
  BY <1>4
<1> HIDE DEF g, data
<1> QED BY <1>2, <1>5, <1>7, <1>8, <1>9, <1>10

\* The whole record is sent: the calls that waited for it go on.
LEMMA AllSentInv ==
    ASSUME WriterInv, NEW n \in 1 .. Remaining, n = Remaining, SocketTakes(n)
    PROVE  WriterInv'
<1>1. /\ pending_sent < pending_len
      /\ srv' \in [next : Nat, have : Nat, ok : BOOLEAN] /\ srv'.ok
      /\ srv'.next = counter /\ srv'.have = 0
      /\ got' \in Seq(Nat) /\ Len(got') = acked + buffered
      /\ \A i \in 1 .. Len(got') : got'[i] = i
  BY ServerHasRecord
<1>2. /\ acked \in Nat /\ buffered \in Nat /\ slice \in Nat /\ counter \in Nat
      /\ frame_start \in Nat /\ frame_end \in Nat /\ pos \in Nat
      /\ pending_len \in Nat /\ pending_sent \in Nat
  BY Sizes DEF WriterInv, Numbers
<1>3. call \in Waiting /\ ~open /\ pos = 0 /\ body = <<>>
  BY DEF SocketTakes, WriterInv, Tenant
<1>4. UNCHANGED <<frames, frame_start, frame_end>> /\ AllSent
  <2>1. ~(n < Remaining)
    BY <1>2 DEF Remaining
  <2> QED BY <2>1 DEF SocketTakes
<1>5. frame_start <= acked /\ acked + buffered <= frame_end
  BY DEF WriterInv, InFrame
<1>6. CASE call = "write" /\ AppendAt(HeaderLen, <<>>, slice)
  <2>1. buffered = 0 /\ slice > 0 /\ acked + slice <= frame_end
    BY <1>6 DEF WriterInv, InFrame
  <2>2. Len(got') = acked
    BY <1>1, <1>2, <2>1
  <2>3. Continues(<<>>, acked, acked) /\ <<>> \in Seq(Nat)
    BY <1>2 DEF Continues
  <2>4. PICK t \in Nat, longer \in Seq(Nat) :
           /\ t > 0 /\ t <= slice /\ HeaderLen + t <= MaxBlock
           /\ Continues(longer, acked, acked + t)
           /\ Filled(HeaderLen, t, longer)
    BY <1>2, <1>6, <2>1, <2>3, Sizes, AppendFacts
  <2>5. acked + t <= frame_end /\ HeaderLen + frame_start <= HeaderLen + acked /\ HeaderLen <= HeaderLen
    BY <1>2, <1>5, <2>1, <2>4, Sizes
  <2>6. Continues(longer, Len(got'), acked + t)
    BY <2>2, <2>4
  <2>7. Numbers /\ Contents /\ Control
    BY DEF WriterInv
  <2> QED BY <1>1, <1>3, <1>4, <1>5, <2>1, <2>4, <2>5, <2>6, <2>7, Sizes, FilledInv
<1>7. CASE /\ pending_len' = 0 /\ pending_sent' = 0
           /\ acked' = acked + buffered
           /\ buffered' = 0
           /\ call' = "idle"
           /\ UNCHANGED <<recordVars, cipher, counter, slice>>
  <2>1. Numbers'
    BY <1>2, <1>4, <1>7, Sizes DEF WriterInv, Numbers, recordVars
  <2>2. Contents'
    BY <1>1, <1>7 DEF WriterInv, Contents, recordVars
  <2>3. Control'
    BY <1>1, <1>7 DEF WriterInv, Control, recordVars
  <2>4. Tenant'
    BY <1>3, <1>7 DEF Tenant, Waiting, recordVars
  <2>5. InFrame'
    <3>1. frame_start <= acked + buffered /\ acked + buffered + 0 <= frame_end
      BY <1>2, <1>5
    <3> QED BY <1>3, <1>4, <1>7, <3>1 DEF InFrame, recordVars
  <2>6. InStep'
    BY <1>1, <1>7 DEF InStep
  <2>7. InOrder'
    <3>1. acked' + buffered' = acked + buffered
      BY <1>2, <1>7
    <3>2. Continues(<<>>, Len(got'), acked + buffered)
      <4>1. Len(got') + 0 = acked + buffered
        BY <1>1, <1>2
      <4> QED BY <4>1 DEF Continues
    <3>3. body' = <<>> /\ pending_sent' = pending_len' /\ ~(pending_sent' < pending_len')
      BY <1>3, <1>7 DEF recordVars
    <3> QED BY <1>1, <3>1, <3>2, <3>3 DEF InOrder, Continues
  <2> QED BY <2>1, <2>2, <2>3, <2>4, <2>5, <2>6, <2>7 DEF WriterInv
<1> QED BY <1>4, <1>6, <1>7 DEF AllSent

\* The invariant is inductive.
LEMMA WriterStep == WriterInv /\ [Next]_vars => WriterInv'
<1> SUFFICES ASSUME WriterInv, [Next]_vars PROVE WriterInv'
  OBVIOUS
<1>1. ASSUME NEW n \in 1 .. Remaining, SocketTakes(n) PROVE WriterInv'
  <2>1. n < Remaining \/ n = Remaining
    BY <1>1 DEF SocketTakes
  <2> QED BY <1>1, <2>1, PartSentInv, AllSentInv
<1> QED BY <1>1, BeginFrameInv, WriteInv, FlushInv, DropInv DEF Next

-----------------------------------------------------------------------------
(* The theorems.                                                           *)

\* No counter of the write buffer leaves it, and nothing is answered for that
\* was not offered.
THEOREM WriterTyping == Spec => []TypeOK
  BY InvInit, WriterStep, InvTypes, PTL DEF Spec

\* The write buffer never holds an open record and unsent ciphertext at once.
THEOREM WriterOneTenant == Spec => []OneTenant
  BY InvInit, WriterStep, InvTenant, PTL DEF Spec

\* Whatever calls are dropped, the server can decrypt every record.
THEOREM WriterInStep == Spec => []ServerInStep
  BY InvInit, WriterStep, InvInStep, PTL DEF Spec

\* Only a frame of a record's length or more makes write() flush.
THEOREM WriterSplits == Spec => []OnlyLongFramesSplit
  BY InvInit, WriterStep, InvSplit, PTL DEF Spec

-----------------------------------------------------------------------------
(* The bytes, counted.                                                     *)

\* A sequence of the first k bytes of the application.
LEMMA FirstBytes ==
    ASSUME NEW s \in Seq(Nat), NEW k \in Nat, Len(s) = k, \A i \in 1 .. Len(s) : s[i] = i
    PROVE  s = [ i \in 1 .. k |-> i ]
  OBVIOUS

\* What is at the server, followed by data that continues it.
LEMMA ContinuedBytes ==
    ASSUME NEW s \in Seq(Nat), \A i \in 1 .. Len(s) : s[i] = i,
           NEW data \in Seq(Nat), NEW k \in Nat, Continues(data, Len(s), k)
    PROVE  s \o data = [ i \in 1 .. k |-> i ]
<1>1. /\ s \o data \in Seq(Nat) /\ Len(s \o data) = Len(s) + Len(data)
      /\ \A i \in 1 .. Len(s) : (s \o data)[i] = s[i]
      /\ \A i \in 1 .. Len(data) : (s \o data)[Len(s) + i] = data[i]
  BY ConcatFacts
<1>2. /\ Len(s) \in Nat /\ Len(data) \in Nat /\ Len(s) + Len(data) = k
      /\ \A i \in 1 .. Len(data) : data[i] = Len(s) + i
  BY DEF Continues
<1>3. ASSUME NEW i \in 1 .. k PROVE (s \o data)[i] = i
  <2>1. CASE i <= Len(s)
    <3>1. i \in 1 .. Len(s)
      BY <1>2, <2>1
    <3> QED BY <1>1, <3>1
  <2>2. CASE i > Len(s)
    <3>1. PICK j \in 1 .. Len(data) : i = Len(s) + j
      <4>1. i - Len(s) \in 1 .. Len(data) /\ i = Len(s) + (i - Len(s))
        BY <1>2, <2>2
      <4> QED BY <4>1
    <3> QED BY <1>1, <1>2, <3>1
  <2> QED BY <1>2, <2>1, <2>2
<1>4. Len(s \o data) = k
  BY <1>1, <1>2
<1> QED BY <1>1, <1>3, <1>4, FirstBytes

\* The invariant counts every byte once.
LEMMA InvAccounted == WriterInv => Accounted
<1> SUFFICES ASSUME WriterInv PROVE Accounted
  OBVIOUS
<1>1. /\ got \in Seq(Nat) /\ body \in Seq(Nat) /\ cipher.data \in Seq(Nat)
      /\ \A i \in 1 .. Len(got) : got[i] = i
      /\ pending_sent \in Nat /\ pending_len \in Nat /\ pending_sent <= pending_len
      /\ acked \in Nat /\ buffered \in Nat
  BY Sizes DEF WriterInv, Numbers, Contents, Tenant, InOrder
<1>2. acked + buffered \in Nat
  BY <1>1
<1>3. CASE pending_sent < pending_len
  <2>1. Remaining > 0
    BY <1>1, <1>3 DEF Remaining
  <2>2. body = <<>>
    BY <1>1, <1>3 DEF WriterInv, Tenant
  <2>3. Continues(cipher.data, Len(got), acked + buffered)
    BY <1>3 DEF WriterInv, InOrder
  <2>4. got \o cipher.data = [ i \in 1 .. acked + buffered |-> i ]
    BY <1>1, <1>2, <2>3, ContinuedBytes
  <2>5. (got \o cipher.data) \o <<>> = got \o cipher.data
    BY <1>1
  <2> QED BY <2>1, <2>2, <2>4, <2>5 DEF Accounted
<1>4. CASE pending_sent = pending_len
  <2>1. ~(Remaining > 0)
    BY <1>1, <1>4 DEF Remaining
  <2>2. Continues(body, Len(got), acked + buffered)
    BY <1>4 DEF WriterInv, InOrder
  <2>3. got \o body = [ i \in 1 .. acked + buffered |-> i ]
    BY <1>1, <1>2, <2>2, ContinuedBytes
  <2>4. got \o <<>> = got
    BY <1>1
  <2> QED BY <2>1, <2>3, <2>4 DEF Accounted
<1> QED BY <1>1, <1>3, <1>4

\* Every byte write() answered for is at the server or on its way there, once
\* and in order.
THEOREM WriterAccounts == Spec => []Accounted
  BY InvInit, WriterStep, InvAccounted, PTL DEF Spec

-----------------------------------------------------------------------------
(* The server's stream is that of the application.                         *)

Sent == [ i \in 1 .. frame_end |-> i ]

\* What the server has is a beginning of what the application sends.
GotWithinSent ==
    /\ got \in Seq(Nat) /\ frame_end \in Nat /\ Len(got) <= frame_end
    /\ \A i \in 1 .. Len(got) : got[i] = i

\* The server is never ahead of the application.
LEMMA InvGot == WriterInv => GotWithinSent
<1> SUFFICES ASSUME WriterInv PROVE GotWithinSent
  OBVIOUS
<1>1. /\ got \in Seq(Nat) /\ body \in Seq(Nat) /\ cipher.data \in Seq(Nat)
      /\ \A i \in 1 .. Len(got) : got[i] = i
      /\ pending_sent \in Nat /\ pending_len \in Nat /\ pending_sent <= pending_len
      /\ acked \in Nat /\ buffered \in Nat /\ frame_end \in Nat /\ acked + buffered <= frame_end
  BY Sizes DEF WriterInv, Numbers, Contents, Tenant, InOrder, InFrame
<1>2. \E d \in Nat : Len(got) + d = acked + buffered
  <2>1. CASE pending_sent < pending_len
    <3>1. Len(got) + Len(cipher.data) = acked + buffered
      BY <2>1 DEF WriterInv, InOrder, Continues
    <3>2. Len(cipher.data) \in Nat
      BY <1>1
    <3> QED BY <3>1, <3>2
  <2>2. CASE pending_sent = pending_len
    <3>1. Len(got) + Len(body) = acked + buffered
      BY <2>2 DEF WriterInv, InOrder, Continues
    <3>2. Len(body) \in Nat
      BY <1>1
    <3> QED BY <3>1, <3>2
  <2> QED BY <1>1, <2>1, <2>2
<1>3. Len(got) <= frame_end
  <2>1. Len(got) \in Nat
    BY <1>1
  <2>2. PICK d \in Nat : Len(got) + d = acked + buffered
    BY <1>2
  <2> QED BY <1>1, <2>1, <2>2
<1> QED BY <1>1, <1>3 DEF GotWithinSent

\* The first k bytes are a beginning of the first m.
LEMMA FirstBytesPrefix ==
    ASSUME NEW s \in Seq(Nat), NEW m \in Nat, Len(s) <= m, \A i \in 1 .. Len(s) : s[i] = i
    PROVE  IsPrefix(s, [ i \in 1 .. m |-> i ])
<1> DEFINE t == [ i \in 1 .. m |-> i ]
<1>1. t \in Seq(Nat) /\ Len(t) = m /\ \A i \in 1 .. m : t[i] = i
  OBVIOUS
<1>2. \A i \in 1 .. Len(s) : i \in 1 .. m
  OBVIOUS
<1> HIDE DEF t
<1>3. IsPrefix(s, t)
  BY <1>1, <1>2, PrefixByElements
<1> QED BY <1>3 DEF t

\* Every step sends, receives or leaves both streams alone.
LEMMA WriterStreamStep ==
    ASSUME GotWithinSent, GotWithinSent', WriterInv, [Next]_vars
    PROVE  [Stream!Send \/ Stream!Receive]_<<Sent, got>>
<1>1. /\ got \in Seq(Nat) /\ frame_end \in Nat /\ Len(got) <= frame_end /\ Len(got) \in Nat
      /\ \A i \in 1 .. Len(got) : got[i] = i
  BY DEF GotWithinSent
<1>2. /\ got' \in Seq(Nat) /\ frame_end' \in Nat /\ Len(got') <= frame_end' /\ Len(got') \in Nat
      /\ \A i \in 1 .. Len(got') : got'[i] = i
  BY DEF GotWithinSent
<1>3. CASE \E n \in FrameLens : BeginFrame(n)
  <2>1. PICK n \in FrameLens : BeginFrame(n)
    BY <1>3
  <2>2. frame_end' = frame_end + n /\ n \in Nat /\ got' = got
    BY <2>1, WriterAssumption DEF BeginFrame, serverVars, WriterAssumption
  <2>3. frame_end <= frame_end'
    BY <1>1, <2>2
  <2>4. Sent \in Seq(Nat) /\ Len(Sent) = frame_end /\ \A i \in 1 .. Len(Sent) : Sent[i] = i
    BY <1>1 DEF Sent
  <2>5. IsPrefix(Sent, [ i \in 1 .. frame_end' |-> i ])
    BY <1>2, <2>3, <2>4, FirstBytesPrefix
  <2> QED BY <2>2, <2>5 DEF Stream!Send, Stream!IsPrefix, IsPrefix, Sent
<1>4. CASE \E n \in 1 .. Remaining : SocketTakes(n)
  <2>1. PICK n \in 1 .. Remaining : SocketTakes(n)
    BY <1>4
  <2>2. frame_end' = frame_end
    BY <2>1 DEF SocketTakes
  <2>3. got' = got \/ got' = got \o cipher.data
    BY <2>1 DEF SocketTakes, ServerGets
  <2>4. cipher.data \in Seq(Nat)
    BY DEF WriterInv, Contents
  <2>5. Len(got) <= Len(got')
    <3>1. CASE got' = got \o cipher.data
      <4>1. Len(got') = Len(got) + Len(cipher.data) /\ Len(cipher.data) \in Nat
        BY <1>1, <2>4, <3>1
      <4> QED BY <1>1, <4>1
    <3> QED BY <1>1, <2>3, <3>1
  <2>6. \A i \in 1 .. Len(got) : i \in 1 .. Len(got')
    BY <1>1, <1>2, <2>5
  <2>7. IsPrefix(got, got')
    BY <1>1, <1>2, <2>5, <2>6, PrefixByElements
  <2>8. IsPrefix(got', [ i \in 1 .. frame_end |-> i ])
    BY <1>1, <1>2, <2>2, FirstBytesPrefix
  <2> QED BY <2>2, <2>7, <2>8 DEF Stream!Receive, Stream!IsPrefix, IsPrefix
<1>5. CASE \/ \E n \in 1 .. frame_end - acked : Write(n)
           \/ Flush \/ Drop \/ SocketFails \/ UNCHANGED vars
  <2>1. frame_end' = frame_end /\ got' = got
    BY <1>5 DEF Write, Flush, Drop, SocketFails, vars, appVars, serverVars
  <2> QED BY <2>1 DEF Sent
<1> QED BY <1>3, <1>4, <1>5 DEF Next

\* The frames reach the server as an unbroken stream: the writer refines
\* ByteStream.
THEOREM WriterImplements == Spec => ImplementsStream
<1>1. Init => Stream!Init
  BY DEF Init, Stream!Init
<1>2. GotWithinSent /\ GotWithinSent' /\ WriterInv /\ [Next]_vars
          => [Stream!Send \/ Stream!Receive]_<<Sent, got>>
  BY WriterStreamStep
<1>3. GotWithinSent /\ GotWithinSent' /\ WriterInv /\ [Next]_vars
          => [Stream!Send \/ Stream!Receive]_<<[ i \in 1 .. frame_end |-> i ], got>>
  BY <1>2 DEF Sent
<1> QED BY <1>1, <1>3, InvInit, WriterStep, InvGot, PTL DEF Spec, ImplementsStream, Stream!Spec
=============================================================================
