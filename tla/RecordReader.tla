---------------------------- MODULE RecordReader ----------------------------
(***************************************************************************)
(* Receiving on a TLS connection: TlsConnection::read, the RecordReader    *)
(* below it and the decryption of a record, against a server that sends    *)
(* records of any kind and length.                                         *)
(*                                                                         *)
(* read() suspends only where it waits for the socket, in the header or in *)
(* the body of a record, and its caller may drop it there (voice_task      *)
(* selects between a frame and a 50 ms timer).  What a dropped call leaves *)
(* behind is the variables below; `call` alone belongs to a call.          *)
(*                                                                         *)
(* A byte is known by its record and its place in it, header first.        *)
(***************************************************************************)
EXTENDS Naturals, SequencesExt

CONSTANTS
    BufLen,      \* capacity of the read buffer
    HeaderLen,   \* length of a record header
    Sealing,     \* what encryption adds to the plaintext: its type and a tag
    BodyLens,    \* lengths of the record bodies the server sends
    MaxRecords,  \* bound: records of one connection
    Wants        \* sizes of the slices the caller reads into

ASSUME ReaderAssumption ==
    /\ BufLen \in Nat
    /\ HeaderLen \in Nat \ {0}
    /\ Sealing \in Nat \ {0}
    /\ BodyLens \subseteq { n \in Nat : n >= Sealing }
    /\ MaxRecords \in Nat
    /\ Wants \subseteq Nat \ {0}

VARIABLES
    records,     \* server: the records sent, with their place in `stream`
    stream,      \* history: every byte the server has put on the socket
    plain,       \* history: every byte of application data it has sent
    taken,       \* bytes of `stream` read from the socket
    hdr,         \* RecordReadState.hdr[..hdr_have]
    body_active, \* RecordReadState.body_active
    body_len,    \* RecordReadState.body_len
    buf,         \* RecordReader.buf
    decoded,     \* RecordReader.decoded
    pending,     \* RecordReader.pending
    decrypted,   \* DecryptedBufferInfo
    counter,     \* read key schedule: number of the record expected next
    call,        \* where the current read() waits, or how the link ended
    want,        \* the slice of the current read()
    out          \* history: bytes returned to the caller

serverVars == <<records, stream, plain>>
readVars   == <<hdr, body_active, body_len, decoded, pending, buf>>
plainVars  == <<decrypted, counter, out>>
vars == <<serverVars, taken, readVars, plainVars, call, want>>

Kinds  == {"data", "ticket", "alert", "message"}
Ended  == {"closed", "panicked", "too_large", "io_error", "crypto_error"}
NoByte == [rec |-> 0, off |-> 0]
Bytes  == [rec : Nat, off : Nat]

\* A record the server has sent: its place in `stream`, that of its data in `plain`.
Records == [kind : Kinds, len : BodyLens, at : Nat, first : Nat]

-----------------------------------------------------------------------------
(* The server (external).  Every record is encrypted: application data, a  *)
(* NewSessionTicket, another handshake message (KeyUpdate, say), or an     *)
(* alert, close_notify as a rule, that ends its stream.                    *)

RecordBytes(n, len) ==
    [ i \in 1 .. HeaderLen + len |-> [rec |-> n, off |-> i - 1] ]

\* The application data in record n.
PlainBytes(n, len) ==
    [ i \in 1 .. len - Sealing |-> [rec |-> n, off |-> HeaderLen + i - 1] ]

ServerSends(kind, len) ==
    /\ Len(records) < MaxRecords
    /\ \A i \in DOMAIN records : records[i].kind # "alert"
    /\ LET n == Len(records) + 1 IN
       /\ records' = Append(records, [kind |-> kind, len |-> len,
                                      at |-> Len(stream), first |-> Len(plain)])
       /\ stream' = stream \o RecordBytes(n, len)
       /\ plain' = IF kind = "data" THEN plain \o PlainBytes(n, len) ELSE plain
    /\ UNCHANGED <<taken, readVars, plainVars, call, want>>

-----------------------------------------------------------------------------
(* read_record_header, advance, ensure_contiguous.                         *)

Unread(d) == d.len - d.consumed

\* RecordHeader::decode.  A header that is not the header of one record reads
\* as an arbitrary one; it never decrypts, and fails at the latest then.
WholeHeader(h) == \E n \in DOMAIN records : h = RecordBytes(n, 0)
DecodedLen(h)  == records[h[1].rec].len

\* Variant: moves only when a byte past the end would be touched.
MovesLate(len) == decoded + len > BufLen + 1

\* ensure_contiguous: the body does not fit behind what was decoded.
MustMove(len) == decoded + len > BufLen

\* copy_within: the part of the body already received goes to the front.
MovedToFront == [ i \in DOMAIN buf |-> IF i < pending THEN buf[decoded + i] ELSE buf[i] ]

\* The start of advance(): make room for a body of len bytes and wait for it.
AwaitBody(len) ==
    \/ /\ len > BufLen
       /\ call' = "too_large"
       /\ UNCHANGED <<buf, decoded>>
    \/ /\ len <= BufLen
       /\ call' = "body"
       /\ IF MustMove(len) THEN buf' = MovedToFront /\ decoded' = 0
                           ELSE UNCHANGED <<buf, decoded>>

\* The first poll of read_application_data, fresh or after a dropped call.
AwaitRecord ==
    IF body_active THEN AwaitBody(body_len) /\ UNCHANGED <<hdr, body_active, body_len, pending>>
                   ELSE call' = "header" /\ UNCHANGED readVars

-----------------------------------------------------------------------------
(* Handing plaintext to the caller: create_read_buffer and pop_into.       *)

\* Variant: what does not fit the caller's slice is given up.
PopAll(d, n) == [d EXCEPT !.consumed = d.len]

PopSome(d, n) == [d EXCEPT !.consumed = @ + n]

Pop(d, buffer, size) ==
    LET n == IF Unread(d) < size THEN Unread(d) ELSE size IN
    /\ decrypted' = PopSome(d, n)
    /\ out' = out \o [ i \in 1 .. n |-> buffer[d.offset + d.consumed + i - 1] ]
    /\ call' = "idle"

Read(size) ==
    /\ call = "idle"
    /\ want' = size
    /\ \/ /\ Unread(decrypted) > 0
          /\ Pop(decrypted, buf, size)
          /\ UNCHANGED <<readVars, counter>>
       \/ /\ Unread(decrypted) = 0
          /\ AwaitRecord
          /\ UNCHANGED plainVars
    /\ UNCHANGED <<serverVars, taken>>

\* The caller drops read() while it waits.
DropLosesHeader ==   \* variant: header progress in a local variable
    /\ call \in {"header", "body"}
    /\ call' = "idle"
    /\ hdr' = IF body_active THEN hdr ELSE <<>>
    /\ UNCHANGED <<serverVars, taken, body_active, body_len, decoded, pending, buf, plainVars, want>>

DropRead ==
    /\ call \in {"header", "body"}
    /\ call' = "idle"
    /\ UNCHANGED <<serverVars, taken, readVars, plainVars, want>>

-----------------------------------------------------------------------------
(* The socket yields bytes: at most as many as the slice it reads into.    *)

Available == Len(stream) - taken

\* Variant: a resumed call asks for a whole header again.
HeaderLeftAll == HeaderLen

HeaderLeft == HeaderLen - Len(hdr)

ReadHeader(n) ==
    /\ call = "header"
    /\ n <= Available
    /\ n <= HeaderLeft
    /\ taken' = taken + n
    /\ hdr' = hdr \o SubSeq(stream, taken + 1, taken + n)
    /\ UNCHANGED pending
    /\ IF n < HeaderLeft THEN UNCHANGED <<body_active, body_len, decoded, buf, call>>
       ELSE IF WholeHeader(hdr')
            THEN /\ body_active' = TRUE
                 /\ body_len' = DecodedLen(hdr')
                 /\ AwaitBody(body_len')
            ELSE /\ call' = "crypto_error"
                 /\ UNCHANGED <<body_active, body_len, decoded, buf>>
    /\ UNCHANGED <<serverVars, plainVars, want>>

\* Variant: what is left of the body forgets what a dropped call received.
RemainAll == body_len

Remain == body_len - pending

\* decrypt_record: the record authenticates under the current counter only as
\* the whole body of the record of that number.
Authentic(buffer) ==
    /\ counter \in DOMAIN records
    /\ body_len = records[counter].len
    /\ \A i \in 0 .. body_len - 1 :
           buffer[decoded + i] = [rec |-> counter, off |-> HeaderLen + i]

\* Variant: the plaintext is taken to be the whole body.
WholeBody == [offset |-> decoded, len |-> body_len, consumed |-> 0]

Plaintext == [offset |-> decoded, len |-> body_len - Sealing, consumed |-> 0]

\* decrypt_record and DecryptedReadHandler::handle, then either the plaintext
\* is returned or read_buffered asks for the next record.  An alert is an error
\* (ConnectionClosed for close_notify, InternalError for the others), a
\* handshake message that is no ticket ends in unimplemented!().
Decrypt(buffer) ==
    IF ~Authentic(buffer) THEN call' = "crypto_error" /\ UNCHANGED plainVars
    ELSE \/ /\ records[counter].kind = "alert"
            /\ call' = "closed"
            /\ UNCHANGED plainVars
         \/ /\ records[counter].kind = "message"
            /\ call' = "panicked"
            /\ UNCHANGED plainVars
         \/ /\ records[counter].kind = "ticket"
            /\ counter' = counter + 1
            /\ call' = "header"
            /\ UNCHANGED <<decrypted, out>>
         \/ /\ records[counter].kind = "data"
            /\ counter' = counter + 1
            /\ IF Unread(Plaintext) > 0 THEN Pop(Plaintext, buffer, want)
               ELSE decrypted' = Plaintext /\ call' = "header" /\ UNCHANGED out

ReadBody(n) ==
    /\ call = "body"
    /\ n <= Available
    /\ n <= Remain
    /\ decoded + pending + n <= BufLen    \* else the slice index panics
    /\ taken' = taken + n
    /\ buf' = [ i \in DOMAIN buf |-> IF i \in decoded + pending .. decoded + pending + n - 1
                                     THEN stream[taken + 1 + i - (decoded + pending)]
                                     ELSE buf[i] ]
    /\ IF pending + n < body_len
       THEN /\ pending' = pending + n
            /\ UNCHANGED <<hdr, body_active, decoded, plainVars, call>>
       ELSE /\ body_active' = FALSE
            /\ hdr' = <<>>
            /\ decoded' = decoded + body_len
            /\ pending' = pending + n - body_len
            /\ Decrypt(buf')
    /\ UNCHANGED <<serverVars, body_len, want>>

\* The socket reports an error, or its end (a read of 0 bytes).
ReadFails ==
    /\ call \in {"header", "body"}
    /\ call' = "io_error"
    /\ UNCHANGED <<serverVars, taken, readVars, plainVars, want>>

-----------------------------------------------------------------------------
(* The handshake has used the same buffer: `decoded` starts anywhere.      *)
Init ==
    /\ records = <<>> /\ stream = <<>> /\ plain = <<>>
    /\ taken = 0
    /\ hdr = <<>> /\ body_active = FALSE /\ body_len = 0
    /\ buf = [ i \in 0 .. BufLen - 1 |-> NoByte ]
    /\ decoded \in 0 .. BufLen
    /\ pending = 0
    /\ decrypted = [offset |-> 0, len |-> 0, consumed |-> 0]
    /\ counter = 1
    /\ call = "idle"
    /\ want \in Wants
    /\ out = <<>>

Server == \E kind \in Kinds, len \in BodyLens : ServerSends(kind, len)
Socket == \E n \in 1 .. Available : ReadHeader(n) \/ ReadBody(n)

Next == \/ Server
        \/ \E size \in Wants : Read(size)
        \/ Socket
        \/ DropRead
        \/ ReadFails

Spec == Init /\ [][Next]_vars

(***************************************************************************)
(* Fairness: voice_task calls read again and again, and a call that finds  *)
(* bytes on the socket takes them in its first poll, before the timer of   *)
(* the select is looked at; dropped calls cannot starve it.                *)
(***************************************************************************)
FairSpec ==
    /\ Spec
    /\ WF_vars(\E size \in Wants : Read(size))
    /\ SF_vars(Socket)

-----------------------------------------------------------------------------
\* The progress counters stay in their ranges: what was read of a header is at most a
\* header, what was read of the stream at most what was sent.
TypeOK ==
    /\ records \in Seq(Records)
    /\ stream \in Seq(Bytes)
    /\ plain \in Seq(Bytes)
    /\ taken \in 0 .. Len(stream)
    /\ hdr \in Seq(Bytes) /\ Len(hdr) <= HeaderLen
    /\ body_active \in BOOLEAN
    /\ body_len \in BodyLens \cup {0}
    /\ buf \in [0 .. BufLen - 1 -> Bytes]
    /\ decoded \in 0 .. BufLen
    /\ pending \in Nat
    /\ decrypted \in [offset : Nat, len : Nat, consumed : Nat]
    /\ counter \in Nat \ {0}
    /\ call \in {"idle", "header", "body"} \cup Ended
    /\ want \in Wants
    /\ out \in Seq(Bytes)

\* Every slice the reader takes of its buffer exists: the part of a body that
\* was received belongs to that body, a body waited for has its room, and
\* plaintext not yet returned lies in front of what is being received.  The
\* usize subtractions of advance() and consume() cannot underflow.
SlicesInBounds ==
    /\ decoded + pending <= BufLen
    /\ IF body_active THEN pending < body_len ELSE pending = 0
    /\ call = "body" => body_active /\ decoded + body_len <= BufLen
    /\ decrypted.consumed <= decrypted.len
    /\ decrypted.offset + decrypted.len <= BufLen
    /\ Unread(decrypted) > 0 => decrypted.offset + decrypted.len <= decoded

\* The reader never mistakes the middle of a record for a header nor decrypts
\* anything but the next whole record, wherever calls were dropped
\* (async_read_survives_cancellation, PATCH-NOTES.md).
NeverMisaligned == call # "crypto_error"

Stream == INSTANCE ByteStream WITH sent <- plain, got <- out

\* The caller receives the server's application data as an unbroken stream.
ImplementsStream == Stream!Spec

\* Whatever the server has sent is returned some day, unless the link ends: no
\* dropped read leaves the reader waiting for something that does not come.
CatchesUp == []<>(out = plain \/ call \in Ended)
=============================================================================
