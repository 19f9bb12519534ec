---------------------------- MODULE RecordWriter ----------------------------
(***************************************************************************)
(* Sending on a TLS connection: TlsConnection::write and flush over the    *)
(* WriteBuffer, with the WebSocket client that calls them above and the    *)
(* server that decrypts below.                                             *)
(*                                                                         *)
(* write() and flush() suspend only where they wait for the socket to take *)
(* ciphertext, and may be dropped there.  One buffer holds either a record *)
(* being filled (open) or a sealed record on its way out (pending).  The   *)
(* k-th byte the application sends is the number k.                        *)
(***************************************************************************)
EXTENDS Naturals, SequencesExt

CONSTANTS
    BufLen,     \* capacity of the write buffer
    Overhead,   \* TLS_RECORD_OVERHEAD, kept free in it
    HeaderLen,  \* length of a record header
    Sealing,    \* what encryption adds to the plaintext: its type and a tag
    FrameLens,  \* lengths of the WebSocket frames
    MaxFrames   \* bound: frames of one connection

ASSUME WriterAssumption ==
    /\ {BufLen, Overhead, HeaderLen, Sealing, MaxFrames} \subseteq Nat
    /\ HeaderLen > 0
    /\ Sealing <= Overhead
    /\ BufLen > Overhead + HeaderLen
    /\ FrameLens \subseteq Nat \ {0}

VARIABLES
    frames,        \* WebSocket client: frames begun
    frame_start,   \* ... the bytes in front of the current one
    frame_end,     \* ... the last byte of the current one
    acked,         \* ... the bytes write() has said it took
    open,          \* current_header is Some(ApplicationData)
    pos,           \* WriteBuffer.pos
    body,          \* the plaintext of the open record
    cipher,        \* the sealed record in the buffer: its counter and content
    pending_len,   \* WriteBuffer.pending_len
    pending_sent,  \* WriteBuffer.pending_sent
    counter,       \* write key schedule: number of the next record
    call,          \* what waits for the socket, and in which flush
    slice,         \* how much the current write() was offered
    buffered,      \* what append() took for a write() that has not returned
    srv,           \* server: record and byte expected next, and whether all fitted
    got            \* server: the plaintext it has decrypted

appVars    == <<frames, frame_start, frame_end, acked>>
recordVars == <<open, pos, body>>
sealedVars == <<cipher, pending_len, pending_sent, counter>>
callVars   == <<call, slice, buffered>>
serverVars == <<srv, got>>
vars == <<appVars, recordVars, sealedVars, callVars, serverVars>>

Waiting == {"write", "full", "flush"}
Remaining == pending_len - pending_sent

\* Variant: the buffer is filled to its end.
MaxBlockIsBuffer == BufLen

MaxBlock == BufLen - Overhead
NoRecord == [nonce |-> 0, data |-> <<>>]

-----------------------------------------------------------------------------
(* WriteBuffer.                                                            *)

\* Variant: the header of the open record is read, not taken.
CloseRecordKeepsHeader(p, data) ==
    /\ cipher' = [nonce |-> counter, data |-> data]
    /\ pending_len' = p + Sealing
    /\ pending_sent' = 0
    /\ counter' = counter + 1
    /\ open' = TRUE /\ pos' = 0 /\ body' = <<>>

\* close_record_pending and increment_counter: the record of length p with
\* plaintext data is encrypted in place and waits to be sent.
CloseRecord(p, data) ==
    /\ cipher' = [nonce |-> counter, data |-> data]
    /\ pending_len' = p + Sealing
    /\ pending_sent' = 0
    /\ counter' = counter + 1
    /\ open' = FALSE /\ pos' = 0 /\ body' = <<>>

\* Variant: write() answers for the whole slice, as write_all would.
CreditsSlice(n, taken) == n

Credit(n, taken) == taken

\* append() at position p behind data, of a slice of n bytes, and the rest of
\* write(): a record that is full is flushed before write() returns.
AppendAt(p, data, n) ==
    LET space == MaxBlock - p
        taken == IF n < space THEN n ELSE space
        full  == p + taken = MaxBlock
        longer == data \o [ i \in 1 .. taken |-> acked + i ]
    IN \/ /\ full
          /\ CloseRecord(p + taken, longer)
          /\ call' = "full"
          /\ buffered' = Credit(n, taken)
          /\ UNCHANGED <<slice, acked>>
       \/ /\ ~full
          /\ open' = TRUE /\ pos' = p + taken /\ body' = longer
          /\ acked' = acked + Credit(n, taken)
          /\ call' = "idle"
          /\ IF open THEN UNCHANGED <<pending_len, pending_sent>>
                     ELSE pending_len' = 0 /\ pending_sent' = 0    \* clear_pending
          /\ UNCHANGED <<cipher, counter, slice, buffered>>

-----------------------------------------------------------------------------
(* The WebSocket client (external): it writes a frame in one or more       *)
(* pieces, goes on where write() left it when a call was dropped, and      *)
(* flushes after the last piece.                                           *)

\* Variant: a frame is begun before the one in front of it is flushed.
FramesPileUp == TRUE

FrameFlushed == ~open

BeginFrame(n) ==
    /\ call = "idle"
    /\ acked = frame_end
    /\ FrameFlushed
    /\ frames < MaxFrames
    /\ frames' = frames + 1
    /\ frame_start' = frame_end
    /\ frame_end' = frame_end + n
    /\ UNCHANGED <<acked, recordVars, sealedVars, callVars, serverVars>>

\* Variant: write() starts its record without flushing first.
NothingPending == TRUE

FlushedBefore == Remaining = 0

\* write(): without an open record, what is pending goes out first.
Write(n) ==
    /\ call = "idle"
    /\ n <= frame_end - acked
    /\ \/ /\ open
          /\ AppendAt(pos, body, n)
       \/ /\ ~open /\ FlushedBefore
          /\ AppendAt(HeaderLen, <<>>, n)
       \/ /\ ~open /\ ~FlushedBefore
          /\ call' = "write" /\ slice' = n
          /\ UNCHANGED <<acked, recordVars, sealedVars, buffered>>
    /\ UNCHANGED <<frames, frame_start, frame_end, serverVars>>

\* flush(): seals the open record, then waits until all of it is sent.
Flush ==
    /\ call = "idle"
    /\ call' = "flush"
    /\ \/ /\ open
          /\ CloseRecord(pos, body)
       \/ /\ ~open /\ Remaining > 0
          /\ UNCHANGED <<recordVars, sealedVars>>
    /\ UNCHANGED <<appVars, slice, buffered, serverVars>>

\* Variant: what the socket took is known to the dropped call only.
DropRewinds ==
    /\ call \in {"write", "flush"}
    /\ call' = "idle"
    /\ pending_sent' = 0
    /\ UNCHANGED <<appVars, recordVars, cipher, pending_len, counter, slice, buffered, serverVars>>

\* The caller drops write() or flush() while it waits.  A write() dropped in
\* the flush of a full record would lose its answer; its callers are bound to
\* frames that never get there (head of ws.rs, OnlyLongFramesSplit).
Drop ==
    /\ call \in {"write", "flush"}
    /\ call' = "idle"
    /\ UNCHANGED <<appVars, recordVars, sealedVars, slice, buffered, serverVars>>

-----------------------------------------------------------------------------
(* The socket takes n bytes of the pending record; the server gets them.   *)

\* The server (external) decrypts record after record by its own counter.
ServerGets(n) ==
    IF srv.ok /\ cipher.nonce = srv.next /\ pending_sent = srv.have
    THEN IF srv.have + n < pending_len
         THEN srv' = [srv EXCEPT !.have = @ + n] /\ UNCHANGED got
         ELSE /\ srv' = [srv EXCEPT !.next = @ + 1, !.have = 0]
              /\ got' = got \o cipher.data
    ELSE srv' = [srv EXCEPT !.ok = FALSE] /\ UNCHANGED got

\* The rest of flush() and of the call it was made by, once all is sent.  The
\* second case is also a write() dropped while the socket is being flushed.
AllSent ==
    \/ /\ call = "write"
       /\ AppendAt(HeaderLen, <<>>, slice)
    \/ /\ pending_len' = 0 /\ pending_sent' = 0
       /\ acked' = acked + buffered
       /\ buffered' = 0
       /\ call' = "idle"
       /\ UNCHANGED <<recordVars, cipher, counter, slice>>

SocketTakes(n) ==
    /\ call \in Waiting
    /\ n <= Remaining
    /\ ServerGets(n)
    /\ \/ /\ n < Remaining
          /\ pending_sent' = pending_sent + n
          /\ UNCHANGED <<acked, recordVars, cipher, pending_len, counter, callVars>>
       \/ /\ n = Remaining
          /\ AllSent
    /\ UNCHANGED <<frames, frame_start, frame_end>>

SocketFails ==
    /\ call \in Waiting
    /\ call' = "failed"
    /\ UNCHANGED <<appVars, recordVars, sealedVars, slice, buffered, serverVars>>

-----------------------------------------------------------------------------
Init ==
    /\ frames = 0 /\ frame_start = 0 /\ frame_end = 0 /\ acked = 0
    /\ open = FALSE /\ pos = 0 /\ body = <<>>
    /\ cipher = NoRecord /\ pending_len = 0 /\ pending_sent = 0
    /\ counter = 0
    /\ call = "idle" /\ slice = 0 /\ buffered = 0
    /\ srv = [next |-> 0, have |-> 0, ok |-> TRUE]
    /\ got = <<>>

Next == \/ \E n \in FrameLens : BeginFrame(n)
        \/ \E n \in 1 .. frame_end - acked : Write(n)
        \/ Flush
        \/ Drop
        \/ \E n \in 1 .. Remaining : SocketTakes(n)
        \/ SocketFails

Spec == Init /\ [][Next]_vars

-----------------------------------------------------------------------------
\* The counters of the write buffer stay in it (a sealed record fits), and
\* write() never answers for bytes it was not offered.
TypeOK ==
    /\ {frames, frame_start, frame_end, acked, counter, slice, buffered} \subseteq Nat
    /\ acked + buffered <= frame_end
    /\ {pos, pending_len, pending_sent} \subseteq 0 .. BufLen
    /\ open \in BOOLEAN
    /\ body \in Seq(Nat)
    /\ cipher \in [nonce : Nat, data : Seq(Nat)]
    /\ call \in Waiting \cup {"idle", "failed"}
    /\ srv \in [next : Nat, have : Nat, ok : BOOLEAN]
    /\ got \in Seq(Nat)

\* The buffer has one tenant: a record is open only when nothing is pending, so
\* filling it never overwrites ciphertext, and while a flush waits none is open.
OneTenant ==
    /\ IF open THEN Remaining = 0 /\ pos \in HeaderLen .. MaxBlock - 1 ELSE pos = 0
    /\ pending_sent <= pending_len
    /\ call \in Waiting => ~open /\ Remaining > 0

\* The server can decrypt every record: each byte it gets is the next byte of
\* the record whose number it expects, whichever flush sent it and whichever
\* was dropped (PATCH-NOTES.md: not resent, not cut, not encrypted twice).
ServerInStep == srv.ok

\* Every byte write() has taken is at the server, in the sealed record or in
\* the open one, once and in order; write() answers for no other.
Accounted ==
    LET held == IF Remaining > 0 THEN cipher.data ELSE <<>>
    IN got \o held \o body = [ i \in 1 .. acked + buffered |-> i ]

\* A frame shorter than the plaintext of a record is taken by write() without
\* a flush of its own, so its write() never waits with the frame half taken
\* (the condition ws.rs puts on its frames, and why a dropped send is safe).
OnlyLongFramesSplit ==
    call = "full" => frame_end - frame_start >= MaxBlock - HeaderLen

Stream == INSTANCE ByteStream WITH sent <- [ i \in 1 .. frame_end |-> i ], got <- got

\* The server receives the frames as an unbroken stream of bytes.
ImplementsStream == Stream!Spec
=============================================================================
