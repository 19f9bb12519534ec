# Verification of the talk-with-anyone ESP32 firmware

TLA+ models of the Rust firmware of a voice-conversation speaker, the TLC runs
that check them on small instances and TLAPS proofs of their main invariants for
every instance.  Every definition is translated from the source; `PROJECT.json`
(`map`) gives the lines each one stands for.

## 1. The system

The firmware is one cooperative executor (embassy) on one core, with these parts.

| part | source | state | operations |
|---|---|---|---|
| `app_loop` | `src/main.rs` 331-601 | AppState (Idle, Listening, Playing), cooldown, listening and quiet timers, key edges | one pass per millisecond: audio pump, keys, microphone, state machine |
| `voice_task`, `handle_server_event` | `src/main.rs` 622-884 | the WebSocket session | start a session, take an interrupt, drain the uplink, receive, dispatch, reconnect |
| `RoundTracker` | `src/voice_client.rs` 160-337 | seven flags of the current reply | one method per event |
| protocol text | `src/voice_client.rs` 72-157, 343-623 | none | lenient JSON scanner, unescape, base64, message builders |
| `AudioOutput` | `src/audio_output.rs` | 3 MB byte ring, stream flags, resampler, DMA transfer | begin/finish/stop, feed, tick, tone |
| `AudioInput` | `src/audio_input.rs` | capture transfer | start, stop, read |
| `WsClient` | `src/ws.rs` | socket, TLS connection, static buffers | connect with retries, reconnect, frames |
| embedded-tls (patched) | `.deps/embedded-tls` | read state and write buffer of the record layer, handshake state, traffic keys and counters | open, write, flush, read, close |
| `Display` | `src/display.rs` | subtitle history, typewriter, status bar values | user line, reply deltas, full text, tick |
| `Renderer`, `Screen` | `src/render.rs`, `src/screen.rs` | row snapshots, bar key, panel state | push dirty rows, recover the panel |
| `Battery` | `src/battery.rs` | level, charging | sample |
| `ntp_task` | `src/ntp.rs` | server index, socket, time and uptime of the last answer | ask the servers in turn, calibrate, sleep 12 h |
| `wifi_conn` | `src/main.rs` 893-917 | connected or not | connect, wait, connect again |

The two large tasks share five statics (`WS_UP`, `MIC_ACTIVE`, `LAST_VAD_MS`,
`INT_REQ`, `MIC_CH`) and, behind mutexes, the tracker, the speaker, the
microphone and the display.  No mutex guard lives across a suspension, and all
tasks run on one thread, so the code between two suspension points is atomic;
everything hard comes from what happens *between* them:

- `app_loop` sleeps in the debounce (30 ms), release (10 ms) and pass (1 ms)
  timers and goes on with values it read before (`now`, `ws_up`);
- `voice_task` suspends in every send, in the 50 ms receive and for 3 s between
  reconnects, while `app_loop` moves on;
- the DMA plays on its own; the server sends on its own, and events of an
  interrupted reply keep arriving;
- the link fails at any point of a round; a session is rebuilt on new sockets.

What must be right, per part: the copies of "the microphone is on" agree and the
device is never deaf in Listening; an interrupted reply stays silent; tracker and
speaker agree about the stream; playback ends in listening; a lost
session comes back; the speaker's ring keeps samples in order and the resampler does
not drift; the record layer neither loses nor repeats a byte when a read or a flush
is dropped half way; both ends of a connection hold the same keys and no nonce is
used twice; static buffers have one borrower; the clock is right when it shows a
time; the subtitles show what was said, all of it and once; the panel shows what
the renderer believes it shows; what is written on the wire means what it is read
as.  `PROJECT.json` lists the hazards line by line.

## 2. Modules

| module | models |
|---|---|
| `RoundTracker` | every method of `RoundTracker`, as operators on a record with the fields of the struct (the time stamp of the first token kept as a flag) |
| `Speaker` | `AudioOutput` as the two tasks see it: operators on a record of stream flags, ring level, transfer and DMA level, in units of one audio chunk |
| `VoiceDevice` | `app_loop`, `voice_task`, `handle_server_event`, the statics they share, the server and time; extends the two above |
| `MCVoiceDevice` | `VoiceDevice` as the runs instantiate it |
| `VoiceDevice_proofs` | its theorems |
| `PlayQueue` | the abstract specification of the loudspeaker: what is accepted is heard in order and never twice |
| `AudioRing` | `AudioOutput` byte by byte: ring, resampler, descriptor chain; implements `PlayQueue` |
| `Subtitles` | the texts of `Display`: history, wrapping, typewriter, streaming, full text, as operators on a record |
| `Panel` | the drawing pass of `app_loop`, `Renderer`, `Screen` and the panel's pixels, the status bar and the volume keys; extends `Subtitles` |
| `MCPanel` | `Panel` with the texts the runs use |
| `ByteStream` | the abstract specification of one direction of a TLS connection: what comes out is a beginning of what went in |
| `RecordReader` | `TlsConnection::read`, `RecordReader`, the decryption of a record and `ReadBuffer`, against a server that sends records; implements `ByteStream` |
| `RecordWriter` | `TlsConnection::write` and `flush` over `WriteBuffer`, with the WebSocket client above and the decrypting server below; implements `ByteStream` |
| `LinkFaults` | the budget of faults the next three share |
| `TlsHandshake` | `TlsConnection::open`: states, transcript, key schedule and record counters, against a server that follows RFC 8446 |
| `Clock` | `ntp_task` and `clock_hm` |
| `Link` | `wifi_conn`, the link half of `voice_task` and `WsClient`, composed with the two above |
| `MCLink` | `Link` as the runs instantiate it |
| `WireBuffers` | `CryptoBuffer` and `ParseBuffer` |
| `TlsExtensions` | code points, data and vectors of TLS extensions, both directions |
| `TlsMessages` | the handshake messages, alerts and plaintext records, both directions |
| `Messages` | the JSON and base64 of `voice_client.rs` |
| `Codec` | builds messages step by step and compares the code's bytes with renderings of the formats |
| `StreamLemmas` | facts about concatenations, pieces, prefixes and flattened sequences; induction, recursive functions and folds |
| `RecordReader_proofs`, `RecordWriter_proofs` | the theorems of the record layer |
| `AudioRing_proofs`, `Panel_proofs` | the theorems of the loudspeaker and of the picture |
| `Link_proofs` | the theorems of the link: buffers, clock and nonces, and the agreement of both ends |
| `Codec_proofs` | the theorems of the text frames: the scanner, escapes, numbers and base64 |

### VoiceDevice

`appState` and `appPc` are where `app_loop` is: `appPc = "pass"` between two
passes, `idle30`, `listen30`, `play30` in the debounce of BOOT in each state,
`release` while it waits for BOOT to come up.  A pass is one action (`PassIdle`,
`PassListening`, `PassPlaying`): the pump call, the arm of the state and, in
Listening, the three tests in the order of the code, the later ones overriding
the earlier (a reply enters Playing, BOOT or the timeout leave for Idle).
`DebounceX` is the rest of the pass after the 30 ms.  `voicePc` is where
`voice_task` is: `down` (connecting, or between session and reconnect),
`interrupt`, `uplink`, `receive` are the three steps of its loop; each arm of
`handle_server_event` is one operator `HandleX`.

Abstractions:

- A send that waits for the socket is one step with the code that led to it: what
  the server does with the data is a later step of the server anyway, and a
  failing send ends the session (`EndSession`).  Link failures may come from any
  send, from the receive and from `session.start`; a half-open link that nobody
  notices for a while is a longer stay in `receive`.
- Wall-clock time is the passing of three limits: `cooling` (cooldown, or the
  first 5 s after boot), `age` (the 3 min of the listening timeout, first since
  `listen_started`, then also since the last VAD event) and `quiet` (400 ms of
  silence).  `age = "ahead"` is the VAD event stored during a debounce, newer than
  the `now` the suspended pass still uses: the wrapping subtraction makes it huge.
  The three are put back to their first value when their state is left, as the
  code assigns the variables behind them before it reads them again.
- The BOOT edge is a free choice in every pass (the code's `prev_talk` only
  removes behaviours).  Which pass is the 16th is one, too (`turn`).
- `mic` is the `AudioInput`: no transfer (`off`), one that `app_loop` started
  (`on`) or an error handler (`resumed`), or none because the last start failed
  (`refused`).  `start()` returns early when a transfer runs and otherwise may be
  refused by the DMA, up to `MaxRefusals` times; no caller looks at what it
  returns.  A read of a running capture yields a chunk or nothing, of one that
  does not run nothing; `MaxEmpty` reads of nothing in a row (32 in the code,
  `empty`) restart it, and that start may be refused as well.
- `text` is what the subtitles show of the round: the user's line, a partial
  reply, the full reply.  Status bar, volume keys and heartbeat are left to other
  modules; none of them touches the state here.
- The server (external) follows the order stated at the head of
  `voice_client.rs`: asr.result, deltas alongside audio.start, chunks and
  audio.done, then completed; a new utterance voids the reply; an interrupt ends
  it with interrupt.ack; with `Errors`, assistant.error ends a reply at any point
  and error comes at any time; with `SilentRounds`, a round may have no audio.
  `Oversize` lets the receive skip a frame larger than the payload buffer.

A frame whose audio decodes to nothing (`main.rs` 822) is not fed, which is a
chunk the server did not send.  `Speaker` counts audio in chunks and its DMA always
starts; a refused start (`audio_output.rs` 349) is in `AudioRing`.  The ring holds `RingCap`, the descriptor chain
`DmaCap`, playback starts at `Watermark`.  As in the firmware one prefill (16 KB of
stereo, 8 KB of ring) is less than the watermark (32 KB), `Watermark > DmaCap`.

### RecordReader and RecordWriter

`voice_task` selects between the next frame and a 50 ms timer, and drops the call
that loses; the patches to embedded-tls (`PATCH-NOTES.md`) exist to make that
safe.  A `read`, `write` or `flush` suspends only where it waits for the socket,
so each wait is one action and what lies between two waits belongs to the action
that resumes:

| code | action |
|---|---|
| `read()` up to its first wait, or to the plaintext left from the last record | `Read` |
| `read_record_header` after the socket yielded bytes, then `advance` up to its wait | `ReadHeader` |
| `advance` after the socket yielded bytes, then `consume`, `decrypt_record` and the copy to the caller | `ReadBody` |
| `write()` up to its wait: append, or append and seal a full record, or flush first | `Write` |
| `flush()` up to its wait | `Flush` |
| `flush()` after the socket took bytes, and after the last one the rest of the call it was made by | `SocketTakes` |
| the future is dropped while it waits | `DropRead`, `Drop` |
| an error of the socket | `ReadFails`, `SocketFails` |

What a drop leaves behind is exactly the variables other than `call` (and `want`,
`slice`: arguments the next call brings anew).  In the reader a byte is the
pair of its record and its place in it, so that a header read at the wrong
place, a body of the wrong length or a piece taken twice is told apart.  What is in a
record decides where the reader goes: application data, a ticket, an alert of any kind
(the call ends with an error), another handshake message (the `unimplemented!()` of
`decrypted_read_handler.rs` 60, `panicked`).  A record
decrypts only as the whole body of the record whose number the key schedule
expects, which is what authenticated encryption gives.  In the writer the k-th byte
of the application is the number k.  The cryptography itself and the choice of
cipher are abstracted to that.  The handshake has used the read
buffer before, so `decoded` starts anywhere in it.

External: the server's records and frames, the socket (it takes or yields any
number of bytes, at least one), and the WebSocket client, which writes a frame in
pieces, goes on behind what `write` took and flushes before the next frame.  A
`write` whose record becomes full flushes it before it answers for the bytes:
dropped there, its caller would send them again.  `ws.rs` (13-18) keeps its frames
below a record for that reason, so the model drops no call in that wait and
`OnlyLongFramesSplit` shows that frames within the condition never get to it.
(The comment there names a capacity of `TLS_WRITE_BUF` - 29; the code keeps
`TLS_RECORD_OVERHEAD` = 128 free, `config.rs` 22.  The frames of the firmware, at
most 1038 bytes, are far below either.)

### AudioRing

One variable per field of `AudioOutput` that the ring, the resampler and the transfer
use, and a history of what was written, read and played.  `BeginStream`,
`FinishStream`, `StopPlayback` and `Feed` are the methods; a `tick()` is one of
`TickStart`, `TickPush`, `TickUnderrun` and `TickEnd`, as the flags say.  The k-th byte
written to the ring in a stream is the number k, and a sample of the ring is the pair of
bytes 2k-1, 2k; what the DMA plays leaves `chain` one sample at a time.  At the
speaker's own rate `feed` copies bytes, so a chunk of odd length, or a ring that fills
(one byte stays free, so the space is odd whenever the fill is even), ends a write inside
a sample.  `split` remembers that.  From then on the pairs are halves of neighbours,
`SamplesWhole` and `ImplementsQueue` speak of the pairs of the ring, and a byte can
remain that `fill_from_ring` does not take: `buffered() == 0` (`audio_output.rs` 270)
then never holds and the stream never ends, which `StreamEnds` excepts
(`Buffered = 1`).  The resampled path checks for two bytes and has none of this.
As a `PlayQueue` the speaker has accepted the samples
in the ring, and what has passed is everything before the first sample still in the DMA
chain, or, when the chain holds none, everything taken from the ring.  The feedback tone is not in
the model: while a transfer is in flight
it holds `tx`, and `play_tone` returns before its `reclaim()` (the comment there,
that a tone first stops what is playing, is not what happens).

### Subtitles and Panel

`Subtitles` has an operator per method of `Display`; a text is a sequence of
characters of four kinds (word characters, a space, a line break, the rest), because
that is what the typewriter and `wrap_to_lines` tell apart.  `Panel` composes it with
the renderer.  `Pass` is one drawing pass of `app_loop`: the typewriter's step, then
`Renderer::tick`, which recovers a failed panel (`RecoverTick`), holds the
colour bars (`HoldTick`), clears a stripe (`ClearTick`) or pushes the first `MaxPush` of the
bands that are stale (`DrawTick`), the bar before the rows, one cell per character,
through an address window.  A write
may fail at any rectangle: it leaves noise in the cells of its window and the panel
marked as failed, until a recovery.  `volUntil` is the deadline of the volume bar as the
wrapping comparison sees it.

### TlsHandshake, Clock and Link

`Link` is where the device meets its network.  `voice_task` is at `lpc`: `tcp`
(`build_transport`), `tls` (`TlsConnection::open`, one action per state of
`connection.rs`), `answer` (the upgrade), `start`, `session`, `pause` (3 s).  The
access point, the connection and the servers fail at any step, within `MaxFaults`.
Keys are symbolic: a secret is the history of what was mixed into it, a traffic key
a label, a secret and the transcript it was derived over; a record opens only
under the key and number it was sealed with.  The server (external) cuts its flight
into records as it likes, may ask for a client certificate, sends tickets, alerts
and a refused upgrade.  `Clock` counts time in 12 h periods, the uptime modulo `Wrap`
of them; a query takes no time, a reply may come late only where `Late` says so.

Assumed: the device learns of a connection that died.  The socket's 10 s timeout sees
to it while something is unacknowledged; a connection that dies in silence while the
device only listens is noticed by nothing.  The WebSocket link is the TLS one
(`USE_WSS`); the plain one has the same steps without the handshake.

### Messages, WireBuffers, TlsExtensions, TlsMessages and Codec

Pure functions, one operator per function of the code, under the same name where
the code has one for it; `?` is `Then`, `map_err` is `MapErr`, and a parser returns
its error or its value with the buffer behind it.  A JSON payload is a sequence of
symbols: structural characters and escapes one by one, keys and type names whole, a
two-byte character as two symbols.  TLS messages are bytes.  Certificates, randoms and
hashes are a few bytes long (`RandomLen`, `HashLen`), which the parsers only
copy.  `Codec` has a behaviour for each thing to say: members added to a
payload, symbols to a literal, bytes to a chunk, options to a configuration, extensions
to a message of the server; the renderings it compares with (`Payload`, `Base64`,
`HelloBytes`, `FlightBytes`, ...) are written from RFC 8259, 4648 and 8446, not from the
code.  The device itself sets none of server name, ALPN, PSK and fragment length
and parses no ClientHello; those paths of the library are in the model because the
same buffers carry them.

## 3. Runs

| run | what it shows |
|---|---|
| `device_safety` | type invariant; `MicCopiesAgree`, `MicOnlyWhenListening`, `InterruptSilences`, `TrackerKnowsStream`, `RingBelongsToStream`, `LateDeltaDropped`, with BOOT and error events at any moment, rounds with and without audio and one link failure anywhere |
| `device_faults` | with BOOT at any moment, oversized frames and a link failure: a lost session is rebuilt (`Reconnects`) and, on an uplink faster than the capture, every interrupt is taken (`InterruptTaken`) |
| `device_converse` | on a link that holds, with replies of at least the watermark, error events at any moment and a microphone start that may be refused: the device listens again and again with the capture running, unless a reply that failed in the middle leaves its stream open (`KeepsConversing`); `MicCopiesAgree` through the refusals |
| `audio_ring` | the ring's indices delimit what was written and not read (`Window`), its readers keep to pairs of bytes, and to whole samples until a write ends inside one (`SamplesWhole`), the resampler keeps time (`KeepsTime`), the speaker implements `PlayQueue`, a closed stream ends unless half a sample is left (`StreamEnds`) |
| `screen` | the panel shows what the renderer has on record, rows and bar (`ScreenTrue`); the transcript loses and repeats nothing (`TranscriptKept`); the picture comes to rest on the state of the moment (`Settles`) |
| `tls_reader` | with reads dropped anywhere, tickets, alerts, other handshake messages, empty and oversized records: `SlicesInBounds`, `NeverMisaligned`; the reader implements `ByteStream`; it gets through everything sent (`CatchesUp`) |
| `tls_writer` | with writes and flushes dropped anywhere and a socket that takes any part: `OneTenant`, `ServerInStep`, `Accounted`, `OnlyLongFramesSplit`; the writer implements `ByteStream` |
| `link` | with two faults at any steps: both ends agree on keys and records (`Understood`), no nonce twice (`NoNonceReuse`), buffers lent once (`BuffersLentOnce`), a shown time is right (`ClockRight`), the session comes back (`ComesBack`) |
| `codec` | the scanner finds what the server wrote (`PayloadRead`), texts and samples come out as they went in (`TextDecoded`, `AudioDecoded`), records are well formed (`RecordsWellFormed`), a server's flight is read to its last byte or refused for a reason (`FlightReadable`) |
| `deaf_after_reconnect` | violated: Listening without a microphone after a reconnect |
| `volume_bar` | violated: the volume bar shows outside its 1.5 s and not within |
| `late_ntp_reply` | violated: a reply that missed its query sets the clock twelve hours back |

The last three check a statement of a comment or of the project's own README against
the code; `PROJECT.json` (`findings`) quotes each and says what happens.  More
disagreements came up on the way.  Each is a behaviour of the models within
the bounds of the runs above unless it says otherwise, and shows as an exception in
the property it names:

- a reply that one pump call moves whole into the DMA chain is never seen by Listening
  (`main.rs` 466 looks at what is left in the ring), which then stays without its
  microphone; `device_converse` therefore assumes replies of the watermark or more;
- an error event turns the microphone on while a reply plays (`main.rs` 876;
  465 promises a pause against echo): the capture is then `resumed`, and
  `MicOnlyWhenListening` speaks of `on`;
- the full text of an interrupted reply is shown (`main.rs` 845; `voice_client.rs`
  178-179 says it is dropped), hence the exception in `LateDeltaDropped`;
- after an interrupt, Listening goes back to Playing while the speaker still has audio
  (`main.rs` 466; 507 says BOOT listens at once);
- a link failure between audio.start and audio.done leaves a stream nobody ends, and
  `app_loop` in Playing until BOOT (`main.rs` 654), hence `drops = 0` in
  `TrackerKnowsStream`;
- so does assistant.error between the two, without any failure of the link: the
  handler restarts the microphone (`main.rs` 859, "回复出错：恢复收音", recording again
  after a failed reply) and leaves the stream, and Playing reads no microphone.  This is
  `Abandoned` in `KeepsConversing`; without that disjunct the run fails;
- a stream with half a sample left never ends (`audio_output.rs` 270; `main.rs` 527
  says that listening goes on after the reply), hence `Buffered = 1` in `StreamEnds`;
- the uplink drain has no bound (`main.rs` 686), while 697 says that the 50 ms timeout
  assures the rhythm of interrupts and microphone: without the assumption
  `FastUplink`, `InterruptTaken` fails;
- a refused start of the microphone leaves Listening with everything but the transfer
  on; the restart after 32 empty reads mends it while MIC_ACTIVE is on;
- an interrupt that crosses the asr.result of a new round may cut that round's stream
  off from its tracker, with the same end; `KeepsConversing` is therefore checked
  without presses (`Presses = FALSE`).

And three in the codecs, which no state depends on: an alert sent before there are keys
carries the content type of ChangeCipherSpec (`record.rs` 49); `unescape` drops an
unknown escape, which its comment (`voice_client.rs` 540) says is kept; a payload cut
behind its type gives an event with empty fields where 71 says Unknown.

**Bounds.**  In the `device_*` runs, rings of 2 or 3 chunks, a descriptor chain of 1 or 2, a
microphone queue of 1, one frame in flight, replies of up to 3 chunks, one link failure,
one refused start of the microphone.
They are the smallest at which every branch is taken: a ring that fills and
overflows, a watermark that is reached or is not before audio.done, a prefill that
leaves audio in the ring or empties it, an underrun, a full queue, a frame that
waits while the device acts, a failure in every `voicePc`, a start refused on
entering Listening, in an error handler or in the restart itself, and an empty read
that is and one that is not the last of its streak.  Numbers of rounds,
presses, errors and timeouts are not bounded: the state is finite without it.

In `audio_ring` 24 bytes go through a ring of 8, three times around, with a chain
of 3 samples and a watermark of 4 bytes; the rates (8, 16, 24, 48 and 56 kHz against 16)
are below, at and above the speaker's, with and without a remainder, chunks of 3 and
6 bytes end inside a sample or not and are shorter and longer than what is free.  In `screen` a row has two
columns and the caret's, a reply is longer than a row and breaks or does not, the history
holds 3 lines of which 2 show, a pass pushes 2 rectangles of the 3 there are, and two
events (a round, a status change, a failing write) meet in any order.  In `link` two
faults meet, two NTP servers are asked, the uptime wraps after 4 periods
of 5: one more than the rounds two faults can make fail in a row, as the 49.7 days
of the code are more than its 12 h.  `codec` takes every payload of 3 members, every
literal of 4 symbols, every text of 4 characters and chunk of 5 bytes (one quad and
each remainder), and 3 extensions or certificates per message, one more than there is
room for.

In `tls_reader` three records go through a buffer of 5 bytes with a header of 2, a
seal of 1 and bodies of 1 (no data), 3 (one fits behind another only after a move), 4 and 6 (too
large), read into slices of 1 or 2 bytes (less than a record's data, and more).  In
`tls_writer` a record holds 3 bytes of a buffer of 7, and frames of 1 and 2 bytes
fit it with and without room to spare, 3 fills it exactly and 6 takes two; three
frames follow one another, so that a dropped flush of one meets the write of the
next.

**Fairness.**  `DeviceFairness` is weak fairness of each task's steps, of the
timers and of the DMA: the executor polls every woken task and no step blocks
another.  The user is only asked to release a key.  `FastUplink` (strong fairness
of the drain finding its queue empty) says that a chunk of 32 ms is sent in less
than 32 ms.  It is an assumption about the network, not something the code assures: the
drain loop has no bound, and on a slower link it need not end, so that neither frames
nor the interrupt are reached.  The runs say nothing of such a link.  `ServerFairness` says that the
server continues a reply it has begun.  `Reconnects` and `InterruptTaken` need
`voice_task`'s own progress and `FastUplink` only (`VoiceSpec`), the conversation
needs all three (`FairSpec`).  `CatchesUp` assumes that `voice_task` reads again and
again (weak fairness of `Read`) and strong fairness of `Socket`: the select polls
the frame before the timer, so a call that finds bytes on the socket takes them
before it can be dropped, and repeated drops cannot keep it from them.
The capture need not yield anything: a streak of empty reads restarts it.
`StreamEnds` needs `app_loop`'s tick and the DMA.  `Settles` needs the drawing pass, with and
without a step of the typewriter; writes fail only so often.  `ComesBack` needs the
device's tasks, an access point that takes the device back and servers that answer; no
fault need ever happen.

Variants next to an operator (`...Forgets`, `DropRewinds`, and so on, each marked so) are the
same operation with a plausible slip.  No specification uses them; each shows that
the property named with it in `PROJECT.json` (`mutants`) notices.

## 4. Proofs

**`VoiceDevice_proofs`**, for every value of the constants that satisfies the two
assumptions (`SpeakerAssumption`, `DeviceAssumption`):

| theorem | property |
|---|---|
| `Typing` | `TypeOK` |
| `MicCopies` | `MicCopiesAgree` |
| `SilencedByInterrupt` | `InterruptSilences` |
| `StreamKnown` | `TrackerKnowsStream` |
| `RingOwned` | `RingBelongsToStream` |
| `LateDeltas` | `LateDeltaDropped` |
| `MicListens` | `MicOnlyWhenListening` |

`TypeOK` is inductive.  So is `MicCopiesAgree` on typed states.  The three speaker
invariants are proved together, as `ReplyInv`: that asr.result stops the stream it
leaves follows from `TrackerKnowsStream`, that nothing restarts an interrupted stream
from `InterruptSilences`, and that the pump only forgets a stream when the ring is
empty from `RingBelongsToStream`.  `ReplyInv` adds `NotYetConnected`: a new session
resets the tracker but not the speaker, which is harmless only because before the
first connection there is no stream (and is what leaves a stream the tracker does not
know later, section 3).  `app_loop` enters these proofs through one lemma, `AppStep`: every
pass pumps the speaker or leaves it alone, and switches all copies of the
microphone together.  `LateDeltas` follows from `SilencedByInterrupt`.

**`RecordReader_proofs`**, from `ReaderAssumption` (lengths are numbers, a header has a
byte, a body holds at least its seal):

| theorem | property |
|---|---|
| `ReaderTyping` | `TypeOK` |
| `InBounds` | `SlicesInBounds` |
| `ReaderInStep` | `NeverMisaligned` |
| `ReaderImplements` | `ImplementsStream` |

Two inductive invariants.  `Bounds` is types, one conjunct per group of variables,
with the places of body and plaintext in the buffer; it does not need what the
bytes are.  `Sync`, on bounded states, says what they are: `Layout` (record n lies
in the stream where its entry says, one behind the other), `InRecord` (header
bytes and the part of the body in the buffer are the first bytes of record
`counter`, and `taken` is that far into it) and `InStream` (what was returned and
the plaintext not yet returned are the application data of the records before
`counter`).  Neither property is inductive alone: that a whole body decrypts needs
every byte of it traced to the stream through drops and moves.

**`RecordWriter_proofs`**, from `WriterAssumption` (the overhead kept free covers the
seal, and the buffer is longer than overhead and header together):

| theorem | property |
|---|---|
| `WriterTyping` | `TypeOK` |
| `WriterOneTenant` | `OneTenant` |
| `WriterInStep` | `ServerInStep` |
| `WriterSplits` | `OnlyLongFramesSplit` |
| `WriterAccounts` | `Accounted` |
| `WriterImplements` | `ImplementsStream` |

One inductive invariant, `WriterInv`: beside types, `Tenant` (an open record and
unsent ciphertext exclude each other), `InFrame` (the open record holds bytes of
the current frame only, which bounds it), `InStep` (the server expects the next
unsent byte, or the next number when nothing is unsent) and `InOrder` (what is in the
buffer continues what the server has).  It is checked with TLC as well as proved.

Both refinement theorems go through element-wise facts (`StreamLemmas`), since
prefixes of prefixes are beyond the provers in one step.

**`AudioRing_proofs`**, from `RingAssumption` (the ring holds an even number of
bytes, at least four, the watermark lies within it, rates and chunk sizes are positive):

| theorem | property |
|---|---|
| `WindowHolds` | `Window` |
| `TimeKept` | `KeepsTime` |
| `SamplesStayWhole` | `SamplesWhole` |
| `QueueImplemented` | `ImplementsQueue` |

`Window` is inductive on typed states: `head` and `tail` are what was written and read,
modulo the capacity, so an index that wraps names the byte it should.  `KeepsTime` is an
equation about the phase of the resampler that each output sample restores.
`SamplesWhole` and the refinement need that the reader stands between two samples
(`Even`), that the writer does, too, until a write is split (`HeadEven`), and that the chain
holds the samples from the first not yet played to the last one taken, in order and
without a gap (`ChainInv`).  None of it needs the ring not to fill: what a split changes is
which bytes of the stream a pair holds, not the order of the pairs.

**`Panel_proofs`**, from `SubtitlesAssumption` and `PanelAssumption` (sizes are positive, the
kinds of characters are disjoint, the texts consist of them):

| theorem | property |
|---|---|
| `ScreenKept` | `ScreenTrue` |
| `TranscriptHolds` | `TranscriptKept` |

`PanelInv` says for every cell that it shows what the snapshot of its row says, or that a
write has failed and the cell holds noise or the colour test; before the takeover, that
the rows cleared so far are empty and nothing is on record (`BeforeTaken`).  The fast path
rests on `ExtendKeeps`: where the new text extends the old one, every column that is not
pushed has the same picture in both.

`TranscriptKept` is not inductive: that the full text adds only what the deltas lack needs
that the deltas queued are what this reply has added to what was said.  `Telling` says so
(`d.stream => given = base \o Ink(d.queued)`), beside `Keeps`, the transcript as the end of
what was said with nothing missing while the history has room.  It was checked as an
invariant of the `screen` instance first.  The proof goes through the algebra of ink: that
of two texts one behind the other is that of the first and then that of the second
(`InkConcat`, `HistoryConcat`), wrapping keeps it (`LinesOfText`), and what `Push` drops lies
at the front (`PushInk`).

**`Link_proofs`**, from the assumptions of `Link`'s parts (`FaultsAssumption`,
`ClockAssumption`, `HandshakeAssumption`):

| theorem | property |
|---|---|
| `BuffersLent` | `BuffersLentOnce` |
| `ClockShowsTime`, if `~Late` and `MaxFaults + 1 < Wrap` | `ClockRight` |
| `NonceNeverReused` | `NoNonceReuse` |
| `EndsUnderstand` | `Understood` |

`ClockInv` bounds the age of the last calibration by the faults so far (`Recent`), for a
round that fails costs a fault; as long as that is less than the uptime's period, the
wrapping subtraction of `clock_hm` is exact.  Both hypotheses are needed: `late_ntp_reply`
shows what a late reply does, and an uptime that wraps between two calibrations cannot be
told from one that did not (49.7 days against 12 h in the code).

`NonceInv` adds to `SealedOnce` where the client is (`Stage`): which of its keys it seals
with, that the key is derived from the random of this connection and under which label, and
that no record under that key has a number at or above its counter (`Spent`).  Keys of
earlier connections hold an earlier random, so a new handshake cannot meet them.

`EndsUnderstand` holds for any budget of faults, number of frames and choice of client
certificates.  That a record opens when it is read was decided when it was sealed, records and changes of keys
earlier, so the invariant is about everything on its way.  A *place* (`AtHello`,
`AtFlight`, `AtReply`, `AtData`, `AtEnd`) is how far a reader has come: the key and number
it expects and the transcript so far.  `Fits` says that a record is made for a reader at a
place, `After` where it leaves the reader, and `Leads(s, p, q)` that the records `s`, each
made for where the ones before it leave the reader, take it from `p` to `q`.  `AgreeInv` is
then: the records on the way down lead the client from where it reads to where the server
writes (`Downlink`), those on the way up the server from where it reads to where the client
writes (`Uplink`), unless an end has given up, and each end's keys are those of its state
(`ClientSide`, `ServerSide`).  Reading takes the first record off a path (`LeadsFirst`),
sealing adds one at its end (`LeadsOn`), and a path never comes back to an earlier stage
(`LeadsBeyond`), so an end that is past its handshake cannot be sent another.  `AgreeInv` was
checked as an invariant of the `link` instance before it was proved; `NonceInv` supplies the
shapes of the client's record.

**`Codec_proofs`**, for messages, literals, texts and chunks of any length (the runs stop at
a few symbols) and from no assumption on a constant:

| theorem | property |
|---|---|
| `ServerUnderstood` | `PayloadRead` |
| `TextReadBack` | `TextDecoded` |
| `AudioHeard` | `AudioDecoded` |
| `Base64RoundTrip`, `CutWholeOrMissing`, `StringsWhole`, `RequestRead` | what the three rest on, for all data |

The invariants are small (`Saying`: members of the server, no key twice; `Dictated`: a text has
no half characters; `Sampled`: bytes); the work is in what the recursive functions of
`Messages` compute.

*What is scanned.*  `Ends`, `Nests` and `Heads` are the recursions inside `scan_string`,
`scan_nested` and `Entries`.  `Scans(w)` says that `scan_value` takes `w` for one value
wherever a comma or a closing bracket follows; it is proved of whatever is written as a
string (`StringScans`), of numbers, of words and of the value with brackets and quotes inside
(`NestedScans`).  From it `PayloadTold`: the entries of a payload are its members, with and without
blanks.  The order of members makes no difference as no key comes twice (`SameRaw`,
`SameEvent`).

*What is read.*  `Spells(P, chars, ascii)` relates characters to what may be written for them,
by the server or by `append_json_string`; `unescape` of what spells `chars` is `chars`
(`StringRead`), by induction from the end, run by run, because a run without escapes goes through
`append_utf8_lossy` as one.  Of input that spells nothing, `StringsWhole` says that what comes out has no
half characters and that the loop ends: the string ends at a quote that no backslash
protects (`Ends`), so its last symbol is never a lone backslash.  This holds for every payload and every
key.

*What is cut off.*  The entries of a payload's beginning are those of the payload, except
that the last may be shorter if it is no string (`EntriesCut`, `Fewer`): a string that ends
within the beginning ends there in the whole, too.  Hence `CutWholeOrMissing`.

*Numbers and samples.*  `Decimal` and `json_u32` undo each other (`DecimalIs`, `NumberRead`).
A quad of base64 is four sextets of three bytes by arithmetic on one quad
(`Sextet`, `Means`); `LettersDecoded` carries the accumulator and the count of bits through the
fold, and `LinesDecoded` that line breaks change neither.

**Induction over data.**  The library's induction theorems take an operator as a parameter,
which the provers cannot instantiate.  `StreamLemmas` states induction for a set in the place
of the property (`Induct`, and `Descend` for a measure), that a recursive function whose calls go
down is what its body says (`Recursion`, `Solved`), and what folds and `FlattenSeq` compute
(`FoldExists`, `FoldTrace`, `FlattenPiece`, `FlattenConcat`).  The operator of a recursion
or a fold cannot be a parameter either, so each has a lemma of its own in which the set
is a definition (`EndsIs`, `NestsIs`, `HeadsIs`, `SenseIs`, `WrapFold`, `HearTrace`).

**Model-checked only.**

- Liveness (`Reconnects`, `InterruptTaken`, `KeepsConversing`, `StreamEnds`,
  `Settles`, `CatchesUp`, `ComesBack`): fairness and ENABLED are out of the prover's reach.
- `RecordsWellFormed` and `FlightReadable`: vectors in vectors, written with lengths put in
  later and read with every parser of `TlsMessages`.  Nothing in principle stands against a proof; it would
  need for each message and extension what `Codec_proofs` has for a JSON value, and was
  not attempted.
- The three violated properties, whose counterexamples need concrete instances.

## 5. What is not modelled

- Cryptography and the verification of certificates (`pki.rs`, `webpki.rs`,
  `der_certificate.rs`): the firmware opens its connections with a provider that
  verifies nothing, so no state of it depends on them.
- The blocking twin of the connection (`blocking.rs` and the blocking halves of
  `record_reader.rs`), the split API and `KeyUpdate` handling beyond what `open` and
  `read` do: the firmware calls none of it.
- `embedded-ws` and the network stack, outside the repository.  The models take
  from them that frames arrive whole and in order, that a frame is written in pieces and
  flushed before the next, and that a socket takes or yields at least one byte.
- `close()` of a TLS connection: `WsClient` drops its connections.
- The gain and clipping of `AudioInput`, the level of `peak`; and `parse_u16_hex` reads
  lower-case digits only in the model (`voice_client.rs` 591 takes both cases): what the
  theorems say of every payload, they say of payloads without upper-case digits.
- The ADC average and level table of the battery, glyphs and fonts, colours, pin wiring
  and the boot order in `main()`: arithmetic on one value, data, or hardware.
- `main.rs` 399 and 492, comparisons of wrapping milliseconds with a `now` that is up to
  30 ms old: time is limits that have passed or not, and `age = "ahead"` is the one
  state where the difference matters.

## 6. What could follow

`AudioRing` shown to implement `Speaker` at the grain of a chunk; the two properties of `Codec`
about TLS, starting from a lemma on one vector whose length is put in later; theorems about parts of
`Link` the properties only touch, such as the record counters of the server.
