----------------------------- MODULE VoiceDevice -----------------------------
(***************************************************************************)
(* The conversation loop of the speaker: app_loop (three states, BOOT key, *)
(* microphone, audio pump) and voice_task (session, interrupt, uplink,     *)
(* events of the server), which share WS_UP, MIC_ACTIVE, INT_REQ, MIC_CH,  *)
(* the round tracker and the loudspeaker, and the server at the other end. *)
(*                                                                         *)
(* All tasks run on one executor thread and no mutex guard outlives a      *)
(* suspension, so the code between two suspension points is one action.    *)
(* app_loop suspends only in its Timers: at the end of a pass and in the   *)
(* debounce and release waits of BOOT.  voice_task suspends in sends, in   *)
(* the 50 ms select and while it is disconnected.  A send that waits for   *)
(* the socket is one step with what led to it: what the server does with   *)
(* the data is a later step anyway, and a failing send ends the session.   *)
(***************************************************************************)
EXTENDS RoundTracker, Speaker, Sequences

CONSTANTS
    MicCap,       \* capacity of MIC_CH
    InboxCap,     \* frames received and not yet handled
    MinChunks,    \* audio chunks of one reply: at least ...
    MaxChunks,    \* ... and at most
    MaxDrops,     \* how often the link may fail
    MaxRefusals,  \* how often the microphone may refuse to start
    MaxEmpty,     \* empty reads in a row that restart the microphone
    Presses,      \* the user may press BOOT
    Errors,       \* the server may send error events
    SilentRounds, \* the server may complete a round without audio
    Oversize      \* a frame may exceed the payload buffer

ASSUME DeviceAssumption ==
    /\ MicCap \in Nat \ {0}
    /\ InboxCap \in Nat \ {0}
    /\ MinChunks \in Nat
    /\ MaxChunks \in Nat
    /\ MinChunks <= MaxChunks
    /\ MaxDrops \in Nat
    /\ MaxRefusals \in Nat
    /\ MaxEmpty \in Nat \ {0}
    /\ {Presses, Errors, SilentRounds, Oversize} \subseteq BOOLEAN

VARIABLES
    appState,    \* AppState of app_loop
    appPc,       \* the Timer app_loop is suspended in
    wsSeen,      \* ws_up as read before the debounce of BOOT in Idle
    cooling,     \* Idle: cooldown_until (or boot) is still ahead
    age,         \* Listening: which parts of the 3 min timeout have run out
    quiet,       \* Playing: quiet_since, and whether 400 ms have passed
    empty,       \* empty_streak: reads in a row that gave nothing
    micActive,   \* MIC_ACTIVE
    mic,         \* the AudioInput: its transfer, and who started it
    refusals,    \* history: refused starts so far
    micCh,       \* chunks in MIC_CH
    wsUp,        \* WS_UP
    intReq,      \* INT_REQ holds a request
    tracker,     \* WS_TRACKER
    spk,         \* the AudioOutput
    text,        \* what the subtitles show of the current round
    cut,         \* history: the current round was interrupted by BOOT
    voicePc,     \* where voice_task is
    drops,       \* history: link failures so far
    inbox,       \* server events received or in flight, in order
    srv,         \* the server's side of the session
    intSent      \* an interrupt the server has not handled yet

appVars  == <<appState, appPc, wsSeen, cooling, age, quiet, empty>>
inVars   == <<mic, refusals>>
micVars  == <<micActive, inVars>>
linkVars == <<drops, inbox, srv, intSent>>
vars == <<appVars, micVars, micCh, wsUp, intReq, tracker, spk, text, cut,
          voicePc, linkVars>>

AppStates == {"Idle", "Listening", "Playing"}
AppPcs    == {"pass", "idle30", "listen30", "play30", "release"}
\* "listen": listen_started is old; "both": the last VAD event is too;
\* "ahead": a VAD event newer than the `now` of the suspended pass, whose
\* wrapping_sub then makes it look ancient.
Ages      == {"fresh", "listen", "both", "ahead"}
\* transfer.is_some() as "on", or as "resumed" when a handler of error events
\* has started it; "refused": no transfer, because the start failed.
MicStates == {"off", "on", "resumed", "refused"}
VoicePcs  == {"down", "interrupt", "uplink", "receive"}

ErrorKinds == {"assistant.error", "error"}
EventKinds ==
    {"vad.speaking", "asr.result", "assistant.delta", "audio.start",
     "audio.chunk", "audio.done", "assistant.completed", "interrupt.ack"}
    \union IF Errors THEN ErrorKinds ELSE {}

\* The events whose payload is base64 audio or a whole reply: the ones that
\* can exceed WS_PAYLOAD_CAP.
Bulky == {"audio.chunk", "assistant.completed"}

Servers ==
    [ open  : BOOLEAN,                  \* a reply is being produced
      audio : {"none", "on", "done"},   \* its audio stream
      sent  : 0 .. MaxChunks,           \* chunks sent of that stream
      heard : BOOLEAN ]                 \* speech not yet recognised

SrvIdle == [open |-> FALSE, audio |-> "none", sent |-> 0, heard |-> FALSE]

\* The two tasks, the statics they share, the server and the link stay in the
\* ranges above: no queue, ring or chunk count runs over its bound.
TypeOK ==
    /\ appState \in AppStates
    /\ appPc \in AppPcs
    /\ wsSeen \in BOOLEAN
    /\ cooling \in BOOLEAN
    /\ age \in Ages
    /\ quiet \in {"none", "counting", "elapsed"}
    /\ empty \in 0 .. MaxEmpty - 1
    /\ micActive \in BOOLEAN
    /\ mic \in MicStates
    /\ refusals \in 0 .. MaxRefusals
    /\ micCh \in 0 .. MicCap
    /\ wsUp \in BOOLEAN
    /\ intReq \in BOOLEAN
    /\ tracker \in Trackers
    /\ spk \in Speakers
    /\ text \in {"user", "partial", "full"}
    /\ cut \in BOOLEAN
    /\ voicePc \in VoicePcs
    /\ drops \in 0 .. MaxDrops
    /\ inbox \in Seq(EventKinds)
    /\ srv \in Servers
    /\ intSent \in BOOLEAN

Init ==
    /\ appState = "Idle"
    /\ appPc = "pass"
    /\ wsSeen = FALSE
    /\ cooling = TRUE            \* now <= 5000
    /\ age = "fresh"
    /\ quiet = "none"
    /\ empty = 0
    /\ micActive = FALSE
    /\ mic = "off"
    /\ refusals = 0
    /\ micCh = 0
    /\ wsUp = FALSE
    /\ intReq = FALSE
    /\ tracker = New
    /\ spk = Silent
    /\ text = "user"
    /\ cut = FALSE
    /\ voicePc = "down"
    /\ drops = 0
    /\ inbox = <<>>
    /\ srv = SrvIdle
    /\ intSent = FALSE

-----------------------------------------------------------------------------
(* app_loop.  cooling, age and quiet are meaningful in one state each and *)
(* are put back to their first value when that state is left: the code     *)
(* assigns the variable behind each of them again before it reads it.      *)

MicRuns == mic \in {"on", "resumed"}

\* AudioInput::start(): at once when the transfer runs, else the DMA may
\* refuse it, which start() reports and no caller looks at.
StartMic(by) ==
    \/ mic' = by /\ UNCHANGED refusals
    \/ /\ ~MicRuns /\ refusals < MaxRefusals
       /\ mic' = "refused" /\ refusals' = refusals + 1

\* tracker_mic_start(), MIC_ACTIVE and audio_in.start()
MicOn ==
    /\ micActive' = TRUE
    /\ StartMic("on")
    /\ tracker' = MicStart(tracker)

\* tracker_mic_pause(), MIC_ACTIVE and audio_in.stop()
MicOff ==
    /\ micActive' = FALSE
    /\ mic' = "off"
    /\ tracker' = MicPause(tracker)

EnterListening ==
    /\ MicOn
    /\ appState' = "Listening"
    /\ cooling' = FALSE
    /\ age' = "fresh"
    /\ quiet' = "none"

\* Variant: the microphone is not paused for the reply.
EnterPlayingMicOn ==
    /\ UNCHANGED <<micActive, mic, tracker>>
    /\ appState' = "Playing"
    /\ quiet' = "none"

EnterPlaying ==
    /\ MicOff
    /\ appState' = "Playing"
    /\ quiet' = "none"

EnterIdle ==
    /\ MicOff
    /\ appState' = "Idle"
    /\ cooling' = TRUE
    /\ age' = "fresh"
    /\ quiet' = "none"

StayInState == UNCHANGED <<micVars, tracker, appState, cooling, age, quiet>>

\* What app_loop never writes.
AppFrame == UNCHANGED <<wsUp, text, cut, voicePc, linkVars>>
\* What it writes only when it reads the microphone.
NoReading == UNCHANGED <<micCh, empty>>

\* The Idle arm.  pressed is the edge of BOOT this pass sees.
PassIdle(pressed) ==
    LET auto == wsUp /\ ~cooling
    IN  /\ appPc = "pass" /\ appState = "Idle"
        /\ spk' = Tick(spk)
        /\ IF auto THEN EnterListening ELSE StayInState
        /\ appPc' = IF ~auto /\ pressed THEN "idle30" ELSE "pass"
        /\ wsSeen' = (~auto /\ pressed /\ wsUp)
        /\ NoReading /\ UNCHANGED intReq
        /\ AppFrame

\* The key is read again 30 ms later; WS_UP is not.
DebounceIdle(low) ==
    /\ appPc = "idle30"
    /\ IF low /\ wsSeen THEN EnterListening ELSE StayInState
    /\ appPc' = "pass"
    /\ wsSeen' = FALSE
    /\ NoReading /\ UNCHANGED <<intReq, spk>>
    /\ AppFrame

TimedOut == age \in {"both", "ahead"}

\* Variant: MIC_CH without a capacity.
CaptureUncapped == micCh' = micCh + 1

\* A captured chunk goes to MIC_CH, or is lost when that is full.
Capture == micCh' = AtMost(micCh + 1, MicCap)

\* Variant: an empty streak restarts nothing.
RestartMicNot(m) == m = mic /\ UNCHANGED refusals

\* stop() and start() of the capture; m is what comes of it.
RestartMic(m) ==
    \/ m = "on" /\ UNCHANGED refusals
    \/ m = "refused" /\ refusals < MaxRefusals /\ refusals' = refusals + 1

\* The microphone is read in every 16th pass, its turn, while MIC_ACTIVE.
\* Too many empty reads in a row restart it.
ReadMic(turn, m) ==
    \/ /\ ~turn \/ ~micActive
       /\ m = mic /\ NoReading /\ UNCHANGED refusals
    \/ /\ turn /\ micActive /\ MicRuns
       /\ m = mic /\ Capture /\ empty' = 0 /\ UNCHANGED refusals
    \/ /\ turn /\ micActive /\ empty + 1 < MaxEmpty
       /\ m = mic /\ empty' = empty + 1 /\ UNCHANGED <<micCh, refusals>>
    \/ /\ turn /\ micActive /\ empty + 1 = MaxEmpty
       /\ RestartMic(m) /\ empty' = 0 /\ UNCHANGED micCh

StayListening(m) ==
    /\ mic' = m
    /\ UNCHANGED <<micActive, tracker, appState, cooling, age, quiet>>

\* The Listening arm.  Audio in the ring means the reply has begun; the
\* timeout is decided in the same pass, after that and after the key.
PassListening(pressed, turn) ==
    LET replied == Tick(spk).buffered > 0
    IN  /\ appPc = "pass" /\ appState = "Listening"
        /\ spk' = Tick(spk)
        /\ \E m \in MicStates :
              /\ ReadMic(turn, m)
              /\ \/ pressed /\ replied /\ EnterPlaying /\ UNCHANGED <<cooling, age>>
                 \/ pressed /\ ~replied /\ StayListening(m)
                 \/ ~pressed /\ TimedOut /\ EnterIdle
                 \/ /\ ~pressed /\ ~TimedOut /\ replied
                    /\ EnterPlaying /\ UNCHANGED <<cooling, age>>
                 \/ ~pressed /\ ~TimedOut /\ ~replied /\ StayListening(m)
        /\ appPc' = IF pressed THEN "listen30" ELSE "pass"
        /\ UNCHANGED <<intReq, wsSeen>>
        /\ AppFrame

\* Still low: the user leaves the conversation, even if this pass has just
\* entered Playing.
DebounceListening(low) ==
    /\ appPc = "listen30"
    /\ IF low \/ TimedOut THEN EnterIdle /\ UNCHANGED refusals ELSE StayInState
    /\ appPc' = "pass"
    /\ NoReading /\ UNCHANGED <<intReq, spk, wsSeen>>
    /\ AppFrame

\* The end of the Playing arm: 400 ms without audio resume listening.
QuietCheck(s) ==
    IF IsActive(s)
    THEN /\ quiet' = "none"
         /\ UNCHANGED <<micVars, tracker, appState, cooling, age>>
    ELSE \/ /\ quiet = "none" /\ quiet' = "counting"
            /\ UNCHANGED <<micVars, tracker, appState, cooling, age>>
         \/ quiet = "counting" /\ StayInState
         \/ quiet = "elapsed" /\ EnterListening

PassPlaying(pressed) ==
    /\ appPc = "pass" /\ appState = "Playing"
    /\ spk' = Tick(spk)
    /\ IF pressed THEN StayInState ELSE QuietCheck(spk')
    /\ appPc' = IF pressed THEN "play30" ELSE "pass"
    /\ NoReading /\ UNCHANGED <<intReq, wsSeen>>
    /\ AppFrame

DebouncePlaying(low) ==
    /\ appPc = "play30"
    /\ IF low THEN StayInState ELSE QuietCheck(spk)
    /\ intReq' = (intReq \/ low)
    /\ appPc' = IF low THEN "release" ELSE "pass"
    /\ NoReading /\ UNCHANGED <<spk, wsSeen>>
    /\ AppFrame

\* BOOT is up again: listen.  The quiet check that ends the pass can only
\* enter Listening once more.
Released ==
    /\ appPc = "release"
    /\ EnterListening
    /\ appPc' = "pass"
    /\ NoReading /\ UNCHANGED <<intReq, spk, wsSeen>>
    /\ AppFrame

Pass(pressed, turn) ==
    PassIdle(pressed) \/ PassListening(pressed, turn) \/ PassPlaying(pressed)
Debounced(low) ==
    DebounceIdle(low) \/ DebounceListening(low) \/ DebouncePlaying(low)

App ==
    \/ \E pressed \in {FALSE, Presses}, turn \in BOOLEAN : Pass(pressed, turn)
    \/ \E low \in BOOLEAN : Debounced(low)
    \/ Released

-----------------------------------------------------------------------------
(* voice_task *)

\* What voice_task never writes.
VoiceFrame == UNCHANGED appVars

NewSession ==
    /\ inbox' = <<>>
    /\ srv' = SrvIdle
    /\ intSent' = FALSE

\* 'session ends: WS_UP and MIC_ACTIVE go down, the connection is dropped.
EndSession ==
    /\ drops < MaxDrops
    /\ drops' = drops + 1
    /\ wsUp' = FALSE
    /\ micActive' = FALSE
    /\ voicePc' = "down"
    /\ NewSession

\* Variant: WS_UP is not raised again.
VoiceStartStaysOffline ==
    /\ voicePc = "down"
    /\ tracker' = Reset(tracker)
    /\ cut' = FALSE
    /\ wsUp' = FALSE /\ voicePc' = "interrupt" /\ UNCHANGED drops
    /\ NewSession
    /\ UNCHANGED <<micVars, micCh, intReq, spk, text>>
    /\ VoiceFrame

\* (Re)connected: reset the round, send session.start.
VoiceStart ==
    /\ voicePc = "down"
    /\ tracker' = Reset(tracker)
    /\ cut' = FALSE
    /\ \/ wsUp' = TRUE /\ voicePc' = "interrupt" /\ UNCHANGED drops
       \/ /\ drops < MaxDrops /\ drops' = drops + 1
          /\ wsUp' = FALSE /\ UNCHANGED voicePc
    /\ NewSession
    /\ UNCHANGED <<micVars, micCh, intReq, spk, text>>
    /\ VoiceFrame

\* Variant: the request is looked at and not taken.
VoiceInterruptPeeks ==
    /\ voicePc = "interrupt"
    /\ IF intReq
       THEN /\ tracker' = FinalizePartial(tracker)
            /\ spk' = StopPlayback(spk)
            /\ cut' = TRUE
       ELSE UNCHANGED <<tracker, spk, cut>>
    /\ voicePc' = "uplink"
    /\ intSent' = (intSent \/ intReq)
    /\ UNCHANGED <<intReq, drops, inbox, srv, wsUp, micVars, micCh, text>>
    /\ VoiceFrame

\* 1. INT_REQ: freeze the round, stop the speaker, tell the server.
VoiceInterrupt ==
    /\ voicePc = "interrupt"
    /\ intReq' = FALSE
    /\ IF intReq
       THEN /\ tracker' = FinalizePartial(tracker)
            /\ spk' = StopPlayback(spk)
            /\ cut' = TRUE
       ELSE UNCHANGED <<tracker, spk, cut>>
    /\ \/ /\ voicePc' = "uplink"
          /\ intSent' = (intSent \/ intReq)
          /\ UNCHANGED <<drops, inbox, srv, wsUp, micActive>>
       \/ intReq /\ EndSession
    /\ UNCHANGED <<inVars, micCh, text>>
    /\ VoiceFrame

\* 2. Send what MIC_CH holds, one chunk at a time, while the uplink is on.
VoiceUplink ==
    /\ voicePc = "uplink" /\ micActive /\ micCh > 0
    /\ micCh' = micCh - 1
    /\ \/ /\ srv' = [srv EXCEPT !.heard = TRUE]
          /\ UNCHANGED <<drops, inbox, intSent, wsUp, micActive, voicePc>>
       \/ EndSession
    /\ UNCHANGED <<inVars, intReq, tracker, spk, text, cut>>
    /\ VoiceFrame

VoiceDrained ==
    /\ voicePc = "uplink" /\ ~(micActive /\ micCh > 0)
    /\ voicePc' = "receive"
    /\ UNCHANGED <<micVars, micCh, wsUp, intReq, tracker, spk, text, cut, linkVars>>
    /\ VoiceFrame

\* 3. handle_server_event, one operator per arm that changes state.
HandleVad ==              \* LAST_VAD_MS, with the `now` this round began at
    /\ \/ UNCHANGED age                 \* fresh, or a stamp that old
       \/ age \in {"listen", "both"} /\ age' = "listen"
       \/ age # "fresh" /\ appPc = "listen30" /\ age' = "ahead"
    /\ UNCHANGED <<appState, appPc, wsSeen, cooling, quiet, empty,
                   micVars, tracker, spk, text, cut>>

\* Variant: MIC_ACTIVE goes down, the capture runs on.
HandleAsrResultKeepsCapture ==
    /\ tracker' = OnAsrResult(tracker)
    /\ spk' = IF AsrStopsPlayback(tracker) THEN StopPlayback(spk) ELSE spk
    /\ micActive' = FALSE
    /\ text' = "user"
    /\ cut' = FALSE
    /\ UNCHANGED inVars
    /\ VoiceFrame

HandleAsrResult ==
    /\ tracker' = OnAsrResult(tracker)
    /\ spk' = IF AsrStopsPlayback(tracker) THEN StopPlayback(spk) ELSE spk
    /\ IF AsrPausesMic(tracker)
       THEN micActive' = FALSE /\ mic' = "off"
       ELSE UNCHANGED <<micActive, mic>>
    /\ UNCHANGED refusals
    /\ text' = "user"
    /\ cut' = FALSE
    /\ VoiceFrame

HandleDelta ==
    /\ tracker' = OnAssistantDelta(tracker)
    /\ text' = IF AcceptsDelta(tracker) THEN "partial" ELSE text
    /\ UNCHANGED <<micVars, spk, cut>>
    /\ VoiceFrame

HandleAudioStart ==
    /\ tracker' = OnVoiceAudioStart(tracker)
    /\ spk' = IF AcceptsAudioStart(tracker) THEN BeginStream(spk) ELSE spk
    /\ UNCHANGED <<micVars, text, cut>>
    /\ VoiceFrame

HandleAudioChunk ==
    /\ tracker' = OnAudioChunk(tracker)
    /\ spk' = IF AcceptsChunk(tracker) THEN Feed(spk) ELSE spk
    /\ UNCHANGED <<micVars, text, cut>>
    /\ VoiceFrame

HandleAudioDone ==
    /\ tracker' = OnAudioDone(tracker)
    /\ spk' = IF EndsStream(tracker) THEN FinishStream(spk) ELSE spk
    /\ UNCHANGED <<micVars, text, cut>>
    /\ VoiceFrame

\* set_reply_full_text is called whatever on_completed returns; the
\* fallback synthesis is a stub.
HandleCompleted ==
    /\ tracker' = OnCompleted(tracker)
    /\ text' = "full"
    /\ UNCHANGED <<micVars, spk, cut>>
    /\ VoiceFrame

\* Variant: the microphone is started and the tracker not told.
ResumeMicUntold(t) ==
    /\ tracker' = t
    /\ IF ResumesMic(t)
       THEN micActive' = TRUE /\ StartMic("resumed")
       ELSE UNCHANGED micVars

\* error and assistant.error: record again what asr.result has paused.
ResumeMic(t) ==
    /\ tracker' = ResumeMicOnError(t)
    /\ IF ResumesMic(t)
       THEN micActive' = TRUE /\ StartMic("resumed")
       ELSE UNCHANGED micVars

HandleAssistantError ==
    /\ ResumeMic(FinalizePartial(tracker))
    /\ UNCHANGED <<spk, text, cut>>
    /\ VoiceFrame

HandleError ==
    /\ ResumeMic(tracker)
    /\ UNCHANGED <<spk, text, cut>>
    /\ VoiceFrame

HandleInterruptAck ==
    /\ tracker' = FinalizePartial(tracker)
    /\ UNCHANGED <<micVars, spk, text, cut>>
    /\ VoiceFrame

Handle(kind) ==
    \/ kind = "vad.speaking" /\ HandleVad
    \/ kind = "asr.result" /\ HandleAsrResult
    \/ kind = "assistant.delta" /\ HandleDelta
    \/ kind = "audio.start" /\ HandleAudioStart
    \/ kind = "audio.chunk" /\ HandleAudioChunk
    \/ kind = "audio.done" /\ HandleAudioDone
    \/ kind = "assistant.completed" /\ HandleCompleted
    \/ kind = "assistant.error" /\ HandleAssistantError
    \/ kind = "error" /\ HandleError
    \/ kind = "interrupt.ack" /\ HandleInterruptAck

\* The select yields a frame ...
VoiceReceive ==
    /\ voicePc = "receive" /\ inbox # <<>>
    /\ inbox' = Tail(inbox)
    /\ voicePc' = "interrupt"
    /\ Handle(Head(inbox))
    /\ UNCHANGED <<micCh, wsUp, intReq, drops, srv, intSent>>

\* ... whose client_stats report cannot be sent ...
VoiceStatFails ==
    /\ voicePc = "receive" /\ inbox # <<>> /\ Head(inbox) = "audio.chunk"
    /\ ReportsStat(tracker)
    /\ tracker' = OnAudioChunk(tracker)
    /\ spk' = Feed(spk)
    /\ EndSession
    /\ UNCHANGED <<inVars, micCh, intReq, text, cut>>
    /\ VoiceFrame

\* ... or a frame that exceeds the payload buffer and is skipped, or nothing
\* within 50 ms ...
VoiceNothing ==
    /\ voicePc = "receive"
    /\ \/ inbox = <<>> /\ UNCHANGED inbox
       \/ /\ Oversize /\ inbox # <<>> /\ Head(inbox) \in Bulky
          /\ inbox' = Tail(inbox)
    /\ voicePc' = "interrupt"
    /\ UNCHANGED <<micVars, micCh, wsUp, intReq, tracker, spk, text, cut,
                   drops, srv, intSent>>
    /\ VoiceFrame

\* ... or an error.
VoiceLost ==
    /\ voicePc = "receive"
    /\ EndSession
    /\ UNCHANGED <<inVars, micCh, intReq, tracker, spk, text, cut>>
    /\ VoiceFrame

Voice ==
    \/ VoiceStart \/ VoiceInterrupt \/ VoiceUplink \/ VoiceDrained
    \/ VoiceReceive \/ VoiceStatFails \/ VoiceNothing \/ VoiceLost

-----------------------------------------------------------------------------
(* The server, as the protocol notes of voice_client.rs describe it:       *)
(* asr.result, then deltas alongside audio.start, chunks, audio.done, then *)
(* assistant.completed.  It hears what the uplink sends.                   *)

Send(kind) ==
    /\ voicePc # "down"
    /\ Len(inbox) < InboxCap
    /\ inbox' = Append(inbox, kind)

DeviceFrame ==
    UNCHANGED <<appVars, micVars, micCh, wsUp, intReq, tracker, spk, text,
                cut, voicePc, drops>>

SrvVad ==
    /\ srv.heard
    /\ Send("vad.speaking")
    /\ UNCHANGED <<srv, intSent>>
    /\ DeviceFrame

\* A new utterance voids the reply in progress.
SrvAsrResult ==
    /\ srv.heard
    /\ Send("asr.result")
    /\ srv' = [SrvIdle EXCEPT !.open = TRUE]
    /\ UNCHANGED intSent
    /\ DeviceFrame

SrvDelta ==
    /\ srv.open
    /\ Send("assistant.delta")
    /\ UNCHANGED <<srv, intSent>>
    /\ DeviceFrame

SrvAudioStart ==
    /\ srv.open /\ srv.audio = "none"
    /\ Send("audio.start")
    /\ srv' = [srv EXCEPT !.audio = "on"]
    /\ UNCHANGED intSent
    /\ DeviceFrame

SrvAudioChunk ==
    /\ srv.open /\ srv.audio = "on" /\ srv.sent < MaxChunks
    /\ Send("audio.chunk")
    /\ srv' = [srv EXCEPT !.sent = @ + 1]
    /\ UNCHANGED intSent
    /\ DeviceFrame

SrvAudioDone ==
    /\ srv.open /\ srv.audio = "on" /\ srv.sent >= MinChunks
    /\ Send("audio.done")
    /\ srv' = [srv EXCEPT !.audio = "done", !.sent = 0]
    /\ UNCHANGED intSent
    /\ DeviceFrame

CloseRound == srv' = [SrvIdle EXCEPT !.heard = srv.heard]

SrvCompleted ==
    /\ srv.open
    /\ srv.audio = "done" \/ (SilentRounds /\ srv.audio = "none")
    /\ Send("assistant.completed")
    /\ CloseRound
    /\ UNCHANGED intSent
    /\ DeviceFrame

\* The reply fails; its audio stream is not closed.
SrvAssistantError ==
    /\ Errors /\ srv.open
    /\ Send("assistant.error")
    /\ CloseRound
    /\ UNCHANGED intSent
    /\ DeviceFrame

SrvError ==
    /\ Errors
    /\ Send("error")
    /\ UNCHANGED <<srv, intSent>>
    /\ DeviceFrame

SrvInterrupt ==
    /\ intSent
    /\ Send("interrupt.ack")
    /\ CloseRound
    /\ intSent' = FALSE
    /\ DeviceFrame

\* What the server must get done: answer, and obey the interrupt.
SrvReply ==
    \/ SrvAudioStart \/ SrvAudioChunk \/ SrvAudioDone \/ SrvCompleted
    \/ SrvInterrupt

Server ==
    \/ SrvVad \/ SrvAsrResult \/ SrvDelta \/ SrvReply
    \/ SrvAssistantError \/ SrvError

-----------------------------------------------------------------------------
(* Time and the DMA *)

\* cooldown_until (or the first 5 s) has passed.
CooldownEnds ==
    /\ cooling /\ appState = "Idle"
    /\ cooling' = FALSE
    /\ UNCHANGED <<appState, appPc, wsSeen, age, quiet, empty, micVars, micCh,
                   wsUp, intReq, tracker, spk, text, cut, voicePc, linkVars>>

\* LISTEN_TIMEOUT_MS since listen_started, then also since the last VAD.
ListenAges ==
    /\ appState = "Listening"
    /\ \/ age = "fresh" /\ age' = "listen"
       \/ age = "listen" /\ age' = "both"
    /\ UNCHANGED <<appState, appPc, wsSeen, cooling, quiet, empty, micVars, micCh,
                   wsUp, intReq, tracker, spk, text, cut, voicePc, linkVars>>

\* RESUME_LISTEN_SILENCE_MS since quiet_since.
QuietElapses ==
    /\ quiet = "counting"
    /\ quiet' = "elapsed"
    /\ UNCHANGED <<appState, appPc, wsSeen, cooling, age, empty, micVars, micCh,
                   wsUp, intReq, tracker, spk, text, cut, voicePc, linkVars>>

DmaPlays ==
    /\ DmaBusy(spk)
    /\ spk' = DmaPlay(spk)
    /\ UNCHANGED <<appVars, micVars, micCh, wsUp, intReq, tracker, text, cut,
                   voicePc, linkVars>>

Next ==
    \/ App \/ Voice \/ Server
    \/ CooldownEnds \/ ListenAges \/ QuietElapses \/ DmaPlays

Spec == Init /\ [][Next]_vars

(***************************************************************************)
(* The executor polls every ready task and every Timer fires: app_loop     *)
(* makes its passes (without counting on the user to press anything),      *)
(* voice_task makes its rounds, the DMA plays.  The user lets go of a key. *)
(***************************************************************************)
DeviceFairness ==
    /\ WF_vars(Pass(FALSE, TRUE))
    /\ WF_vars(\E low \in BOOLEAN : Debounced(low))
    /\ WF_vars(Released)
    /\ WF_vars(Voice)
    /\ WF_vars(CooldownEnds)
    /\ WF_vars(QuietElapses)
    /\ WF_vars(DmaPlays)

\* An assumption about the network, not about the code: the uplink sends a
\* chunk faster than the microphone fills one (32 ms), so that the drain
\* loop, whenever it finds MIC_CH empty, also ends.
FastUplink == SF_vars(VoiceDrained)

\* The server answers what it has begun to answer, whatever else it has to
\* say in between (strong fairness: its other events compete for the same
\* connection).  Nobody must speak, press, fail or send errors.
ServerFairness == SF_vars(SrvReply)

\* What voice_task gets done by itself, whatever app_loop, the server and the
\* user do.
VoiceSpec == Spec /\ WF_vars(Voice) /\ FastUplink
FairSpec == Spec /\ DeviceFairness /\ FastUplink /\ ServerFairness

-----------------------------------------------------------------------------
(* Safety *)

\* The three copies of "the microphone is on" agree as far as the code can
\* make them: MIC_ACTIVE, which a lost session clears on its own, is never on
\* without the tracker, a transfer never runs behind the tracker's back, and
\* the tracker is on without a transfer only because the last start was
\* refused.  A disagreement of any other kind would make asr.result and the
\* error handlers, which ask the tracker alone, skip the pause or the resume.
MicCopiesAgree ==
    /\ micActive => tracker.mic_active
    /\ tracker.mic_active <=> mic # "off"

\* From the moment voice_task takes an interrupt until the next round (or
\* session) begins, the speaker is stopped and stays stopped, whatever late
\* events of the interrupted reply still arrive.
InterruptSilences ==
    cut => /\ tracker.round_finalized
           /\ ~IsActive(spk)
           /\ ~spk.xfer

\* As long as the link has not failed, tracker and speaker agree about the
\* stream: the speaker has one that the server has not closed exactly when
\* the tracker would let an audio.done close it and an asr.result stop it,
\* unless the user has interrupted the round.  So neither event is lost on an
\* open stream or closes one that is none of its own.  That such an event
\* still comes is not said: see Abandoned.
TrackerKnowsStream ==
    drops = 0 =>
        (spk.streaming /\ ~spk.done_flag <=> tracker.voice_audio_on /\ ~cut)

\* A DMA transfer only ever plays a stream, and audio in the ring always
\* belongs to one: nothing keeps the I2S busy after a stop, and is_active
\* cannot be held up by samples that tick() will not drain.
RingBelongsToStream ==
    /\ spk.xfer => spk.streaming /\ spk.started
    /\ spk.buffered > 0 => spk.streaming

\* The capture that app_loop starts runs in Listening only: not while a reply
\* plays (echo) and not after the user left the conversation, whatever error
\* events, restarts and debounces come in between.  A capture that an error
\* handler resumes may run in any state; entering or leaving Listening
\* makes it app_loop's again.
MicOnlyWhenListening == mic = "on" => appState = "Listening"

\* In Listening, connected, with nothing under way that would change it: the
\* server owes no event and the speaker has nothing to play, yet the
\* microphone is off.  Only the 3 min timeout or BOOT get out of this.
Deaf ==
    /\ appState = "Listening" /\ appPc = "pass"
    /\ wsUp /\ ~micActive
    /\ ~srv.open /\ inbox = <<>>
    /\ ~IsActive(spk)

\* The device never sits in "listening" while deaf.
NeverDeaf == ~Deaf

-----------------------------------------------------------------------------
(* Action properties *)

\* Once the user has interrupted a reply, late deltas of it no longer reach
\* the subtitles (a late full text still does).
LateDeltaDropped == [][cut /\ cut' => text' \in {text, "full"}]_vars

-----------------------------------------------------------------------------
(* Liveness *)

\* Speaker and tracker wait for an audio.done that the server will not send
\* and has not sent: the reply failed in the middle (assistant.error).  The
\* stream stays active, and app_loop in Playing until BOOT.
Abandoned ==
    /\ spk.streaming /\ ~spk.done_flag /\ tracker.voice_audio_on
    /\ srv.audio # "on"
    /\ \A i \in DOMAIN inbox : inbox[i] # "audio.done"

\* The conversation never ends: again and again the device listens with the
\* microphone on and running, whatever rounds, errors and refused starts it
\* goes through.  No reply plays for ever and no round leaves the device
\* listening while deaf; the one way out is an abandoned stream.
KeepsConversing ==
    []<>(appState = "Listening" /\ micActive /\ MicRuns) \/ <>[]Abandoned

\* An interrupt the user asked for is carried out.
InterruptTaken == intReq ~> ~intReq

\* A lost session is rebuilt.
Reconnects == voicePc = "down" ~> wsUp
=============================================================================
