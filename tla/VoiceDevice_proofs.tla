------------------------- MODULE VoiceDevice_proofs -------------------------
(***************************************************************************)
(* Proofs about VoiceDevice, for every value of its constants: type        *)
(* correctness and the safety invariants that the runs check on small      *)
(* instances.                                                              *)
(***************************************************************************)
EXTENDS VoiceDevice, TLAPS

USE SpeakerAssumption, DeviceAssumption

-----------------------------------------------------------------------------
(* The operators on trackers and speakers stay within their types. *)

\* Every method of RoundTracker yields a tracker again.
LEMMA TrackerTypes ==
    ASSUME NEW t \in Trackers
    PROVE  /\ New \in Trackers
           /\ Reset(t) \in Trackers
           /\ MicStart(t) \in Trackers
           /\ MicPause(t) \in Trackers
           /\ OnAsrResult(t) \in Trackers
           /\ OnAssistantDelta(t) \in Trackers
           /\ OnVoiceAudioStart(t) \in Trackers
           /\ OnAudioChunk(t) \in Trackers
           /\ OnAudioDone(t) \in Trackers
           /\ OnCompleted(t) \in Trackers
           /\ FinalizePartial(t) \in Trackers
           /\ ResumeMicOnError(t) \in Trackers
BY ZenonT(60) DEF Trackers, New, Reset, MicStart, MicPause, OnAsrResult, OnAssistantDelta,
       OnVoiceAudioStart, ReportsStat, OnAudioChunk, OnAudioDone, OnCompleted,
       FinalizePartial, ResumeMicOnError

\* Starting the DMA keeps the counters of the speaker within bounds and
\* touches neither the stream nor its done flag.
LEMMA StartFacts ==
    ASSUME NEW s \in Speakers
    PROVE  /\ Start(s) \in Speakers
           /\ Start(s).streaming = s.streaming
           /\ Start(s).done_flag = s.done_flag
           /\ Start(s).buffered <= s.buffered
           /\ Start(s).xfer => s.xfer \/ (s.streaming /\ Start(s).started)
           /\ s.started => Start(s).started
           /\ ~s.streaming => Start(s) = s
<1> DEFINE n == s.buffered - AtMost(s.buffered, DmaCap)
           r == [s EXCEPT !.started = TRUE, !.xfer = TRUE, !.dma = DmaCap,
                          !.buffered = n]
<1>1. n \in 0 .. RingCap /\ n <= s.buffered /\ DmaCap \in 0 .. DmaCap
  BY DEF Speakers, AtMost
<1>2. Start(s) = s \/ (s.streaming /\ Start(s) = r)
  BY DEF Start
<1>3. CASE Start(s) = s
  BY <1>3 DEF Speakers
<1>4. CASE s.streaming /\ Start(s) = r
  <2> HIDE DEF n
  <2>1. r \in Speakers
    BY <1>1 DEF Speakers
  <2>2. r.streaming = s.streaming /\ r.done_flag = s.done_flag
        /\ r.buffered = n /\ r.started
    BY DEF Speakers
  <2> QED
    BY <1>1, <1>4, <2>1, <2>2
<1> QED
  BY <1>2, <1>3, <1>4

\* Taking the transfer back leaves the stream as it is.
LEMMA ReclaimFacts ==
    ASSUME NEW s \in Speakers
    PROVE  /\ Reclaim(s) \in Speakers
           /\ Reclaim(s).streaming = s.streaming
           /\ Reclaim(s).done_flag = s.done_flag
           /\ Reclaim(s).started = s.started
           /\ Reclaim(s).buffered = s.buffered
           /\ ~Reclaim(s).xfer
<1>1. Reclaim(s) \in Speakers
  <2>1. 0 \in 0 .. DmaCap
    OBVIOUS
  <2> QED
    BY <2>1 DEF Speakers, Reclaim
<1> QED
  BY <1>1 DEF Speakers, Reclaim

\* One call of the pump: a stream ends here only when the server has closed
\* it and the ring is empty; nothing starts without a stream.
LEMMA TickFacts ==
    ASSUME NEW s \in Speakers,
           s.xfer => s.streaming /\ s.started
    PROVE  /\ Tick(s) \in Speakers
           /\ Tick(s).done_flag = s.done_flag
           /\ Tick(s).streaming => s.streaming
           /\ s.streaming /\ ~Tick(s).streaming => s.done_flag /\ Tick(s).buffered = 0
           /\ Tick(s).buffered <= s.buffered
           /\ Tick(s).xfer => Tick(s).streaming /\ Tick(s).started
           /\ ~s.streaming => Tick(s) = s
<1> DEFINE r == Reclaim(s)
           n == s.buffered - AtMost(s.buffered, DmaCap - s.dma)
           e == [r EXCEPT !.started = FALSE, !.streaming = FALSE]
           f == [s EXCEPT !.dma = DmaCap, !.buffered = n]
<1>0. s.buffered \in 0 .. RingCap /\ s.dma \in 0 .. DmaCap
      /\ n \in 0 .. RingCap /\ n <= s.buffered /\ DmaCap \in 0 .. DmaCap
  BY DEF Speakers, AtMost
<1>r. r \in Speakers /\ r.streaming = s.streaming /\ r.started = s.started
      /\ ~r.xfer /\ r.done_flag = s.done_flag /\ r.buffered = s.buffered
  BY ReclaimFacts
<1>d. /\ \/ ~s.xfer /\ Tick(s) = Start(s)
         \/ s.xfer /\ s.streaming /\ PlayedOut(s) /\ Tick(s) = e
         \/ s.xfer /\ Tick(s) = Start(r)
         \/ s.xfer /\ Tick(s) = f
         \/ s.xfer /\ Tick(s) = s
  <2> HIDE DEF n
  <2> QED
    BY DEF Tick, n
<1> HIDE DEF r, n
<1>1. CASE ~s.xfer /\ Tick(s) = Start(s)
  <2>1. Start(s).buffered \in Nat /\ s.streaming \in BOOLEAN
    BY StartFacts DEF Speakers
  <2> QED
    BY <1>0, <1>1, <2>1, StartFacts
<1>2. CASE s.xfer /\ s.streaming /\ PlayedOut(s) /\ Tick(s) = e
  <2>1. e \in Speakers /\ ~e.streaming /\ ~e.xfer
        /\ e.done_flag = r.done_flag /\ e.buffered = r.buffered
    BY <1>r DEF Speakers
  <2> HIDE DEF e
  <2> QED
    BY <1>0, <1>2, <1>r, <2>1 DEF PlayedOut
<1>3. CASE s.xfer /\ Tick(s) = Start(r)
  BY <1>0, <1>3, <1>r, StartFacts
<1>4. CASE s.xfer /\ Tick(s) = f
  <2>1. f \in Speakers /\ f.streaming = s.streaming /\ f.xfer = s.xfer
        /\ f.started = s.started
        /\ f.done_flag = s.done_flag /\ f.buffered = n
    BY <1>0 DEF Speakers
  <2> HIDE DEF f
  <2> QED
    BY <1>0, <1>4, <2>1
<1>5. CASE s.xfer /\ Tick(s) = s
  BY <1>0, <1>5
<1> QED
  BY <1>d, <1>1, <1>2, <1>3, <1>4, <1>5

\* The pump stays in type whatever state it is called in.
LEMMA TickTypes ==
    ASSUME NEW s \in Speakers
    PROVE  Tick(s) \in Speakers
<1> DEFINE r == Reclaim(s)
           n == s.buffered - AtMost(s.buffered, DmaCap - s.dma)
<1>1. n \in 0 .. RingCap /\ DmaCap \in 0 .. DmaCap
  BY DEF Speakers, AtMost
<1>2. r \in Speakers
  BY ReclaimFacts
<1>3. [r EXCEPT !.started = FALSE, !.streaming = FALSE] \in Speakers
  <2> HIDE DEF r
  <2> QED
    BY <1>2 DEF Speakers
<1>4. [s EXCEPT !.dma = DmaCap, !.buffered = n] \in Speakers
  <2> HIDE DEF n
  <2> QED
    BY <1>1 DEF Speakers
<1>5. Start(s) \in Speakers /\ Start(r) \in Speakers
  BY <1>2, StartFacts
<1> QED
  BY <1>3, <1>4, <1>5 DEF Tick

\* The operations of the speaker keep its types.
LEMMA SpeakerTypes ==
    ASSUME NEW s \in Speakers
    PROVE  /\ Silent \in Speakers
           /\ BeginStream(s) \in Speakers
           /\ FinishStream(s) \in Speakers
           /\ StopPlayback(s) \in Speakers
           /\ Feed(s) \in Speakers
           /\ DmaBusy(s) => DmaPlay(s) \in Speakers
<1>0. 0 \in 0 .. RingCap /\ 0 \in 0 .. DmaCap
  OBVIOUS
<1>1. Silent \in Speakers
  BY <1>0 DEF Speakers, Silent
<1>2. BeginStream(s) \in Speakers
  BY <1>0 DEF Speakers, Silent, BeginStream
<1>3. FinishStream(s) \in Speakers
  BY DEF Speakers, FinishStream
<1>4. StopPlayback(s) \in Speakers
  BY <1>0 DEF Speakers, StopPlayback, Reclaim
<1>5. Feed(s) \in Speakers
  <2>1. AtMost(s.buffered + 1, RingCap) \in 0 .. RingCap
    BY DEF Speakers, AtMost
  <2> QED
    BY <2>1 DEF Speakers, Feed
<1>6. DmaBusy(s) => DmaPlay(s) \in Speakers
  <2> SUFFICES ASSUME DmaBusy(s) PROVE DmaPlay(s) \in Speakers
    OBVIOUS
  <2>1. s.dma - 1 \in 0 .. DmaCap
    BY DEF Speakers, DmaBusy
  <2> QED
    BY <2>1 DEF Speakers, DmaPlay
<1> QED
  BY <1>1, <1>2, <1>3, <1>4, <1>5, <1>6

-----------------------------------------------------------------------------
(* What one step of app_loop can do: pump the speaker or leave it; turn the *)
(* microphone on for Listening, turn it off, or leave it alone.             *)

\* Started or refused, the microphone and the count of refusals keep type.
LEMMA StartMicTypes ==
    ASSUME TypeOK, NEW by \in MicStates
    PROVE  StartMic(by) => mic' \in MicStates /\ refusals' \in 0 .. MaxRefusals
BY DEF TypeOK, StartMic, MicStates

AppVarTypes ==
    /\ appState \in AppStates
    /\ appPc \in AppPcs
    /\ wsSeen \in BOOLEAN
    /\ cooling \in BOOLEAN
    /\ age \in Ages
    /\ quiet \in {"none", "counting", "elapsed"}
    /\ empty \in 0 .. MaxEmpty - 1

\* What a pass may do to the microphone while it listens: read it, which may
\* restart it.
Reading ==
    /\ appState' = "Listening"
    /\ mic' = mic \/ (micActive /\ mic' \in {"on", "refused"})
    /\ UNCHANGED <<micActive, tracker>>

AppEffect ==
    /\ spk' = Tick(spk) \/ spk' = spk
    /\ \/ MicOn /\ appState' = "Listening"
       \/ MicOff
       \/ Reading
       \/ UNCHANGED <<micActive, mic, tracker, appState>>
    /\ AppFrame
    /\ AppVarTypes'
    /\ refusals' \in 0 .. MaxRefusals
    /\ micCh' \in 0 .. MicCap
    /\ intReq' \in BOOLEAN

\* Every action of app_loop stays within AppEffect.
LEMMA AppStep ==
    ASSUME TypeOK, App
    PROVE  AppEffect
<1> USE DEF TypeOK, AppEffect, AppVarTypes, AppStates, AppPcs, Ages, AppFrame,
            NoReading, micVars, inVars
<1>0. /\ MicOn => refusals' \in 0 .. MaxRefusals
      /\ EnterListening => MicOn /\ refusals' \in 0 .. MaxRefusals
  BY DEF MicOn, StartMic, EnterListening
<1>1. \A pressed \in {FALSE, Presses} : PassIdle(pressed) => AppEffect
  BY <1>0 DEF PassIdle, EnterListening, StayInState
<1>2. ASSUME NEW pressed \in {FALSE, Presses}, NEW turn \in BOOLEAN,
             PassListening(pressed, turn)
      PROVE  AppEffect
  <2>1. PICK m \in MicStates :
           /\ ReadMic(turn, m)
           /\ \/ EnterPlaying /\ UNCHANGED <<cooling, age>>
              \/ StayListening(m)
              \/ EnterIdle
    BY <1>2 DEF PassListening
  <2>2. /\ m = mic \/ (micActive /\ m \in {"on", "refused"})
        /\ refusals' \in 0 .. MaxRefusals
        /\ micCh' \in 0 .. MicCap
        /\ empty' \in 0 .. MaxEmpty - 1
    BY <2>1 DEF ReadMic, RestartMic, Capture, AtMost
  <2>3. spk' = Tick(spk) /\ appState = "Listening" /\ AppFrame
        /\ UNCHANGED <<intReq, wsSeen>> /\ appPc' \in AppPcs
    BY <1>2 DEF PassListening
  <2>4. CASE EnterPlaying /\ UNCHANGED <<cooling, age>>
    BY <2>2, <2>3, <2>4 DEF EnterPlaying
  <2>5. CASE StayListening(m)
    BY <2>2, <2>3, <2>5 DEF StayListening, Reading
  <2>6. CASE EnterIdle
    BY <2>2, <2>3, <2>6 DEF EnterIdle
  <2> QED
    BY <2>1, <2>4, <2>5, <2>6
<1>3. \A pressed \in {FALSE, Presses} : PassPlaying(pressed) => AppEffect
  BY <1>0 DEF PassPlaying, QuietCheck, EnterListening, StayInState
<1>4. \A low \in BOOLEAN : DebounceIdle(low) => AppEffect
  BY <1>0 DEF DebounceIdle, EnterListening, StayInState
<1>5. \A low \in BOOLEAN : DebounceListening(low) => AppEffect
  BY DEF DebounceListening, EnterIdle, StayInState
<1>6. \A low \in BOOLEAN : DebouncePlaying(low) => AppEffect
  BY <1>0 DEF DebouncePlaying, QuietCheck, EnterListening, StayInState
<1>7. Released => AppEffect
  BY <1>0 DEF Released, EnterListening
<1> QED
  BY <1>1, <1>2, <1>3, <1>4, <1>5, <1>6, <1>7 DEF App, Pass, Debounced

-----------------------------------------------------------------------------
(* Type correctness *)

\* A count that has not begun is within its bound.
LEMMA ZeroFits ==
    0 \in 0 .. MicCap /\ 0 \in 0 .. MaxRefusals /\ 0 \in 0 .. MaxEmpty - 1 /\ 0 \in 0 .. MaxDrops /\ 0 \in 0 .. MaxChunks
OBVIOUS

\* A server that has nothing to say, or has just closed a round.
LEMMA IdleServerTypes ==
    /\ SrvIdle \in Servers
    /\ [SrvIdle EXCEPT !.open = TRUE] \in Servers
    /\ \A b \in BOOLEAN : [SrvIdle EXCEPT !.heard = b] \in Servers
BY ZeroFits DEF SrvIdle, Servers

\* A new session starts in type.
LEMMA NewSessionTypes ==
    NewSession => inbox' \in Seq(EventKinds) /\ srv' \in Servers /\ intSent' \in BOOLEAN
<1>1. <<>> \in Seq(EventKinds)
  OBVIOUS
<1>2. NewSession => inbox' \in Seq(EventKinds)
  BY <1>1 DEF NewSession
<1>3. NewSession => srv' \in Servers /\ intSent' \in BOOLEAN
  BY IdleServerTypes DEF NewSession
<1> QED
  BY <1>2, <1>3

\* A session that ends, however it ends, leaves well-typed link variables.
LEMMA EndSessionTypes ==
    ASSUME TypeOK, EndSession
    PROVE  /\ drops' \in 0 .. MaxDrops
           /\ drops' # 0
           /\ wsUp' = FALSE
           /\ micActive' = FALSE
           /\ voicePc' = "down"
           /\ inbox' \in Seq(EventKinds)
           /\ srv' \in Servers
           /\ intSent' \in BOOLEAN
<1>1. drops' \in 0 .. MaxDrops /\ drops' # 0
  BY DEF TypeOK, EndSession
<1> QED
  BY <1>1, NewSessionTypes DEF EndSession

\* The arms of handle_server_event keep the variables they write in type.
LEMMA HandleTypes ==
    ASSUME TypeOK, NEW kind, Handle(kind)
    PROVE  /\ appVars' = appVars \/ (age' \in Ages /\ UNCHANGED <<appState, appPc, wsSeen, cooling, quiet, empty>>)
           /\ micActive' \in BOOLEAN
           /\ mic' \in MicStates
           /\ refusals' \in 0 .. MaxRefusals
           /\ tracker' \in Trackers
           /\ spk' \in Speakers
           /\ text' \in {"user", "partial", "full"}
           /\ cut' \in BOOLEAN
<1> USE DEF TypeOK, VoiceFrame, micVars, inVars, MicStates
<1>0. ASSUME NEW t \in Trackers, ResumeMic(t)
      PROVE  /\ tracker' \in Trackers
             /\ micActive' \in BOOLEAN /\ mic' \in MicStates
             /\ refusals' \in 0 .. MaxRefusals
  <2>1. "resumed" \in MicStates
    OBVIOUS
  <2>2. tracker' \in Trackers
    BY <1>0, TrackerTypes DEF ResumeMic
  <2>3. CASE ResumesMic(t)
    BY <1>0, <2>1, <2>2, <2>3, StartMicTypes DEF ResumeMic
  <2>4. CASE ~ResumesMic(t)
    BY <1>0, <2>2, <2>4 DEF ResumeMic
  <2> QED
    BY <2>3, <2>4
<1>1. HandleVad => age' \in Ages
  BY DEF HandleVad, Ages
<1>2. CASE HandleVad
  BY <1>1, <1>2 DEF HandleVad
<1>3. CASE HandleAsrResult
  BY <1>3, TrackerTypes, SpeakerTypes DEF HandleAsrResult
<1>4. CASE HandleDelta
  BY <1>4, TrackerTypes DEF HandleDelta
<1>5. CASE HandleAudioStart
  BY <1>5, TrackerTypes, SpeakerTypes DEF HandleAudioStart
<1>6. CASE HandleAudioChunk
  BY <1>6, TrackerTypes, SpeakerTypes DEF HandleAudioChunk
<1>7. CASE HandleAudioDone
  BY <1>7, TrackerTypes, SpeakerTypes DEF HandleAudioDone
<1>8. CASE HandleCompleted
  BY <1>8, TrackerTypes DEF HandleCompleted
<1>9. CASE HandleAssistantError
  <2>1. FinalizePartial(tracker) \in Trackers
    BY TrackerTypes
  <2> QED
    BY <1>0, <1>9, <2>1 DEF HandleAssistantError
<1>10. CASE HandleError
  BY <1>0, <1>10 DEF HandleError
<1>11. CASE HandleInterruptAck
  BY <1>11, TrackerTypes DEF HandleInterruptAck
<1> QED
  BY <1>2, <1>3, <1>4, <1>5, <1>6, <1>7, <1>8, <1>9, <1>10, <1>11 DEF Handle

\* The device starts in type.
LEMMA InitType == Init => TypeOK
<1> SUFFICES ASSUME Init PROVE TypeOK
  OBVIOUS
<1>1. New \in Trackers
  BY DEF New, Trackers
<1>2. Silent \in Speakers
  BY DEF Silent, Speakers
<1>3. srv \in Servers
  BY IdleServerTypes DEF Init
<1>4. inbox \in Seq(EventKinds)
  BY DEF Init
<1> QED
  BY <1>1, <1>2, <1>3, <1>4, ZeroFits
     DEF Init, TypeOK, AppStates, AppPcs, Ages, VoicePcs, MicStates

\* app_loop keeps the types.
LEMMA AppTypeStep == TypeOK /\ App => TypeOK'
<1> SUFFICES ASSUME TypeOK, App PROVE TypeOK'
  OBVIOUS
<1>1. AppEffect
  BY AppStep
<1>2. tracker' \in Trackers /\ micActive' \in BOOLEAN /\ mic' \in MicStates
  BY <1>1, TrackerTypes DEF AppEffect, TypeOK, MicOn, MicOff, StartMic, Reading,
                            MicStates
<1>3. spk' \in Speakers
  BY <1>1, TickTypes DEF AppEffect, TypeOK
<1> QED
  BY <1>1, <1>2, <1>3 DEF AppEffect, AppVarTypes, AppFrame, linkVars, TypeOK

\* voice_task keeps the types.
LEMMA VoiceTypeStep == TypeOK /\ Voice => TypeOK'
<1> SUFFICES ASSUME TypeOK, Voice PROVE TypeOK'
  OBVIOUS
<1> USE DEF TypeOK, VoiceFrame, appVars, micVars, inVars, linkVars, VoicePcs
<1>1. CASE VoiceStart
  <2>1. drops' \in 0 .. MaxDrops
    BY <1>1 DEF VoiceStart
  <2>2. inbox' \in Seq(EventKinds) /\ srv' \in Servers /\ intSent' \in BOOLEAN
    BY <1>1, NewSessionTypes DEF VoiceStart
  <2>3. tracker' \in Trackers
    BY <1>1, TrackerTypes DEF VoiceStart
  <2> QED
    BY <1>1, <2>1, <2>2, <2>3 DEF VoiceStart
<1>2. CASE VoiceInterrupt
  <2>1. tracker' \in Trackers /\ spk' \in Speakers /\ cut' \in BOOLEAN
    BY <1>2, TrackerTypes, SpeakerTypes DEF VoiceInterrupt
  <2>2. CASE EndSession
    BY <1>2, <2>1, <2>2, EndSessionTypes DEF VoiceInterrupt
  <2>3. CASE ~EndSession
    BY <1>2, <2>1, <2>3 DEF VoiceInterrupt
  <2> QED
    BY <2>2, <2>3
<1>3. CASE VoiceUplink
  <2>1. micCh' \in 0 .. MicCap
    BY <1>3 DEF VoiceUplink
  <2>2. CASE EndSession
    BY <1>3, <2>1, <2>2, EndSessionTypes DEF VoiceUplink
  <2>3. CASE ~EndSession
    <3>1. srv' \in Servers
      BY <1>3, <2>3 DEF VoiceUplink, Servers
    <3> QED
      BY <1>3, <2>1, <2>3, <3>1, ZenonT(60) DEF VoiceUplink
  <2> QED
    BY <2>2, <2>3
<1>4. CASE VoiceDrained
  BY <1>4 DEF VoiceDrained
<1>5. CASE VoiceReceive
  <2>1. Handle(Head(inbox)) /\ inbox' \in Seq(EventKinds)
    BY <1>5 DEF VoiceReceive
  <2> QED
    BY <1>5, <2>1, HandleTypes DEF VoiceReceive
<1>6. CASE VoiceStatFails
  <2>1. tracker' \in Trackers /\ spk' \in Speakers
    BY <1>6, TrackerTypes, SpeakerTypes DEF VoiceStatFails
  <2> QED
    BY <1>6, <2>1, ZenonT(60), EndSessionTypes DEF VoiceStatFails
<1>7. CASE VoiceNothing
  BY <1>7, SMTT(30) DEF VoiceNothing
<1>8. CASE VoiceLost
  BY <1>8, EndSessionTypes DEF VoiceLost
<1> QED
  BY <1>1, <1>2, <1>3, <1>4, <1>5, <1>6, <1>7, <1>8 DEF Voice

\* What the server does changes its own state and appends to the inbox.
LEMMA ServerEffect ==
    ASSUME TypeOK, Server
    PROVE  /\ DeviceFrame
           /\ inbox' \in Seq(EventKinds)
           /\ srv' \in Servers
           /\ intSent' \in BOOLEAN
           /\ voicePc # "down"
<1> USE DEF TypeOK
<1>0. ASSUME NEW kind \in EventKinds, Send(kind)
      PROVE  inbox' \in Seq(EventKinds) /\ voicePc # "down"
  BY <1>0 DEF Send
<1>1. SrvIdle \in Servers /\ [SrvIdle EXCEPT !.open = TRUE] \in Servers
  BY IdleServerTypes
<1>2. [SrvIdle EXCEPT !.heard = srv.heard] \in Servers
  BY IdleServerTypes DEF Servers
<1>3. CASE SrvVad
  BY <1>0, <1>3 DEF SrvVad, EventKinds
<1>4. CASE SrvAsrResult
  BY <1>0, <1>1, <1>4 DEF SrvAsrResult, EventKinds
<1>5. CASE SrvDelta
  BY <1>0, <1>5 DEF SrvDelta, EventKinds
<1>6. CASE SrvAudioStart
  <2>1. srv' \in Servers
    BY <1>6 DEF SrvAudioStart, Servers
  <2> QED
    BY <1>0, <1>6, <2>1 DEF SrvAudioStart, EventKinds
<1>7. CASE SrvAudioChunk
  <2>1. srv.sent + 1 \in 0 .. MaxChunks
    BY <1>7, SMTT(30) DEF SrvAudioChunk, Servers
  <2>2. srv' \in Servers
    BY <1>7, <2>1 DEF SrvAudioChunk, Servers
  <2> QED
    BY <1>0, <1>7, <2>2 DEF SrvAudioChunk, EventKinds
<1>8. CASE SrvAudioDone
  <2>1. srv' \in Servers
    BY <1>8, ZeroFits DEF SrvAudioDone, Servers
  <2> QED
    BY <1>0, <1>8, <2>1 DEF SrvAudioDone, EventKinds
<1>9. CASE SrvCompleted
  BY <1>0, <1>2, <1>9 DEF SrvCompleted, CloseRound, EventKinds
<1>10. CASE SrvAssistantError
  BY <1>0, <1>2, <1>10 DEF SrvAssistantError, CloseRound, EventKinds, ErrorKinds
<1>11. CASE SrvError
  BY <1>0, <1>11 DEF SrvError, EventKinds, ErrorKinds
<1>12. CASE SrvInterrupt
  BY <1>0, <1>2, <1>12 DEF SrvInterrupt, CloseRound, EventKinds
<1> QED
  BY <1>3, <1>4, <1>5, <1>6, <1>7, <1>8, <1>9, <1>10, <1>11, <1>12
     DEF Server, SrvReply

\* The DMA and the three timers of app_loop.
LEMMA TimeTypes ==
    ASSUME TypeOK, CooldownEnds \/ ListenAges \/ QuietElapses \/ DmaPlays
    PROVE  TypeOK'
<1> USE DEF TypeOK, appVars, micVars, inVars, linkVars
<1>1. CASE CooldownEnds
  BY <1>1, ZenonT(60) DEF CooldownEnds
<1>2. CASE ListenAges
  BY <1>2 DEF ListenAges, Ages
<1>3. CASE QuietElapses
  BY <1>3 DEF QuietElapses
<1>4. CASE DmaPlays
  <2>1. spk' \in Speakers
    BY <1>4, SpeakerTypes DEF DmaPlays
  <2> QED
    BY <1>4, <2>1, SMTT(30) DEF DmaPlays
<1> QED
  BY <1>1, <1>2, <1>3, <1>4

\* TypeOK is inductive.
LEMMA TypeStep == TypeOK /\ [Next]_vars => TypeOK'
<1> SUFFICES ASSUME TypeOK, [Next]_vars PROVE TypeOK'
  OBVIOUS
<1>1. CASE Server
  BY <1>1, ServerEffect DEF DeviceFrame, TypeOK, appVars, micVars, inVars
<1>2. CASE UNCHANGED vars
  BY <1>2 DEF TypeOK, vars, appVars, micVars, inVars, linkVars
<1> QED
  BY <1>1, <1>2, AppTypeStep, VoiceTypeStep, TimeTypes DEF Next

\* Every variable keeps the type its Rust counterpart has: the microphone
\* queue, the ring and the descriptor chain stay within their capacities.
THEOREM Typing == Spec => []TypeOK
BY InitType, TypeStep, PTL DEF Spec

-----------------------------------------------------------------------------
(* The microphone.  MicCopiesAgree is inductive by itself on typed states:  *)
(* app_loop writes all three copies together, asr.result and the error      *)
(* handlers act on the tracker's copy and write the others with it, a lost  *)
(* session only clears MIC_ACTIVE, and a restart happens only while         *)
(* MIC_ACTIVE is on, so that the tracker is on too.                         *)

\* Which methods of the tracker touch its microphone bit.
LEMMA TrackerMic ==
    ASSUME NEW t \in Trackers
    PROVE  /\ Reset(t).mic_active = t.mic_active
           /\ MicStart(t).mic_active = TRUE
           /\ MicPause(t).mic_active = FALSE
           /\ OnAsrResult(t).mic_active = FALSE
           /\ OnAssistantDelta(t).mic_active = t.mic_active
           /\ OnVoiceAudioStart(t).mic_active = t.mic_active
           /\ OnAudioChunk(t).mic_active = t.mic_active
           /\ OnAudioDone(t).mic_active = t.mic_active
           /\ OnCompleted(t).mic_active = t.mic_active
           /\ FinalizePartial(t).mic_active = t.mic_active
           /\ ResumeMicOnError(t).mic_active = TRUE
BY DEF Trackers, New, Reset, MicStart, MicPause, OnAsrResult, OnAssistantDelta,
       OnVoiceAudioStart, OnAudioChunk, OnAudioDone, OnCompleted,
       FinalizePartial, ResumeMicOnError

\* Every step switches all copies of the microphone together.
LEMMA MicStep ==
    ASSUME TypeOK, MicCopiesAgree, [Next]_vars
    PROVE  MicCopiesAgree'
<1>0. /\ tracker \in Trackers /\ tracker.mic_active \in BOOLEAN
      /\ micActive \in BOOLEAN /\ mic \in MicStates
  BY DEF TypeOK, Trackers
<1> USE <1>0 DEF MicCopiesAgree, micVars, inVars
<1>1. CASE App
  <2>1. CASE MicOn
    BY <2>1, TrackerMic DEF MicOn, StartMic
  <2>2. CASE MicOff
    BY <2>2, TrackerMic DEF MicOff
  <2>3. CASE Reading
    BY <2>3 DEF Reading
  <2>4. CASE UNCHANGED <<micActive, mic, tracker, appState>>
    BY <2>4
  <2> QED
    BY <1>1, <2>1, <2>2, <2>3, <2>4, AppStep DEF AppEffect
<1>2. CASE VoiceStart
  BY <1>2, TrackerMic DEF VoiceStart
<1>3. CASE VoiceInterrupt
  <2>1. tracker'.mic_active = tracker.mic_active
    BY <1>3, ZenonT(60), TrackerMic DEF VoiceInterrupt
  <2>2. mic' = mic /\ (micActive' = micActive \/ micActive' = FALSE)
    BY <1>3 DEF VoiceInterrupt, EndSession
  <2> QED
    BY <2>1, <2>2
<1>4. CASE VoiceUplink
  BY <1>4 DEF VoiceUplink, EndSession
<1>5. CASE VoiceDrained
  BY <1>5 DEF VoiceDrained
<1>6. CASE VoiceReceive
  <2>1. CASE HandleVad
    BY <2>1 DEF HandleVad
  <2>2. CASE HandleAsrResult
    BY <2>2, TrackerMic DEF HandleAsrResult, AsrPausesMic
  <2>3. CASE HandleDelta
    BY <2>3, TrackerMic DEF HandleDelta
  <2>4. CASE HandleAudioStart
    BY <2>4, TrackerMic DEF HandleAudioStart
  <2>5. CASE HandleAudioChunk
    BY <2>5, TrackerMic DEF HandleAudioChunk
  <2>6. CASE HandleAudioDone
    BY <2>6, TrackerMic DEF HandleAudioDone
  <2>7. CASE HandleCompleted
    BY <2>7, TrackerMic DEF HandleCompleted
  <2>8. CASE HandleAssistantError
    BY <2>8, TrackerMic, TrackerTypes DEF HandleAssistantError, ResumeMic, ResumesMic, StartMic
  <2>9. CASE HandleError
    BY <2>9, TrackerMic DEF HandleError, ResumeMic, ResumesMic, StartMic
  <2>10. CASE HandleInterruptAck
    BY <2>10, TrackerMic DEF HandleInterruptAck
  <2> QED
    BY <1>6, <2>1, <2>2, <2>3, <2>4, <2>5, <2>6, <2>7, <2>8, <2>9, <2>10
       DEF VoiceReceive, Handle
<1>7. CASE VoiceStatFails
  BY <1>7, TrackerMic DEF VoiceStatFails, EndSession
<1>8. CASE VoiceNothing
  BY <1>8 DEF VoiceNothing
<1>9. CASE VoiceLost
  BY <1>9 DEF VoiceLost, EndSession
<1>10. CASE Server
  BY <1>10, ServerEffect DEF DeviceFrame
<1>11. CASE CooldownEnds \/ ListenAges \/ QuietElapses \/ DmaPlays
  BY <1>11 DEF CooldownEnds, ListenAges, QuietElapses, DmaPlays
<1>12. CASE UNCHANGED vars
  BY <1>12 DEF vars
<1> QED
  BY <1>1, <1>2, <1>3, <1>4, <1>5, <1>6, <1>7, <1>8, <1>9, <1>10, <1>11, <1>12
     DEF Next, Voice

\* MIC_ACTIVE is never on without the tracker's copy, a capture never runs
\* without it, and with it the capture runs or its last start was refused.
THEOREM MicCopies == Spec => []MicCopiesAgree
<1>1. Init => MicCopiesAgree
  BY DEF Init, MicCopiesAgree, New
<1>2. TypeOK /\ MicCopiesAgree /\ [Next]_vars => MicCopiesAgree'
  BY MicStep
<1> QED
  BY <1>1, <1>2, Typing, PTL DEF Spec

-----------------------------------------------------------------------------
(* The speaker and the round.  The three invariants hold each other up:    *)
(* that asr.result stops an unfinished stream follows from                 *)
(* TrackerKnowsStream, that nothing restarts an interrupted one from       *)
(* InterruptSilences, and that a pump call ends a stream only when the     *)
(* ring is empty from RingBelongsToStream.  A new session resets the       *)
(* tracker but not the speaker, so TrackerKnowsStream also needs that      *)
(* before the first connection there is no stream.                         *)

NotYetConnected ==
    drops = 0 /\ voicePc = "down" => ~spk.streaming /\ ~tracker.voice_audio_on

ReplyInv ==
    InterruptSilences /\ TrackerKnowsStream /\ RingBelongsToStream /\ NotYetConnected

\* Which methods of the tracker open and close the audio of a round.
LEMMA TrackerRound ==
    ASSUME NEW t \in Trackers
    PROVE  /\ ~Reset(t).voice_audio_on
           /\ ~OnAsrResult(t).voice_audio_on
           /\ \A u \in {MicStart(t), MicPause(t), OnAssistantDelta(t),
                        OnAudioChunk(t), ResumeMicOnError(t)} :
                 /\ u.voice_audio_on = t.voice_audio_on
                 /\ u.round_finalized = t.round_finalized
           /\ t.round_finalized => OnVoiceAudioStart(t) = t
           /\ ~t.round_finalized => OnVoiceAudioStart(t).voice_audio_on
           /\ OnVoiceAudioStart(t).round_finalized = t.round_finalized
           /\ ~OnAudioDone(t).voice_audio_on
           /\ OnAudioDone(t).round_finalized = t.round_finalized
           /\ \A u \in {OnCompleted(t), FinalizePartial(t)} :
                 /\ u.voice_audio_on = t.voice_audio_on
                 /\ u.round_finalized
BY DEF Trackers, New, Reset, MicStart, MicPause, OnAsrResult, OnAssistantDelta,
       OnVoiceAudioStart, OnAudioChunk, OnAudioDone, OnCompleted,
       FinalizePartial, ResumeMicOnError

\* What the operations of the speaker do to stream, transfer and ring.
LEMMA SpeakerFacts ==
    ASSUME NEW s \in Speakers
    PROVE  /\ BeginStream(s).streaming /\ ~BeginStream(s).done_flag
           /\ ~BeginStream(s).xfer /\ BeginStream(s).buffered = 0
           /\ FinishStream(s).streaming = s.streaming
           /\ FinishStream(s).done_flag
           /\ FinishStream(s).started = s.started
           /\ FinishStream(s).xfer = s.xfer
           /\ FinishStream(s).buffered = s.buffered
           /\ ~StopPlayback(s).streaming /\ ~StopPlayback(s).xfer
           /\ StopPlayback(s).buffered = 0
           /\ Feed(s).streaming = s.streaming
           /\ Feed(s).done_flag = s.done_flag
           /\ Feed(s).started = s.started
           /\ Feed(s).xfer = s.xfer
           /\ ~s.streaming => Feed(s) = s
           /\ DmaPlay(s).streaming = s.streaming
           /\ DmaPlay(s).done_flag = s.done_flag
           /\ DmaPlay(s).started = s.started
           /\ DmaPlay(s).xfer = s.xfer
           /\ DmaPlay(s).buffered = s.buffered
BY DEF Speakers, Silent, BeginStream, FinishStream, StopPlayback, Reclaim, Feed,
       DmaPlay

\* Without a change of speaker, round, session and history, nothing to show.
LEMMA ReplyFrame ==
    ASSUME ReplyInv, spk' = spk, cut' = cut, drops' = drops, voicePc' = voicePc,
           tracker'.voice_audio_on = tracker.voice_audio_on,
           tracker'.round_finalized = tracker.round_finalized
    PROVE  ReplyInv'
BY DEF ReplyInv, InterruptSilences, TrackerKnowsStream, RingBelongsToStream,
       NotYetConnected, IsActive

\* A link failure suspends TrackerKnowsStream for good.
LEMMA ReplyAfterDrop ==
    ASSUME InterruptSilences', RingBelongsToStream', drops' # 0
    PROVE  ReplyInv'
BY DEF ReplyInv, TrackerKnowsStream, NotYetConnected

\* No event of the server breaks ReplyInv.
LEMMA ReplyHandle ==
    ASSUME TypeOK, ReplyInv, VoiceReceive
    PROVE  ReplyInv'
<1>0. tracker \in Trackers /\ spk \in Speakers
  BY DEF TypeOK
<1>1. voicePc' # "down" /\ drops' = drops
  BY DEF VoiceReceive
<1> USE <1>0, <1>1 DEF ReplyInv, InterruptSilences, TrackerKnowsStream,
                       RingBelongsToStream, NotYetConnected, IsActive
<1>2. CASE HandleVad
  BY <1>2 DEF HandleVad
<1>3. CASE HandleAsrResult
  <2>1. CASE tracker.voice_audio_on
    BY <1>3, <2>1, TrackerRound, SpeakerFacts DEF HandleAsrResult, AsrStopsPlayback
  <2>2. CASE ~tracker.voice_audio_on
    BY <1>3, <2>2, TrackerRound DEF HandleAsrResult, AsrStopsPlayback
  <2> QED
    BY <2>1, <2>2
<1>4. CASE HandleDelta
  BY <1>4, TrackerRound DEF HandleDelta
<1>5. CASE HandleAudioStart
  BY <1>5, TrackerRound, SpeakerFacts DEF HandleAudioStart, AcceptsAudioStart
<1>6. CASE HandleAudioChunk
  BY <1>6, TrackerRound, SpeakerFacts DEF HandleAudioChunk, AcceptsChunk
<1>7. CASE HandleAudioDone
  BY <1>7, TrackerRound, SpeakerFacts DEF HandleAudioDone, EndsStream
<1>8. CASE HandleCompleted
  BY <1>8, TrackerRound DEF HandleCompleted
<1>9. CASE HandleAssistantError
  <2> DEFINE t == FinalizePartial(tracker)
  <2>1. t \in Trackers /\ t.round_finalized
        /\ t.voice_audio_on = tracker.voice_audio_on
    BY TrackerRound, TrackerTypes
  <2>2. tracker' = ResumeMicOnError(t) /\ spk' = spk /\ cut' = cut
    BY <1>9 DEF HandleAssistantError, ResumeMic
  <2> HIDE DEF t
  <2>3. tracker'.voice_audio_on = tracker.voice_audio_on
        /\ tracker'.round_finalized
    BY <2>1, <2>2, TrackerRound
  <2> QED
    BY <2>2, <2>3
<1>10. CASE HandleError
  BY <1>10, TrackerRound DEF HandleError, ResumeMic
<1>11. CASE HandleInterruptAck
  BY <1>11, TrackerRound DEF HandleInterruptAck
<1> QED
  BY <1>2, <1>3, <1>4, <1>5, <1>6, <1>7, <1>8, <1>9, <1>10, <1>11
     DEF VoiceReceive, Handle

\* ReplyInv is inductive on typed states.
LEMMA ReplyStep ==
    ASSUME TypeOK, ReplyInv, [Next]_vars
    PROVE  ReplyInv'
<1>0. tracker \in Trackers /\ spk \in Speakers /\ drops \in Nat
  BY DEF TypeOK
<1> USE DEF ReplyInv, InterruptSilences, TrackerKnowsStream, RingBelongsToStream,
            NotYetConnected, IsActive
<1>1. CASE App
  <2>1. /\ tracker'.voice_audio_on = tracker.voice_audio_on
        /\ tracker'.round_finalized = tracker.round_finalized
    <3>1. tracker' \in {MicStart(tracker), MicPause(tracker), tracker}
      BY <1>1, AppStep DEF AppEffect, MicOn, MicOff, Reading
    <3> QED
      BY <1>0, <3>1, TrackerRound
  <2>2. UNCHANGED <<cut, drops, voicePc>>
    BY <1>1, AppStep DEF AppEffect, AppFrame, linkVars
  <2>3. CASE spk' = spk
    BY <2>1, <2>2, <2>3, ReplyFrame
  <2>4. CASE spk' = Tick(spk)
    <3>1. spk.buffered \in Nat /\ Tick(spk).buffered \in Nat
      BY <1>0, TickTypes DEF Speakers
    <3> QED
      BY <1>0, <2>1, <2>2, <2>4, <3>1, TickFacts
  <2> QED
    BY <1>1, <2>3, <2>4, AppStep DEF AppEffect
<1>2. CASE VoiceStart
  BY <1>0, <1>2, TrackerRound DEF VoiceStart
<1>3. CASE VoiceInterrupt
  BY <1>0, <1>3, TrackerRound, SpeakerFacts DEF VoiceInterrupt, EndSession
<1>4. CASE VoiceUplink
  <2>1. spk' = spk /\ tracker' = tracker /\ cut' = cut
    BY <1>4 DEF VoiceUplink
  <2>2. drops' # 0 \/ UNCHANGED <<drops, voicePc>>
    <3>1. EndSession => drops' # 0
      BY EndSessionTypes
    <3> QED
      BY <1>4, <3>1 DEF VoiceUplink
  <2>3. CASE drops' # 0
    <3>1. InterruptSilences' /\ RingBelongsToStream'
      BY <2>1
    <3> QED
      BY <2>3, <3>1, ReplyAfterDrop
  <2>4. CASE UNCHANGED <<drops, voicePc>>
    BY <2>1, <2>4
  <2> QED
    BY <2>2, <2>3, <2>4
<1>5. CASE VoiceDrained
  BY <1>5 DEF VoiceDrained, linkVars
<1>6. CASE VoiceReceive
  BY <1>6, ReplyHandle
<1>7. CASE VoiceStatFails
  <2>1. ~tracker.round_finalized /\ drops' # 0 /\ cut' = cut
        /\ tracker' = OnAudioChunk(tracker) /\ spk' = Feed(spk)
    BY <1>0, <1>7 DEF VoiceStatFails, ReportsStat, EndSession
  <2> QED
    BY <1>0, <2>1, TrackerRound, SpeakerFacts, ReplyAfterDrop
<1>8. CASE VoiceNothing
  BY <1>8 DEF VoiceNothing
<1>9. CASE VoiceLost
  BY <1>0, <1>9 DEF VoiceLost, EndSession
<1>10. CASE Server
  BY <1>10, ServerEffect, ReplyFrame DEF DeviceFrame
<1>11. CASE CooldownEnds \/ ListenAges \/ QuietElapses
  BY <1>11, ReplyFrame DEF CooldownEnds, ListenAges, QuietElapses, linkVars
<1>12. CASE DmaPlays
  BY <1>0, <1>12, SpeakerFacts DEF DmaPlays, linkVars
<1>13. CASE UNCHANGED vars
  BY <1>13, ReplyFrame DEF vars, linkVars
<1> QED
  BY <1>1, <1>2, <1>3, <1>4, <1>5, <1>6, <1>7, <1>8, <1>9, <1>10, <1>11, <1>12,
     <1>13 DEF Next, Voice

\* ReplyInv holds throughout.
LEMMA ReplyInvariant == Spec => []ReplyInv
<1>1. Init => ReplyInv
  BY DEF Init, ReplyInv, InterruptSilences, TrackerKnowsStream,
         RingBelongsToStream, NotYetConnected, New, Silent
<1>2. TypeOK /\ ReplyInv /\ [Next]_vars => ReplyInv'
  BY ReplyStep
<1> QED
  BY <1>1, <1>2, Typing, PTL DEF Spec

\* After an interrupt the speaker is stopped, and stays so until the next
\* round: VoiceInterrupt stops it and finalises the round, and no handler
\* feeds or starts a finalised round.
THEOREM SilencedByInterrupt == Spec => []InterruptSilences
<1>1. ReplyInv => InterruptSilences
  BY DEF ReplyInv
<1> QED
  BY <1>1, ReplyInvariant, PTL

\* While the link has not failed, tracker and speaker agree on whether there
\* is a stream that audio.done may close and asr.result must stop: audio.start
\* opens it in both, and only these two events and the interrupt end it.
THEOREM StreamKnown == Spec => []TrackerKnowsStream
<1>1. ReplyInv => TrackerKnowsStream
  BY DEF ReplyInv
<1> QED
  BY <1>1, ReplyInvariant, PTL

\* Neither a DMA transfer nor ring data survives its stream.
THEOREM RingOwned == Spec => []RingBelongsToStream
<1>1. ReplyInv => RingBelongsToStream
  BY DEF ReplyInv
<1> QED
  BY <1>1, ReplyInvariant, PTL

\* An interrupted reply cannot put another delta on the screen: as long as
\* the round stays interrupted it is finalised, and a finalised round
\* refuses deltas.
THEOREM LateDeltas == Spec => LateDeltaDropped
<1>1. InterruptSilences /\ [Next]_vars => [cut /\ cut' => text' \in {text, "full"}]_vars
  <2> SUFFICES ASSUME InterruptSilences, Next, cut, cut'
               PROVE  text' \in {text, "full"}
    BY DEF vars
  <2>0. tracker.round_finalized
    BY DEF InterruptSilences
  <2>1. CASE App
    BY <2>1 DEF App, Pass, Debounced, PassIdle, PassListening, PassPlaying,
         DebounceIdle, DebounceListening, DebouncePlaying, Released, AppFrame
  <2>2. CASE VoiceReceive
    BY <2>0, <2>2 DEF VoiceReceive, Handle, HandleVad, HandleAsrResult, HandleDelta,
         HandleAudioStart, HandleAudioChunk, HandleAudioDone, HandleCompleted,
         HandleAssistantError, HandleError, HandleInterruptAck, AcceptsDelta
  <2>3. CASE Voice /\ ~VoiceReceive
    BY <2>3 DEF Voice, VoiceStart, VoiceInterrupt, VoiceUplink, VoiceDrained,
         VoiceStatFails, VoiceNothing, VoiceLost
  <2>4. CASE Server
    BY <2>4 DEF Server, SrvVad, SrvAsrResult, SrvDelta, SrvReply, SrvAudioStart,
         SrvAudioChunk, SrvAudioDone, SrvCompleted, SrvInterrupt,
         SrvAssistantError, SrvError, DeviceFrame
  <2>5. CASE CooldownEnds \/ ListenAges \/ QuietElapses \/ DmaPlays
    BY <2>5 DEF CooldownEnds, ListenAges, QuietElapses, DmaPlays
  <2> QED
    BY <2>1, <2>2, <2>3, <2>4, <2>5 DEF Next
<1> QED
  BY <1>1, SilencedByInterrupt, PTL DEF Spec, LateDeltaDropped

-----------------------------------------------------------------------------
(* The capture app_loop starts runs in Listening only: it starts it only     *)
(* where it enters Listening or reads there, and stops it wherever it       *)
(* leaves; what the error handlers start is marked as theirs.               *)

\* What app_loop does to the microphone fits the state it goes to.
LEMMA AppMic ==
    ASSUME TypeOK, MicOnlyWhenListening, App
    PROVE  MicOnlyWhenListening'
<1>1. CASE MicOn /\ appState' = "Listening"
  BY <1>1 DEF MicOnlyWhenListening
<1>2. CASE MicOff
  BY <1>2 DEF MicOnlyWhenListening, MicOff
<1>3. CASE Reading
  BY <1>3 DEF MicOnlyWhenListening, Reading
<1>4. CASE UNCHANGED <<micActive, mic, tracker, appState>>
  BY <1>4 DEF MicOnlyWhenListening
<1> QED
  BY <1>1, <1>2, <1>3, <1>4, AppStep DEF AppEffect

\* The capture is started by entering Listening and stopped by leaving it.
LEMMA MicStateStep ==
    ASSUME TypeOK, MicOnlyWhenListening, [Next]_vars
    PROVE  MicOnlyWhenListening'
<1> USE DEF MicOnlyWhenListening, micVars, inVars, appVars, VoiceFrame
<1>1. CASE App
  BY <1>1, AppMic
<1>2. CASE VoiceReceive
  BY <1>2 DEF VoiceReceive, Handle, HandleVad, HandleAsrResult, HandleDelta,
       HandleAudioStart, HandleAudioChunk, HandleAudioDone, HandleCompleted,
       HandleAssistantError, HandleError, HandleInterruptAck, ResumeMic, StartMic
<1>3. CASE Voice /\ ~VoiceReceive
  BY <1>3 DEF Voice, VoiceStart, VoiceInterrupt, VoiceUplink, VoiceDrained,
       VoiceStatFails, VoiceNothing, VoiceLost
<1>4. CASE Server
  BY <1>4, ServerEffect DEF DeviceFrame
<1>5. CASE CooldownEnds \/ ListenAges \/ QuietElapses \/ DmaPlays
  BY <1>5 DEF CooldownEnds, ListenAges, QuietElapses, DmaPlays
<1>6. CASE UNCHANGED vars
  BY <1>6 DEF vars
<1> QED
  BY <1>1, <1>2, <1>3, <1>4, <1>5, <1>6 DEF Next

\* The capture that app_loop starts runs in Listening only, with error events
\* or without, whatever starts are refused and whatever reads restart it.
THEOREM MicListens == Spec => []MicOnlyWhenListening
<1>1. Init => MicOnlyWhenListening
  BY DEF Init, MicOnlyWhenListening
<1>2. TypeOK /\ MicOnlyWhenListening /\ [Next]_vars => MicOnlyWhenListening'
  BY MicStateStep
<1> QED
  BY <1>1, <1>2, Typing, PTL DEF Spec
=============================================================================
