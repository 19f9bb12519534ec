---------------------------- MODULE RoundTracker ----------------------------
(***************************************************************************)
(* The guard of one streamed reply (struct RoundTracker, voice_client.rs). *)
(*                                                                         *)
(* A tracker is a record with the fields of the struct.  A method of the   *)
(* struct is one operator that returns the next record and, when the       *)
(* method returns something the caller acts on, a second operator for that *)
(* result, evaluated on the record before the call.                        *)
(*                                                                         *)
(* llm_first_token_ms is kept only as "a first delta was stamped"          *)
(* (first_token): the code compares it with 0 and prints a difference.     *)
(***************************************************************************)

Trackers ==
    [ round_active    : BOOLEAN,   \* a delta of this round was accepted
      round_finalized : BOOLEAN,   \* completed, interrupted or failed
      received_audio  : BOOLEAN,   \* the round had an audio.start
      voice_audio_on  : BOOLEAN,   \* audio.start without its audio.done
      mic_active      : BOOLEAN,   \* the client's belief about the uplink
      first_token     : BOOLEAN,   \* llm_first_token_ms # 0
      stat_sent       : BOOLEAN ]  \* client_stats went out this round

New ==
    [ round_active |-> FALSE, round_finalized |-> FALSE,
      received_audio |-> FALSE, voice_audio_on |-> FALSE,
      mic_active |-> FALSE, first_token |-> FALSE, stat_sent |-> FALSE ]

\* Everything but the microphone bit goes back to New.
Reset(t) == [New EXCEPT !.mic_active = t.mic_active]

MicStart(t) == [t EXCEPT !.mic_active = TRUE]
MicPause(t) == [t EXCEPT !.mic_active = FALSE]

\* Variant: the stream of the round before is left to itself.
AsrKeepsPlaying(t) == FALSE

\* asr.result: what the caller must do, and the fresh round.
AsrStopsPlayback(t) == t.voice_audio_on
AsrPausesMic(t) == t.mic_active
OnAsrResult(t) == Reset([t EXCEPT !.mic_active = FALSE])

\* Variant: late deltas are shown.
AcceptsAnyDelta(t) == TRUE

\* assistant.delta
AcceptsDelta(t) == ~t.round_finalized
OnAssistantDelta(t) ==
    IF t.round_finalized \/ t.round_active
    THEN t
    ELSE [t EXCEPT !.round_active = TRUE, !.first_token = TRUE]

\* Variants: late streams are played; the open stream is not remembered.
AcceptsAnyAudioStart(t) == TRUE
OnVoiceAudioStartForgets(t) ==
    IF t.round_finalized THEN t ELSE [t EXCEPT !.received_audio = TRUE]

\* audio.start
AcceptsAudioStart(t) == ~t.round_finalized
OnVoiceAudioStart(t) ==
    IF t.round_finalized
    THEN t
    ELSE [t EXCEPT !.received_audio = TRUE, !.voice_audio_on = TRUE]

\* audio.chunk: the first chunk behind the first delta reports the latency.
AcceptsChunk(t) == ~t.round_finalized
ReportsStat(t) == ~t.round_finalized /\ ~t.stat_sent /\ t.first_token
OnAudioChunk(t) == IF ReportsStat(t) THEN [t EXCEPT !.stat_sent = TRUE] ELSE t

\* audio.done
EndsStream(t) == t.voice_audio_on
OnAudioDone(t) == [t EXCEPT !.voice_audio_on = FALSE]

\* assistant.completed
NeedsFallback(t) == ~t.round_finalized /\ ~t.received_audio
OnCompleted(t) ==
    IF t.round_finalized
    THEN t
    ELSE [t EXCEPT !.round_finalized = TRUE, !.round_active = FALSE]

\* interrupt, interrupt.ack and assistant.error
NeedsFlush(t) == t.round_active /\ ~t.round_finalized
FinalizePartial(t) ==
    [t EXCEPT !.round_active = FALSE, !.round_finalized = TRUE]

\* error, asr.error and assistant.error
ResumesMic(t) == ~t.mic_active
ResumeMicOnError(t) == [t EXCEPT !.mic_active = TRUE]
=============================================================================
