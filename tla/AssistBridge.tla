---------------------------- MODULE AssistBridge ----------------------------
(***************************************************************************)
(* One voice assistant session on one call: AssistBridge (assist.py).  The *)
(* session task runs turn after turn of the Assist pipeline; replies are   *)
(* fetched and played by tasks of their own, and so is the cue that covers *)
(* the time until a reply.  The client transmits one source at a time and  *)
(* reports that a source is over without saying which one.                 *)
(*                                                                         *)
(* The bridge is one record, `b', because its methods call each other: an  *)
(* operator is a method, from the bridge before to the bridge after.  An   *)
(* action is what runs between two awaits.  Time is abstract.  A cancelled *)
(* task does nothing more, so the epoch, which repeats that for replies,   *)
(* is left out, and so are sounds as such: resampling, the pre-roll ring   *)
(* and the frame counts of the voice detectors.                            *)
(***************************************************************************)
EXTENDS Integers

CONSTANTS
    Options,    \* what the service was called with, see OptionOK
    MaxTurns,   \* max_turns of the service
    MaxSilent,  \* max_silent_turns
    MaxErrors,  \* _MAX_CONSECUTIVE_ERRORS
    MaxOthers   \* how often someone else plays or stops audio in the model

OptionOK == [prompt : BOOLEAN, tone : {"none", "beep", "media"}, cue : BOOLEAN, barge : BOOLEAN,
             interrupt : BOOLEAN, hangupTool : BOOLEAN, hangupOnEnd : BOOLEAN]

ASSUME AssistAssumption ==
    /\ Options \subseteq OptionOK /\ Options # {}
    /\ {MaxTurns, MaxSilent, MaxErrors} \subseteq Nat \ {0} /\ MaxOthers \in Nat

VARIABLES
    opt,
    b,
    others   \* sources that someone else played or stopped

assistVars == <<opt, b, others>>

\* at: where the session task waits; toneIdle and replyIdle are in
\* _wait_for_tx_idle(), playback in _wait_playback_done().  stage: how far the run
\* of the pipeline is.  fetch: the task that plays a reply waits for its first chunk
\* or until the client is idle.  cue: fetched, skipped (but active) or played.
\* media: what the client transmits; a fill is a reply whose cue is still heard.
BridgeOK ==
    [at : {"begin", "toneIdle", "toneFetch", "tone", "pipeline", "playback", "replyIdle",
           "settle", "backoff", "gone"},
     stage : {"none", "run", "stt", "intent", "tts", "end"},
     media : {"none", "other", "tone", "cue", "fill", "reply"},
     fetch : {"none", "first", "idle"}, cue : {"off", "fetch", "skipped", "played"},
     wait : {"none", "tone", "tts"}, done : BOOLEAN,
     running : BOOLEAN, listening : BOOLEAN, speaking : BOOLEAN,
     preroll : BOOLEAN,       \* _barge_in_preroll is not empty
     capture : BOOLEAN,       \* _post_barge_in_capture
     handover : BOOLEAN, interrupt : BOOLEAN, hangup : BOOLEAN,
     runToken : BOOLEAN, playingToken : BOOLEAN,
     continue : BOOLEAN, error : {"none", "silent", "error"},
     turn : 0..MaxTurns, silent : 0..MaxTurns, errors : 0..MaxTurns,
     \* history: the bridge was closed; it ended the call; and while a reply was
     \* due; the pipeline raised; the end of another source passed for the end of this
     \* turn's tone; someone else stopped audio since this reply began.
     closed : BOOLEAN, hungUp : BOOLEAN, cut : BOOLEAN, raised : BOOLEAN,
     hasty : BOOLEAN, silenced : BOOLEAN]

AssistTypeOK == opt \in Options /\ b \in BridgeOK /\ others \in 0..MaxOthers

AssistInit ==
    /\ opt \in Options
    /\ \E playing \in {"none", "other"} :
         b = [at |-> "begin", stage |-> "none", media |-> playing, fetch |-> "none",
              cue |-> "off", wait |-> "none", done |-> FALSE,
              running |-> TRUE, listening |-> FALSE, speaking |-> FALSE, preroll |-> FALSE,
              capture |-> FALSE, handover |-> FALSE, interrupt |-> opt.interrupt,
              hangup |-> FALSE, runToken |-> FALSE, playingToken |-> FALSE,
              continue |-> FALSE, error |-> "none", turn |-> 0, silent |-> 0, errors |-> 0,
              closed |-> FALSE, hungUp |-> FALSE, cut |-> FALSE, raised |-> FALSE,
              hasty |-> FALSE, silenced |-> FALSE]
    /\ others = 0

Replies == {"fill", "reply"}
OwnAudio == Replies \cup {"tone", "cue"}
-----------------------------------------------------------------------------
(* Methods that do not wait. *)

\* _stop_processing_cue()
StopCue(s, flush) ==
    [s EXCEPT !.cue = "off", !.media = IF s.cue = "played" /\ flush THEN "none" ELSE @]

\* _cancel_inflight_tts()
CancelTts(s, stop) == [s EXCEPT !.fetch = "none", !.media = IF stop THEN "none" ELSE @]

\* _interrupt_media_when_ready()
InterruptMedia(s) ==
    [s EXCEPT !.interrupt = FALSE, !.media = IF s.interrupt THEN "none" ELSE @]

\* close(), which also cancels the session task.
Close(s) ==
    [StopCue(CancelTts(s, FALSE), FALSE) EXCEPT
        !.at = "gone", !.stage = "none", !.running = FALSE, !.listening = FALSE,
        !.speaking = FALSE, !.capture = FALSE, !.hangup = FALSE, !.handover = FALSE,
        !.runToken = FALSE, !.playingToken = FALSE, !.wait = "none", !.done = TRUE,
        !.closed = TRUE]

\* hangup() of the client, whose on_call_ended() closes the bridge.
HangUp(s) ==
    [Close(s) EXCEPT !.hungUp = TRUE,
                     !.cut = s.media \in Replies \/ s.fetch # "none"]

\* Mutant: the end of the session forgets a hang-up that is due.
EndsForgetful(s) ==
    [s EXCEPT !.at = "gone", !.stage = "none", !.running = FALSE, !.listening = FALSE,
              !.speaking = FALSE, !.capture = FALSE]

\* The finally of _run_session(), and on_assist_done(); what a task of a session that
\* is over does cannot be heard once the call is over.
EndSession(s) ==
    IF s.hangup \/ opt.hangupOnEnd THEN HangUp(s)
    ELSE [s EXCEPT !.at = "gone", !.stage = "none", !.running = FALSE, !.listening = FALSE,
                   !.speaking = FALSE, !.capture = FALSE]

\* _begin_tts_playback(); Core may not know the stream.
BeginTts(s, known) ==
    IF s.playingToken \/ ~known THEN s
    ELSE [s EXCEPT !.playingToken = TRUE, !.listening = FALSE, !.speaking = TRUE,
                   !.done = FALSE, !.fetch = "first", !.silenced = FALSE]

\* _abort_streamed_tts()
AbortTts(s) ==
    IF s.playingToken /\ s.speaking THEN [CancelTts(s, TRUE) EXCEPT !.done = TRUE] ELSE s

\* The end of _play_tts_stream()
PlayReply(s, handover) ==
    [s EXCEPT !.media = IF handover THEN "fill" ELSE "reply", !.handover = @ \/ handover,
              !.wait = "tts", !.fetch = "none"]
-----------------------------------------------------------------------------
(* The session, from one wait to the next. *)

\* The microphone opens: _run_session() from the tone to the run of the pipeline.
Listen(s) ==
    [InterruptMedia(s) EXCEPT !.preroll = FALSE, !.capture = FALSE, !.listening = TRUE,
                              !.at = "pipeline", !.stage = "run"]

ToneOver(s) == Listen([s EXCEPT !.wait = "none"])

\* _play_tone() plays; its event may be set already.
PlayTone(s) ==
    LET played == [s EXCEPT !.media = "tone"] IN
    IF s.done THEN ToneOver([played EXCEPT !.hasty = TRUE]) ELSE [played EXCEPT !.at = "tone"]

FetchTone(s) == IF opt.tone = "media" THEN [s EXCEPT !.at = "toneFetch"] ELSE PlayTone(s)

\* _play_turn_tone() and the beginning of _play_tone()
TurnTone(s) ==
    LET ready == InterruptMedia([s EXCEPT !.wait = "tone", !.done = FALSE]) IN
    IF ready.media = "none" THEN FetchTone(ready) ELSE [ready EXCEPT !.at = "toneIdle"]

StartTurn(s) ==
    LET fresh == [s EXCEPT !.error = "none", !.continue = FALSE, !.turn = @ + 1,
                            !.hasty = @ /\ s.media = "tone"] IN
    IF opt.tone # "none" /\ ~s.preroll THEN TurnTone(fresh) ELSE Listen(fresh)

\* After _wait_playback_done()
TurnOver(s) ==
    IF s.hangup THEN HangUp(s)
    ELSE IF s.turn = 0 THEN StartTurn(s)
    ELSE IF s.silent >= MaxSilent \/ s.turn >= MaxTurns \/ s.errors >= MaxErrors
    THEN EndSession(s)
    ELSE IF s.error = "error" THEN [s EXCEPT !.at = "backoff"] ELSE StartTurn(s)

\* _wait_playback_done() once the client is idle
ReplyOver(s) ==
    LET over == [s EXCEPT !.done = FALSE, !.wait = "none", !.speaking = FALSE,
                          !.handover = FALSE] IN
    IF s.capture THEN TurnOver(over) ELSE [over EXCEPT !.at = "settle"]

\* ... and once its event is set
PlaybackOver(s) ==
    LET stopped == StopCue(s, TRUE) IN
    IF stopped.media = "none" THEN ReplyOver(stopped) ELSE [stopped EXCEPT !.at = "replyIdle"]

\* Mutant: a reply that is played is not waited for.
WaitsForFetch(s) ==
    IF s.fetch = "none" THEN TurnOver([s EXCEPT !.playingToken = FALSE, !.stage = "none"])
    ELSE [s EXCEPT !.playingToken = FALSE, !.stage = "none", !.at = "playback"]

WaitPlaybackDone(s) ==
    LET t == [s EXCEPT !.playingToken = FALSE, !.stage = "none"] IN
    IF ~s.speaking THEN TurnOver(t)
    ELSE IF s.done THEN PlaybackOver(t) ELSE [t EXCEPT !.at = "playback"]

\* Mutant: the cue of a run without a reply plays on.
KeepsCue(s) == [s EXCEPT !.listening = FALSE]

\* The finally around the run of the pipeline
RunOver(s) == [IF s.speaking THEN s ELSE StopCue(s, TRUE) EXCEPT !.listening = FALSE]

Counted(s) ==
    [s EXCEPT !.silent = IF ~s.continue /\ s.error = "silent" THEN @ + 1 ELSE 0,
              !.errors = IF ~s.continue /\ s.error = "error" THEN @ + 1 ELSE 0]
-----------------------------------------------------------------------------
Becomes(s) == b' = s /\ UNCHANGED <<opt, others>>

SessionBegins ==
    /\ b.at = "begin"
    /\ Becomes(IF opt.prompt THEN [b EXCEPT !.at = "pipeline", !.stage = "run"]
               ELSE StartTurn(b))

\* A minute is over, which no reply takes.
IdleTimeout == b.media \notin Replies

ToneIdle == b.at = "toneIdle" /\ (b.media = "none" \/ IdleTimeout) /\ Becomes(FetchTone(b))
ToneFetched == b.at = "toneFetch" /\ Becomes(PlayTone(b))
ToneUnplayable == b.at = "toneFetch" /\ Becomes(ToneOver(b))
ToneDone == b.at = "tone" /\ b.done /\ Becomes(ToneOver(b))
ToneTimeout == b.at = "tone" /\ Becomes(ToneOver([b EXCEPT !.media = "none"]))

PlaybackDone == b.at = "playback" /\ b.done /\ Becomes(PlaybackOver(b))

\* Five minutes are over.
PlaybackTimeout ==
    /\ b.at = "playback" /\ b.media \notin Replies
    /\ Becomes(PlaybackOver(IF b.fetch # "none" THEN CancelTts(b, TRUE) ELSE b))

ReplyIdle == b.at = "replyIdle" /\ (b.media = "none" \/ IdleTimeout) /\ Becomes(ReplyOver(b))
Settled == b.at = "settle" /\ Becomes(TurnOver(b))
BackedOff == b.at = "backoff" /\ Becomes(StartTurn(b))

SessionStep ==
    \/ SessionBegins \/ ToneIdle \/ ToneFetched \/ ToneUnplayable \/ ToneDone \/ ToneTimeout
    \/ PlaybackDone \/ PlaybackTimeout \/ ReplyIdle \/ Settled \/ BackedOff
-----------------------------------------------------------------------------
(* The pipeline, which is Home Assistant's, and _on_pipeline_event(). *)

Running(stages) == b.at = "pipeline" /\ b.stage \in stages

RunStart ==
    /\ Running({"run"})
    /\ \E token \in BOOLEAN :
         Becomes([b EXCEPT !.runToken = token, !.stage = IF b.turn = 0 THEN "intent" ELSE "stt"])

\* ... and _start_processing_cue()
SttEnd ==
    /\ Running({"stt"})
    /\ Becomes([b EXCEPT !.stage = "intent",
                         !.cue = IF opt.cue /\ @ = "off" THEN "fetch" ELSE @])

\* The agent calls the Hang Up tool: request_hangup_after_turn().
HangupTool == Running({"intent"}) /\ opt.hangupTool /\ Becomes([b EXCEPT !.hangup = TRUE])

\* The answer is spoken while it is still being written.
Streams ==
    /\ Running({"intent"}) /\ b.runToken
    /\ \E known \in BOOLEAN : Becomes(BeginTts(b, known))

IntentEnd ==
    /\ Running({"intent"})
    /\ \E more \in BOOLEAN : Becomes([b EXCEPT !.stage = "tts", !.continue = more])

TtsEnd ==
    /\ Running({"tts"})
    /\ \E known \in BOOLEAN : Becomes([BeginTts(b, known) EXCEPT !.stage = "end"])

PipelineError ==
    /\ Running({"stt", "intent", "tts"})
    /\ \E error \in {"error"} \cup (IF b.stage = "stt" THEN {"silent"} ELSE {}) :
         Becomes([AbortTts(b) EXCEPT !.stage = "end", !.error = error])

PipelineEnds ==
    /\ Running({"end"})
    /\ Becomes(WaitPlaybackDone(IF b.turn = 0 THEN b ELSE Counted(RunOver(b))))

PipelineRaises ==
    /\ b.at = "pipeline"
    /\ Becomes(EndSession([IF b.turn = 0 THEN b ELSE RunOver(b) EXCEPT !.raised = TRUE]))

PipelineStep ==
    RunStart \/ SttEnd \/ IntentEnd \/ TtsEnd \/ PipelineError \/ PipelineEnds
-----------------------------------------------------------------------------
(* The tasks of the reply and of the cue. *)

FirstChunk ==
    /\ b.fetch = "first"
    /\ LET handover == b.cue = "played"
           ready == InterruptMedia(StopCue(b, ~handover))
       IN Becomes(IF handover \/ ready.media = "none" THEN PlayReply(ready, handover)
                  ELSE [ready EXCEPT !.fetch = "idle"])

\* The reply is empty, or cannot be fetched.
NoReply == b.fetch # "none" /\ Becomes([b EXCEPT !.fetch = "none", !.done = TRUE])

ReplyMayPlay ==
    b.fetch = "idle" /\ (b.media = "none" \/ IdleTimeout) /\ Becomes(PlayReply(b, FALSE))

\* The rest of _run_processing_cue()
CueReady ==
    /\ b.cue = "fetch"
    /\ Becomes(IF b.media = "none" THEN [b EXCEPT !.cue = "played", !.media = "cue"]
               ELSE [b EXCEPT !.cue = "skipped"])

CueFails == b.cue = "fetch" /\ Becomes([b EXCEPT !.cue = "skipped"])

TaskStep == FirstChunk \/ NoReply \/ ReplyMayPlay \/ CueReady \/ CueFails
-----------------------------------------------------------------------------
(* The client and its other users. *)

\* Mutant: only the end of a tone is reported to who waits for a tone.
OwnEndOnly(s) == [s EXCEPT !.media = "none", !.done = @ \/ (s.wait = "tone" /\ s.media = "tone")]

\* on_playback_done(), for the end of a source or for its failure
SourceEnds(s) == [s EXCEPT !.media = "none", !.done = @ \/ s.wait # "none"]

MediaEnds == b.media # "none" /\ Becomes(SourceEnds(b))

\* The first frame of a reply ends the hand-over: _end_cue_handover().
ReplyStarts == b.media = "fill" /\ Becomes([b EXCEPT !.media = "reply", !.handover = FALSE])

\* write() hears the caller during a reply: _on_barge_in().
BargeIn ==
    /\ opt.barge /\ b.speaking /\ ~b.listening /\ ~b.capture
    /\ b.cue # "played" /\ ~b.handover
    /\ Becomes([CancelTts(b, TRUE) EXCEPT !.preroll = TRUE, !.capture = TRUE, !.done = TRUE])

\* An automation plays something, or stops what is played.
OtherSource ==
    /\ ~b.closed /\ others < MaxOthers
    /\ others' = others + 1
    /\ \/ b' = [b EXCEPT !.media = "other"]
       \/ b.media # "none" /\ b' = [b EXCEPT !.media = "none", !.silenced = TRUE]
    /\ UNCHANGED opt

\* The call ends, or the service is called again.
Closed == b.running /\ Becomes(Close(b))

AssistNext ==
    \/ SessionStep \/ PipelineStep \/ HangupTool \/ Streams \/ PipelineRaises
    \/ TaskStep \/ MediaEnds \/ ReplyStarts \/ BargeIn \/ OtherSource \/ Closed

\* Timers and tasks run, a run of the pipeline ends, and so does a source.
AssistSpec ==
    /\ AssistInit /\ [][AssistNext]_assistVars
    /\ WF_assistVars(SessionStep) /\ WF_assistVars(PipelineStep)
    /\ WF_assistVars(MediaEnds)
-----------------------------------------------------------------------------
\* Nothing that the bridge plays is heard by speech recognition: by the time the
\* microphone opens, the reply, the tone and the cue are over ("beep echo must not
\* reach STT", write()).  Exception: hasty.
HearsNoEcho ==
    b.listening /\ b.stage \in {"run", "stt"} => b.hasty \/ b.media \notin OwnAudio

\* Nobody waits for the end of a reply that will not be reported: the five minutes
\* in _wait_playback_done() are only for a synthesis that hangs, or for audio that
\* someone else stopped.
WaitIsOwed ==
    b.at = "playback" /\ ~b.done =>
       b.silenced \/ b.fetch # "none" \/ (b.media # "none" /\ b.wait = "tts")

\* The bridge ends the call only when it has said what it had to ("End this phone
\* call after the current Assist reply finishes", llm.py), unless the pipeline
\* raises in the middle of it.
HangupAfterReply == b.cut => b.raised

\* "A scheduled hang-up must not be lost if the session ends first."
\* (_run_session()): it ends the call, or the call or the session was ended by
\* someone else.
HangupKept == b.hangup ~> b.closed
=============================================================================
