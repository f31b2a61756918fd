---------------------------- MODULE AudioSource ----------------------------
(***************************************************************************)
(* What is played into a call: play_source(), stop_audio() and             *)
(* _run_source() of SipClient, and FfmpegAudioSource.run()                 *)
(* (sip_client/audio.py), which decodes through an ffmpeg process.         *)
(*                                                                         *)
(* Each source is a task.  asyncio cancels a task by raising               *)
(* CancelledError where it waits, at its next step, so cancelling is a     *)
(* flag, `asked', and what it does depends on the phase: the place in the  *)
(* code where the task waits.  The PCM, its pacing and the transmit buffer *)
(* it goes to are left out: it is played, or not, as the task runs.        *)
(***************************************************************************)
EXTENDS Integers, FiniteSets

CONSTANTS
    Sources,    \* what is to be played, each once
    Streamed,   \* those fed through stdin by a task of their own
    NoSource,
    MaxCalls    \* calls in the model

ASSUME SourceAssumption ==
    Streamed \subseteq Sources /\ NoSource \notin Sources /\ MaxCalls \in Nat

VARIABLES
    src,         \* each source's task, see SourceOK
    current,     \* _tx_source_task, which a source that has ended stays in
    up,          \* in_call
    calls,       \* calls so far
    stopDue,     \* _stop_media_session() of the call that ended is scheduled
    told,        \* history: completions reported for each source
    stopped,     \* history: sources replaced or stopped while they were live
    swallowed,   \* history: those whose CancelledError was swallowed
    belated,     \* history: those a codec change reported although they had ended
    misfed       \* history: those asked to stop whose feeder raised

callVars == <<up, calls, stopDue>>
history == <<stopped, swallowed, belated, misfed>>
sourceVars == <<src, current, callVars, told, history>>

\* spawn: the task starts ffmpeg; read: stdout; feeder: the feeding task, which
\* was cancelled; exit: two seconds for ffmpeg to exit; reap: its exit status;
\* drain: the transmit buffer.  ffmpeg: closed means that stdout is.  feeder: the
\* feeding task has all the chunks there are, or raised what they raised.
SourceOK == [phase : {"none", "spawn", "read", "feeder", "exit", "reap", "drain", "gone"},
             asked : BOOLEAN, unwinding : BOOLEAN, eof : BOOLEAN,
             ffmpeg : {"none", "runs", "closed", "exited", "failed"},
             feeder : {"none", "feeds", "ended", "failed"}]

SourceTypeOK ==
    /\ src \in [Sources -> SourceOK]
    /\ current \in Sources \cup {NoSource}
    /\ {up, stopDue} \subseteq BOOLEAN /\ calls \in 0..MaxCalls
    /\ told \in [Sources -> Nat]

SourceInit ==
    /\ src = [s \in Sources |-> [phase |-> "none", asked |-> FALSE, unwinding |-> FALSE,
                                 eof |-> FALSE, ffmpeg |-> "none",
                                 feeder |-> "none"]]
    /\ current = NoSource
    /\ up = FALSE /\ calls = 0 /\ stopDue = FALSE
    /\ told = [s \in Sources |-> 0]
    /\ stopped = {} /\ swallowed = {} /\ belated = {} /\ misfed = {}

Live(s) == src[s].phase \notin {"none", "gone"}
-----------------------------------------------------------------------------
(* The client. *)

CurrentLives == current # NoSource /\ Live(current)

\* _cancel_source()
CancelsCurrent(tasks) ==
    src' = IF CurrentLives THEN [tasks EXCEPT ![current].asked = TRUE] ELSE tasks

Recorded == stopped' = IF CurrentLives THEN stopped \cup {current} ELSE stopped

\* play_source()
Play(s) ==
    /\ up /\ src[s].phase = "none"
    /\ CancelsCurrent([src EXCEPT ![s].phase = "spawn"]) /\ Recorded
    /\ current' = s
    /\ UNCHANGED <<callVars, told, swallowed, belated, misfed>>

\* stop_audio()
StopAudio ==
    /\ current # NoSource
    /\ CancelsCurrent(src) /\ Recorded
    /\ current' = NoSource
    /\ UNCHANGED <<callVars, told, swallowed, belated, misfed>>

\* _apply_remote_sdp() changes the sample rate: the source is cancelled, and
\* whoever waits for its end is told.
RateChanges ==
    /\ up
    /\ CancelsCurrent(src)
    /\ current' = NoSource
    /\ IF current = NoSource THEN UNCHANGED <<told, belated>>
       ELSE /\ told' = [told EXCEPT ![current] = @ + 1]
            /\ belated' = IF Live(current) /\ ~src[current].asked THEN belated
                          ELSE belated \cup {current}
    /\ UNCHANGED <<callVars, stopped, swallowed, misfed>>

NewCall ==
    /\ ~up /\ calls < MaxCalls
    /\ up' = TRUE /\ calls' = calls + 1
    /\ UNCHANGED <<src, current, stopDue, told, history>>

\* _end_call()
HangUp ==
    /\ up
    /\ up' = FALSE /\ stopDue' = TRUE
    /\ UNCHANGED <<src, current, calls, told, history>>

\* _stop_media_unlocked()
MediaStops ==
    /\ stopDue
    /\ stopDue' = FALSE
    /\ CancelsCurrent(src) /\ Recorded
    /\ current' = NoSource
    /\ UNCHANGED <<up, calls, told, swallowed, belated, misfed>>

ClientStep ==
    \/ \E s \in Sources : Play(s)
    \/ StopAudio \/ RateChanges \/ NewCall \/ HangUp \/ MediaStops
-----------------------------------------------------------------------------
(* ffmpeg, and what is fed to it. *)

\* Its output ends.
OutputEnds(s) ==
    /\ src[s].ffmpeg = "runs"
    /\ src' = [src EXCEPT ![s].ffmpeg = "closed"]
    /\ UNCHANGED <<current, callVars, told, history>>

\* It exits, well or not.
Exits(s) ==
    /\ src[s].ffmpeg = "closed"
    /\ \E status \in {"exited", "failed"} : src' = [src EXCEPT ![s].ffmpeg = status]
    /\ UNCHANGED <<current, callVars, told, history>>
\* _feed_stdin() while run() reads: the chunks end, or raise what is no broken pipe.
Feeds(s) ==
    /\ src[s].phase = "read" /\ src[s].feeder = "feeds"
    /\ \E result \in {"ended", "failed"} : src' = [src EXCEPT ![s].feeder = result]
    /\ UNCHANGED <<current, callVars, told, history>>
-----------------------------------------------------------------------------
(* The task of a source, when nobody asked it to stop. *)

At(s, phase) == src[s].phase = phase /\ ~src[s].asked

Killed(ffmpeg) == IF ffmpeg \in {"runs", "closed"} THEN "failed" ELSE ffmpeg

\* In the finally of run(): what comes after the feeder is done with.
AfterFeeder(t) ==
    IF t.ffmpeg \in {"runs", "closed"} /\ t.eof THEN [t EXCEPT !.phase = "exit"]
    ELSE [t EXCEPT !.phase = "reap", !.ffmpeg = Killed(@)]

Goes(s, t) ==
    /\ src' = [src EXCEPT ![s] = t]
    /\ UNCHANGED <<current, callVars, stopped, belated>>

Reports(s) == told' = [told EXCEPT ![s] = @ + 1]

\* `await feeder' raises, out of the finally: nobody kills or reaps ffmpeg, a
\* CancelledError is forgotten, and _run_source() reports a playback error.
FeederRaises(s, t) ==
    /\ Goes(s, [t EXCEPT !.phase = "gone"])
    /\ Reports(s)
    /\ misfed' = IF src[s].asked \/ t.unwinding THEN misfed \cup {s} ELSE misfed
    /\ UNCHANGED swallowed

\* The finally of run() begins: the feeder is cancelled and waited for.
Leaves(s, t) ==
    \/ t.feeder = "failed" /\ FeederRaises(s, t)
    \/ /\ t.feeder # "failed"
       /\ Goes(s, IF t.feeder = "feeds" THEN [t EXCEPT !.phase = "feeder"] ELSE AfterFeeder(t))
       /\ UNCHANGED <<told, swallowed, misfed>>

Spawned(s) ==
    /\ At(s, "spawn")
    /\ Goes(s, [src[s] EXCEPT !.phase = "read", !.ffmpeg = "runs",
                              !.feeder = IF s \in Streamed THEN "feeds" ELSE "none"])
    /\ UNCHANGED <<told, swallowed, misfed>>

\* There is no ffmpeg to be started: a playback error.
SpawnFails(s) ==
    /\ At(s, "spawn")
    /\ Goes(s, [src[s] EXCEPT !.phase = "gone"])
    /\ Reports(s)
    /\ UNCHANGED <<swallowed, misfed>>

\* read() returns nothing, for a task that asked for it in the call, or was
\* pacing itself when the call ended.
SeesEnd(s) ==
    /\ At(s, "read") /\ src[s].ffmpeg # "runs"
    /\ \/ Leaves(s, [src[s] EXCEPT !.eof = TRUE])
       \/ ~up /\ Leaves(s, src[s])

\* A chunk lets the task see that the call is over; ffmpeg may never send one.
SeesHangup(s) ==
    /\ At(s, "read") /\ src[s].ffmpeg = "runs"
    /\ ~up
    /\ Leaves(s, src[s])

FeederEnds(s) ==
    /\ At(s, "feeder")
    /\ Goes(s, AfterFeeder(src[s]))
    /\ UNCHANGED <<told, swallowed, misfed>>

\* The chunks answer the cancellation of their feeder with an exception.
FeederFails(s) ==
    /\ src[s].phase = "feeder"
    /\ FeederRaises(s, src[s])

\* Mutant: without the two seconds.
WaitsForExit(s) ==
    /\ At(s, "exit") /\ src[s].ffmpeg # "closed"
    /\ Goes(s, [src[s] EXCEPT !.phase = "reap"])
    /\ UNCHANGED <<told, swallowed, misfed>>

\* ffmpeg has exited, or is killed after two seconds.
ExitWaited(s) ==
    /\ At(s, "exit")
    /\ Goes(s, [src[s] EXCEPT !.phase = "reap", !.ffmpeg = Killed(@)])
    /\ UNCHANGED <<told, swallowed, misfed>>

\* run() returns, raises CancelledError or, of a stream that it read to the end,
\* the failure of ffmpeg, which _run_source() reports.
Reaped(s) ==
    LET fails == src[s].eof /\ src[s].ffmpeg = "failed" IN
    /\ At(s, "reap")
    /\ Goes(s, [src[s] EXCEPT !.phase = IF src[s].unwinding \/ fails THEN "gone" ELSE "drain"])
    /\ told' = [told EXCEPT ![s] = IF fails /\ ~src[s].unwinding THEN @ + 1 ELSE @]
    /\ UNCHANGED <<swallowed, misfed>>

\* What was queued is sent, or the call is over, or ten seconds have passed.
Drained(s) ==
    /\ At(s, "drain")
    /\ Goes(s, [src[s] EXCEPT !.phase = "gone"])
    /\ Reports(s)
    /\ UNCHANGED <<swallowed, misfed>>

(* The same task, when it was asked to stop. *)

\* Mutant: the end of a cancelled source is reported like any other.
CancelReported(s) == Reports(s)

\* A cancelled source says nothing.
CancelSilent(s) == UNCHANGED told

\* CancelledError where the task waits; while run() reads, on through the finally.
Cancelled(s) ==
    LET t == [src[s] EXCEPT !.asked = FALSE, !.unwinding = TRUE] IN
    /\ src[s].asked
    /\ \/ src[s].phase = "read" /\ Leaves(s, t)
       \/ /\ src[s].phase \in {"spawn", "exit", "reap", "drain"}
          /\ Goes(s, [t EXCEPT !.phase = "gone"])
          /\ CancelSilent(s)
          /\ UNCHANGED <<swallowed, misfed>>

\* `except CancelledError: pass' around the wait for the feeder.
Swallows(s) ==
    /\ src[s].asked /\ src[s].phase = "feeder"
    /\ Goes(s, AfterFeeder([src[s] EXCEPT !.asked = FALSE]))
    /\ swallowed' = IF src[s].unwinding THEN swallowed ELSE swallowed \cup {s}
    /\ UNCHANGED <<told, misfed>>

\* What the event loop runs for s once it is ready.
TaskStep(s) ==
    \/ Spawned(s) \/ SpawnFails(s) \/ SeesEnd(s)
    \/ FeederEnds(s) \/ FeederFails(s) \/ ExitWaited(s) \/ Reaped(s) \/ Drained(s)
    \/ Cancelled(s) \/ Swallows(s)

SourceNext ==
    \/ ClientStep
    \/ \E s \in Sources :
         OutputEnds(s) \/ Exits(s) \/ Feeds(s) \/ SeesHangup(s) \/ TaskStep(s)

\* The event loop runs what is ready; nothing is assumed of ffmpeg or the far end.
SourceSpec ==
    /\ SourceInit /\ [][SourceNext]_sourceVars
    /\ WF_sourceVars(MediaStops)
    /\ \A s \in Sources : WF_sourceVars(TaskStep(s))
-----------------------------------------------------------------------------
\* Completions do not say whose they are, and IVR, Assist and automations wait for
\* them: so a source reports one, and one that was replaced or stopped none,
\* whatever it was doing then (_run_source()); a codec change reports for the source
\* it cancels (_apply_remote_sdp()).  Known exceptions: a CancelledError that run() swallows
\* or gives up for what its feeder raised, and a codec change after a source has ended.
OneCompletion ==
    \A s \in Sources :
       \/ s \in swallowed \cup belated \cup misfed
       \/ told[s] <= 1 /\ (s \in stopped => told[s] = 0)

\* A source that is stopped, or whose call is over, ends, even if ffmpeg hangs.
EverySourceEnds ==
    \A s \in Sources : (Live(s) /\ (src[s].asked \/ ~up)) ~> ~Live(s)
=============================================================================
