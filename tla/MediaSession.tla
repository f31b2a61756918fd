---------------------------- MODULE MediaSession ----------------------------
(***************************************************************************)
(* Who owns the RTP socket of SipClient: _start_media(),                   *)
(* _stop_media_session(), stop(), and the SDP that may move the peer or    *)
(* change the codec meanwhile.                                             *)
(*                                                                         *)
(* Starts and stops are tasks that queue for _media_lock, which asyncio    *)
(* hands over in order, so `tasks' is a sequence and only its head runs.   *)
(* An action is what the head does between two awaits, or a whole callback *)
(* of the call half, reduced to what it does to media: the early states of *)
(* a placed call are one, and so are idle and registered.                  *)
(* Left out: on_connect_source, which no caller passes; _drain_tasks()     *)
(* giving up on a task, since binding a local port does not block.         *)
(***************************************************************************)
EXTENDS Integers, Sequences

CONSTANTS
    Endpoints,    \* remote RTP addresses
    NoEndpoint,   \* none known: an offerless INVITE, or c=0.0.0.0
    Codecs,
    Fallback,     \* what a call starts with until SDP says otherwise
    Rate,         \* the sample rate of each codec
    NoSession,
    MaxSession,   \* calls in the model
    MaxTasks      \* tasks that may be queued when a call adds another

ASSUME MediaAssumption ==
    /\ NoEndpoint \notin Endpoints /\ Fallback \in Codecs
    /\ NoSession \notin Nat /\ MaxSession \in Nat /\ MaxTasks \in Nat

Sessions == 0..MaxSession

VARIABLES
    line,       \* SipClient.state, see above
    placed,     \* _outbound
    session,    \* _media_session
    endpoint,   \* _remote_rtp_ip, _remote_rtp_port
    codec,      \* _codec
    source,     \* _tx_source_task: the call whose audio it plays
    active,     \* _media_active
    owner,      \* _media_owner
    rtp,        \* RtpSession: [open, dest, codec]
    tasks,      \* who holds and who awaits _media_lock
    phase,      \* what the head of tasks awaits
    taken,      \* the local `session' of the _start_media() that runs
    closing,    \* stop(): "no", "media" (_stop_media), "drain", "done"
    drain,      \* how many tasks _drain_tasks() still waits for
    refused,    \* history: sessions whose port could not be bound
    stray       \* history: a start began in another session than it was
                \* scheduled in, or once stop() was called

callVars == <<line, placed, session, endpoint, codec>>
lockVars == <<active, owner, rtp, phase, taken>>
stopVars == <<closing, drain>>
mediaVars == <<callVars, source, lockVars, tasks, stopVars, refused, stray>>

Task == [kind : {"start", "stop", "stopAll"}, of : Sessions]

MediaTypeOK ==
    /\ line \in {"idle", "inviting", "incoming", "answering", "in_call"}
    /\ session \in Sessions /\ owner \in Sessions \cup {NoSession}
    /\ source \in Sessions \cup {NoSession} /\ taken \in Sessions
    /\ endpoint \in Endpoints \cup {NoEndpoint} /\ codec \in Codecs
    /\ rtp \in [open : BOOLEAN, dest : Endpoints \cup {NoEndpoint}, codec : Codecs]
    /\ tasks \in Seq(Task)
    /\ phase \in {"waiting", "bouncing", "binding", "undoing", "stopping"}
    /\ closing \in {"no", "media", "drain", "done"} /\ drain \in Nat
    /\ refused \subseteq Sessions /\ {placed, active, stray} \subseteq BOOLEAN

MediaInit ==
    /\ line = "idle" /\ placed = FALSE
    /\ session = 0 /\ owner = NoSession /\ source = NoSession /\ taken = 0
    /\ endpoint = NoEndpoint /\ codec = Fallback
    /\ active = FALSE
    /\ rtp = [open |-> FALSE, dest |-> NoEndpoint, codec |-> Fallback]
    /\ tasks = <<>> /\ phase = "waiting"
    /\ closing = "no" /\ drain = 0
    /\ refused = {} /\ stray = FALSE
-----------------------------------------------------------------------------
(* The call half. *)

Starts == <<[kind |-> "start", of |-> session]>>

Listening ==
    /\ closing # "done"
    /\ Len(tasks) <= MaxTasks

\* Mutant: SDP that arrives while media is off does not start it.
NeverStarts == <<>>

\* _sync_media_endpoint(), when RTP is not on: a re-INVITE, ACK or UPDATE of an
\* established call starts it.
LateStart == IF line \in {"answering", "in_call"} THEN Starts ELSE <<>>

\* _apply_remote_sdp() of a body with endpoint e and codec c, then `more' tasks.
\* The previous endpoint is `before'.
AppliesSdp(before, e, c, more) ==
    LET there == IF e = NoEndpoint THEN before ELSE e IN
    /\ endpoint' = there
    /\ codec' = c
    /\ source' = IF Rate[c] # Rate[codec] THEN NoSession ELSE source
    /\ rtp' = [rtp EXCEPT !.codec = IF c # codec THEN c ELSE @,
                          !.dest = IF active /\ there # before THEN there ELSE @]
    /\ tasks' = tasks \o (IF active \/ there = NoEndpoint THEN <<>> ELSE LateStart) \o more

\* call(): _begin_dialog_media()
Place ==
    /\ line = "idle" /\ closing = "no" /\ session < MaxSession
    /\ line' = "inviting" /\ placed' = TRUE
    /\ endpoint' = NoEndpoint /\ codec' = Fallback
    /\ UNCHANGED <<session, source, lockVars, tasks, stopVars, refused, stray>>

\* The first 2xx to our INVITE, with an allowed codec.
Answered(e, c) ==
    /\ line = "inviting" /\ Listening
    /\ line' = "in_call"
    /\ AppliesSdp(endpoint, e, c, Starts)
    /\ UNCHANGED <<placed, session, active, owner, phase, taken, stopVars, refused, stray>>

\* An INVITE that is answered at once (intercom) or rings.  _begin_dialog_media()
\* precedes its SDP, so the codec before it is the fallback.
Invited(e, c, auto) ==
    /\ line = "idle" /\ Listening /\ session < MaxSession
    /\ placed' = FALSE
    /\ line' = IF auto THEN "in_call" ELSE "incoming"
    /\ endpoint' = e /\ codec' = c
    /\ source' = IF Rate[c] # Rate[Fallback] THEN NoSession ELSE source
    /\ rtp' = [rtp EXCEPT !.codec = IF c # Fallback THEN c ELSE @,
                          !.dest = IF active /\ e # NoEndpoint THEN e ELSE @]
    /\ tasks' = tasks \o (IF auto THEN Starts ELSE <<>>)
    /\ UNCHANGED <<session, active, owner, phase, taken, stopVars, refused, stray>>

\* answer()
Answer ==
    /\ line = "incoming" /\ Listening
    /\ line' = "answering"
    /\ tasks' = tasks \o Starts
    /\ UNCHANGED <<placed, session, endpoint, codec, source, lockVars, stopVars, refused, stray>>

\* ACK without a body
Acked ==
    /\ line = "answering" /\ Listening
    /\ line' = "in_call"
    /\ UNCHANGED <<placed, session, endpoint, codec, source, lockVars, tasks, stopVars, refused, stray>>

\* SDP within the call: in the ACK, in a re-INVITE or in an UPDATE; that of an ACK is
\* applied in any state, also after the call, but only a call starts media.
Renegotiated(e, c) ==
    /\ Listening
    /\ line' \in IF line = "answering" THEN {"answering", "in_call"} ELSE {line}
    /\ AppliesSdp(endpoint, e, c, <<>>)
    /\ UNCHANGED <<placed, session, active, owner, phase, taken, stopVars, refused, stray>>

\* _end_call(), from any state of a call, and once more when a final answer to
\* an INVITE is repeated after the call.
EndCall ==
    /\ line # "idle" \/ placed
    /\ Listening /\ session < MaxSession
    /\ line' = "idle"
    /\ session' = session + 1
    /\ tasks' = Append(tasks, [kind |-> "stop", of |-> session])
    /\ UNCHANGED <<placed, endpoint, codec, source, lockVars, stopVars, refused, stray>>

\* play_source()
PlaySource ==
    /\ line = "in_call" /\ closing # "done"
    /\ source # session
    /\ source' = session
    /\ UNCHANGED <<callVars, lockVars, tasks, stopVars, refused, stray>>

\* stop_audio(), or the source ends by itself
SourceOver ==
    /\ source # NoSession
    /\ source' = NoSession
    /\ UNCHANGED <<callVars, lockVars, tasks, stopVars, refused, stray>>

\* stop()
StopBegins ==
    /\ closing = "no"
    /\ closing' = "media"
    /\ tasks' = Append(tasks, [kind |-> "stopAll", of |-> session])
    /\ UNCHANGED <<callVars, source, lockVars, drain, refused, stray>>

\* stop() after _drain_tasks(): the SIP socket is closed.
StopEnds ==
    /\ closing = "drain" /\ drain = 0
    /\ closing' = "done"
    /\ line' = "idle"
    /\ UNCHANGED <<placed, session, endpoint, codec, source, lockVars, tasks, drain, refused, stray>>

CallStep ==
    \/ Place \/ Answer \/ Acked \/ EndCall \/ PlaySource \/ SourceOver
    \/ StopBegins \/ StopEnds
    \/ \E e \in Endpoints \cup {NoEndpoint}, c \in Codecs :
         Answered(e, c) \/ Renegotiated(e, c) \/ \E auto \in BOOLEAN : Invited(e, c, auto)
-----------------------------------------------------------------------------
(* The head of the queue. *)

Runs(kind, ph) ==
    /\ tasks # <<>>
    /\ Head(tasks).kind = kind
    /\ phase = ph

\* The head leaves the lock to the next; stop() goes on to _drain_tasks().
TaskOver ==
    /\ tasks' = Tail(tasks)
    /\ phase' = "waiting"
    /\ IF Head(tasks).kind = "stopAll"
       THEN closing' = "drain" /\ drain' = Len(tasks) - 1
       ELSE closing' = closing /\ drain' = IF drain > 0 THEN drain - 1 ELSE 0

\* rtp.stop() has nothing to wait for when there is no sender task.
RtpClosed == rtp' = [rtp EXCEPT !.open = FALSE]

\* Mutant: the address RTP was bound with stays.
KeptDest == rtp.dest

\* _apply_rtp_dest_if_changed()
CurrentDest == IF endpoint = NoEndpoint THEN rtp.dest ELSE endpoint

\* Either there is no endpoint, or rtp.start() is called, which awaits the bind.
BindOrGiveUp ==
    \/ /\ endpoint = NoEndpoint
       /\ TaskOver
       /\ rtp' = [rtp EXCEPT !.open = FALSE]
    \/ /\ endpoint # NoEndpoint
       /\ phase' = "binding"
       /\ rtp' = [open |-> FALSE, dest |-> endpoint, codec |-> codec]
       /\ UNCHANGED <<tasks, stopVars>>

\* The call that runs has RTP already.
AlreadyOn == active /\ owner = session

\* Not its own session any more, or a client that is being stopped.
IsStray(s) == stray' = (stray \/ Head(tasks).of # s \/ closing # "no")

StartFindsItOn ==
    /\ Runs("start", "waiting") /\ AlreadyOn
    /\ rtp' = [rtp EXCEPT !.dest = CurrentDest]
    /\ TaskOver
    /\ UNCHANGED <<callVars, source, active, owner, taken, refused, stray>>

\* _stop_media_unlocked() of what another call left: awaits the sender task.
StartBounces ==
    /\ Runs("start", "waiting") /\ active /\ ~AlreadyOn
    /\ taken' = session /\ phase' = "bouncing"
    /\ source' = NoSession
    /\ IsStray(session)
    /\ UNCHANGED <<callVars, active, owner, rtp, tasks, stopVars, refused>>

StartAfterBounce ==
    /\ Runs("start", "bouncing")
    /\ active' = FALSE /\ owner' = NoSession
    /\ BindOrGiveUp
    /\ UNCHANGED <<callVars, source, taken, refused, stray>>

StartBegins ==
    /\ Runs("start", "waiting") /\ ~active
    /\ taken' = session
    /\ IsStray(session)
    /\ BindOrGiveUp
    /\ UNCHANGED <<callVars, source, active, owner, refused>>

StartBound ==
    /\ Runs("start", "binding") /\ taken = session
    /\ rtp' = [rtp EXCEPT !.open = TRUE, !.dest = CurrentDest]
    /\ active' = TRUE /\ owner' = taken
    /\ TaskOver
    /\ UNCHANGED <<callVars, source, taken, refused, stray>>

StartTooLate ==
    /\ Runs("start", "binding") /\ taken # session
    /\ rtp' = [rtp EXCEPT !.open = TRUE]
    /\ phase' = "undoing"
    /\ UNCHANGED <<callVars, source, active, owner, taken, tasks, stopVars, refused, stray>>

StartUndone ==
    /\ Runs("start", "undoing")
    /\ RtpClosed /\ TaskOver
    /\ UNCHANGED <<callVars, source, active, owner, taken, refused, stray>>

StartRefused ==
    /\ Runs("start", "binding")
    /\ refused' = refused \cup {taken}
    /\ TaskOver
    /\ UNCHANGED <<callVars, source, active, owner, rtp, taken, stray>>

\* Mutant: a late stop stops whatever is on.
StopsAny == TRUE

\* Mutant: a late stop does nothing unless its session owns the socket.
StopsOwn == owner = Head(tasks).of \/ Head(tasks).kind = "stopAll"

\* A stop of a session that does not own the socket returns.
StopConcerns == owner \in {NoSession, Head(tasks).of} \/ Head(tasks).kind = "stopAll"

StopReturns ==
    /\ Runs("stop", "waiting") /\ ~StopConcerns
    /\ TaskOver
    /\ UNCHANGED <<callVars, source, active, owner, rtp, taken, refused, stray>>

\* _stop_media_unlocked(), up to the wait for the sender task if there is one.
StopTakesHold ==
    /\ \E k \in {"stop", "stopAll"} : Runs(k, "waiting")
    /\ StopConcerns
    /\ source' = NoSession
    /\ IF rtp.open
       THEN phase' = "stopping" /\ UNCHANGED <<active, owner, tasks, stopVars>>
       ELSE active' = FALSE /\ owner' = NoSession /\ TaskOver
    /\ UNCHANGED <<callVars, rtp, taken, refused, stray>>

StopDone ==
    /\ phase = "stopping"
    /\ RtpClosed /\ active' = FALSE /\ owner' = NoSession
    /\ TaskOver
    /\ UNCHANGED <<callVars, source, taken, refused, stray>>

TaskStep ==
    \/ StartFindsItOn \/ StartBounces \/ StartAfterBounce \/ StartBegins \/ StartBound
    \/ StartTooLate \/ StartUndone \/ StartRefused
    \/ StopReturns \/ StopTakesHold \/ StopDone

MediaNext == CallStep \/ TaskStep

\* The event loop runs what is ready, and a bind ends.
MediaSpec == MediaInit /\ [][MediaNext]_mediaVars /\ WF_mediaVars(TaskStep)
-----------------------------------------------------------------------------
Settled == phase = "waiting"

\* When no start or stop is under way, the three records of who has RTP agree
\* (_transport, _media_active, _media_owner).
SocketMatchesOwner == Settled => (rtp.open <=> active) /\ (active <=> (owner # NoSession))

\* What the socket of the present call carries is the present call's: it sends
\* where the last SDP says, in the codec it settled, and audio that was meant for
\* this call, however SDP, hangup and the bind interleave
\* (_apply_rtp_dest_if_changed(), set_codec(), _stop_media_unlocked()).  RTP that
\* a stray start left on keeps its old codec and source.
MediaOfThisCall ==
    Settled /\ active /\ owner = session /\ line # "idle" =>
       /\ endpoint # NoEndpoint => rtp.dest = endpoint
       /\ (rtp.codec = codec /\ source \in {NoSession, session}) \/ stray

\* Once everything scheduled has run, no RTP and no audio source outlives the
\* call, nor stop() (_end_call(), _stop_media_session()).  The exception is a
\* start that was scheduled for a call and ran after its end: it reads the session
\* counter only when it has the lock.
EndedCallIsSilent ==
    tasks = <<>> /\ line = "idle" =>
       (~rtp.open /\ (source = NoSession \/ closing = "done")) \/ stray

\* An established call whose peer is known gets media, unless the port is taken.
EstablishedGetsMedia ==
    \A k \in Sessions :
       (line = "in_call" /\ endpoint # NoEndpoint /\ session = k /\ closing = "no")
         ~> (owner = k \/ session # k \/ k \in refused \/ closing # "no")

Promised == INSTANCE OneMedia WITH
    current <- session,
    media <- owner,
    stopping <- closing # "no"

\* Each call keeps RTP until it ends, and gives it back then: see OneMedia.
ImplementsOneMedia == Promised!Spec
=============================================================================
