------------------------- MODULE MediaSession_proof -------------------------
(***************************************************************************)
(* Proofs about MediaSession, for any number of calls, queued tasks,       *)
(* endpoints and codecs: the records of who has RTP agree, every step is   *)
(* one of OneMedia or changes nothing of it, RTP of the present call       *)
(* carries that call's media, and an ended call leaves nothing on.         *)
(***************************************************************************)
EXTENDS MediaSession, SequenceTheorems, TLAPS

Queued == [kind : {"start", "stop", "stopAll"}, of : Nat]

\* A stop is scheduled by the end of its call, a stopAll by stop().
QueueInv ==
    /\ session \in Nat /\ tasks \in Seq(Queued)
    /\ closing \in {"no", "media", "drain", "done"}
    /\ \A i \in 1..Len(tasks) :
          /\ tasks[i].kind = "stop" => tasks[i].of < session
          /\ tasks[i].kind = "stopAll" => closing # "no"

\* What the head has done and not done in each of its waits.
PhaseInv ==
    /\ phase # "waiting" => tasks # <<>>
    /\ phase = "waiting" => (rtp.open <=> active)
    /\ phase = "bouncing" =>
          Head(tasks).kind = "start" /\ rtp.open /\ active /\ owner < session
    /\ phase = "binding" => Head(tasks).kind = "start" /\ ~rtp.open /\ ~active
    /\ phase = "undoing" => Head(tasks).kind = "start" /\ rtp.open /\ ~active
    /\ phase = "stopping" => Head(tasks).kind # "start" /\ StopConcerns
    /\ phase \in {"waiting", "bouncing", "binding", "undoing", "stopping"}

OwnerInv ==
    /\ active \in BOOLEAN /\ taken \in Nat
    /\ endpoint \in Endpoints \cup {NoEndpoint} /\ codec \in Codecs
    /\ rtp \in [open : BOOLEAN, dest : Endpoints \cup {NoEndpoint}, codec : Codecs]
    /\ owner \in Nat \cup {NoSession}
    /\ active <=> (owner # NoSession)
    /\ active => owner <= session

MediaInv == QueueInv /\ PhaseInv /\ OwnerInv

\* The step is one of OneMedia.
MediaMoves == [Promised!Next]_(Promised!vars)

LEMMA MediaStart == MediaInit => MediaInv /\ Promised!Init
<1>. SUFFICES ASSUME MediaInit PROVE MediaInv /\ Promised!Init
  OBVIOUS
<1>1. QueueInv
  BY DEF MediaInit, QueueInv
<1>2. PhaseInv
  BY DEF MediaInit, PhaseInv
<1>3. OwnerInv
  BY MediaAssumption DEF MediaInit, OwnerInv, MediaAssumption
<1>. QED  BY <1>1, <1>2, <1>3 DEF MediaInit, MediaInv, Promised!Init

-----------------------------------------------------------------------------
(* The queue. *)

\* Tasks are added behind the one that runs.
LEMMA Behind ==
    ASSUME NEW S, NEW s \in Seq(S), NEW t \in Seq(S)
    PROVE  /\ s \o t \in Seq(S) /\ Len(s \o t) = Len(s) + Len(t)
           /\ \A i \in 1..Len(s) : (s \o t)[i] = s[i]
           /\ \A i \in 1..Len(t) : (s \o t)[Len(s) + i] = t[i]
           /\ s # <<>> => s \o t # <<>> /\ Head(s \o t) = Head(s)
OBVIOUS

LEMMA QueueGrows ==
    ASSUME QueueInv, NEW more \in Seq(Queued), tasks' = tasks \o more,
           session' \in Nat, session <= session',
           closing' \in {"no", "media", "drain", "done"}, closing # "no" => closing' # "no",
           \A i \in 1..Len(more) :
              /\ more[i].kind = "stop" => more[i].of < session'
              /\ more[i].kind = "stopAll" => closing' # "no"
    PROVE  QueueInv' /\ (tasks # <<>> => tasks' # <<>> /\ Head(tasks') = Head(tasks))
<1>1. /\ tasks \in Seq(Queued) /\ session \in Nat
      /\ \A i \in 1..Len(tasks) :
            /\ tasks[i].kind = "stop" => tasks[i].of < session
            /\ tasks[i].kind = "stopAll" => closing # "no"
  BY DEF QueueInv
<1>2. /\ tasks' \in Seq(Queued) /\ Len(tasks') = Len(tasks) + Len(more)
      /\ \A i \in 1..Len(tasks) : tasks'[i] = tasks[i]
      /\ \A i \in 1..Len(more) : tasks'[Len(tasks) + i] = more[i]
      /\ tasks # <<>> => tasks' # <<>> /\ Head(tasks') = Head(tasks)
  BY <1>1, Behind
<1>3. ASSUME NEW i \in 1..Len(tasks')
      PROVE  /\ tasks'[i].kind = "stop" => tasks'[i].of < session'
             /\ tasks'[i].kind = "stopAll" => closing' # "no"
  <2>1. CASE i \in 1..Len(tasks)
    <3>1. tasks[i] \in Queued /\ tasks'[i] = tasks[i]
      BY <1>1, <1>2, <2>1
    <3>. QED  BY <1>1, <2>1, <3>1 DEF Queued
  <2>2. CASE i \notin 1..Len(tasks)
    <3>1. i - Len(tasks) \in 1..Len(more) /\ i = Len(tasks) + (i - Len(tasks))
      BY <1>1, <1>2, <2>2
    <3>. QED  BY <1>2, <3>1
  <2>. QED  BY <2>1, <2>2
<1>. QED  BY <1>2, <1>3 DEF QueueInv

\* The head is done, and the next may have the lock.
LEMMA QueueShrinks ==
    ASSUME QueueInv, tasks # <<>>, TaskOver, session' = session
    PROVE  /\ QueueInv'
           /\ phase' = "waiting" /\ (closing # "no") = (closing' # "no")
<1>1. /\ Head(tasks) = tasks[1] /\ tasks' = Tail(tasks) /\ tasks' \in Seq(Queued)
      /\ Len(tasks') = Len(tasks) - 1
      /\ \A i \in 1..Len(tasks') : tasks'[i] = tasks[i + 1] /\ i + 1 \in 1..Len(tasks)
      /\ 1 \in 1..Len(tasks)
  BY DEF QueueInv, TaskOver
<1>2. closing' = closing \/ (closing # "no" /\ closing' = "drain")
  BY <1>1 DEF QueueInv, TaskOver
<1>. QED  BY <1>1, <1>2 DEF QueueInv, TaskOver
-----------------------------------------------------------------------------
(* The call half: it queues tasks and leaves the lock alone. *)

LEMMA QueueKept ==
    ASSUME QueueInv, UNCHANGED <<tasks, session>>,
           closing' \in {"no", "media", "drain", "done"}, closing # "no" => closing' # "no"
    PROVE  QueueInv'
BY DEF QueueInv

LEMMA CallKeeps ==
    ASSUME MediaInv, QueueInv', tasks # <<>> => tasks' # <<>> /\ Head(tasks') = Head(tasks),
           UNCHANGED <<active, owner, phase, taken>>, session <= session',
           endpoint' \in Endpoints \cup {NoEndpoint}, codec' \in Codecs,
           rtp' \in [open : BOOLEAN, dest : Endpoints \cup {NoEndpoint}, codec : Codecs],
           rtp'.open = rtp.open,
           \/ session' = session + 1 /\ closing' = closing
           \/ session' = session /\ (closing' # "no" <=> closing # "no")
           \/ session' = session /\ closing' # "no"
    PROVE  MediaInv' /\ MediaMoves
<1>1. QueueInv /\ PhaseInv /\ OwnerInv /\ session \in Nat /\ session' \in Nat
  BY DEF MediaInv, QueueInv
<1>2. OwnerInv'
  BY <1>1 DEF OwnerInv
<1>3. (StopConcerns <=> StopConcerns') \/ tasks = <<>>
  BY DEF StopConcerns
<1>4. PhaseInv'
  BY <1>1, <1>3, MediaAssumption DEF PhaseInv, OwnerInv, MediaAssumption
<1>5. MediaMoves
  BY DEF MediaMoves, Promised!Next, Promised!EndOfCall, Promised!Stop, Promised!vars
<1>. QED  BY <1>2, <1>4, <1>5 DEF MediaInv

\* What SDP and answers schedule.
LEMMA StartsQueued ==
    ASSUME session \in Nat, NEW more, more = <<>> \/ more = Starts \/ more = Starts \o Starts
    PROVE  more \in Seq(Queued) /\ \A i \in 1..Len(more) : more[i].kind = "start"
<1>1. Starts \in Seq(Queued) /\ Len(Starts) = 1 /\ Starts[1].kind = "start"
  BY DEF Starts, Queued
<1>2. /\ Starts \o Starts \in Seq(Queued) /\ Len(Starts \o Starts) = 2
      /\ (Starts \o Starts)[1] = Starts[1] /\ (Starts \o Starts)[1 + 1] = Starts[1]
  <2>1. /\ Starts \o Starts \in Seq(Queued)
        /\ Len(Starts \o Starts) = Len(Starts) + Len(Starts)
        /\ \A i \in 1..Len(Starts) : (Starts \o Starts)[i] = Starts[i]
        /\ \A i \in 1..Len(Starts) : (Starts \o Starts)[Len(Starts) + i] = Starts[i]
    BY <1>1, Behind
  <2>. QED  BY <1>1, <2>1
<1>3. CASE more = Starts \o Starts
  <2>1. ASSUME NEW i \in 1..Len(more) PROVE more[i].kind = "start"
    <3>1. i = 1 \/ i = 1 + 1
      BY <1>2, <1>3
    <3>. QED  BY <1>1, <1>2, <1>3, <3>1
  <2>. QED  BY <1>2, <1>3, <2>1
<1>4. CASE more = Starts
  BY <1>1, <1>4
<1>5. CASE more = <<>>
  BY <1>5
<1>. QED  BY <1>3, <1>4, <1>5

\* SDP changes the address and the codec, not whether RTP is on; it may schedule starts.
LEMMA SdpKeeps ==
    ASSUME MediaInv, NEW more, more = <<>> \/ more = Starts \/ more = Starts \o Starts,
           tasks' = tasks \o more,
           UNCHANGED <<session, active, owner, phase, taken, stopVars>>,
           endpoint' \in Endpoints \cup {NoEndpoint}, codec' \in Codecs,
           rtp' \in [open : BOOLEAN, dest : Endpoints \cup {NoEndpoint}, codec : Codecs],
           rtp'.open = rtp.open
    PROVE  MediaInv' /\ MediaMoves
<1>1. QueueInv /\ session \in Nat
  BY DEF MediaInv, QueueInv
<1>2. more \in Seq(Queued) /\ \A i \in 1..Len(more) : more[i].kind = "start"
  BY <1>1, StartsQueued
<1>3. closing' \in {"no", "media", "drain", "done"} /\ closing' = closing
  BY <1>1 DEF QueueInv, stopVars
<1>4. QueueInv' /\ (tasks # <<>> => tasks' # <<>> /\ Head(tasks') = Head(tasks))
  BY <1>1, <1>2, <1>3, QueueGrows
<1>. QED  BY <1>1, <1>3, <1>4, CallKeeps

LEMMA SdpApplies ==
    ASSUME MediaInv, NEW e \in Endpoints \cup {NoEndpoint}, NEW c \in Codecs,
           NEW more, more = <<>> \/ more = Starts, AppliesSdp(endpoint, e, c, more),
           UNCHANGED <<session, active, owner, phase, taken, stopVars>>
    PROVE  MediaInv' /\ MediaMoves
<1>1. QueueInv /\ OwnerInv /\ session \in Nat /\ tasks \in Seq(Queued)
  BY DEF MediaInv, QueueInv
<1>2. /\ endpoint' \in Endpoints \cup {NoEndpoint} /\ codec' \in Codecs
      /\ rtp' \in [open : BOOLEAN, dest : Endpoints \cup {NoEndpoint}, codec : Codecs]
      /\ rtp'.open = rtp.open
  BY <1>1 DEF OwnerInv, AppliesSdp
<1>3. PICK late \in {<<>>, Starts} : tasks' = (tasks \o late) \o more
  BY DEF AppliesSdp, LateStart
<1>4. late \o more = <<>> \/ late \o more = Starts \/ late \o more = Starts \o Starts
  <2>1. Starts \in Seq(Queued)
    BY <1>1, StartsQueued
  <2>2. <<>> \o <<>> = <<>> /\ <<>> \o Starts = Starts /\ Starts \o <<>> = Starts
    BY <2>1, ConcatEmptySeq
  <2>3. late = <<>> \/ late = Starts
    BY <1>3
  <2>. QED  BY <2>2, <2>3
<1>5. tasks' = tasks \o (late \o more)
  <2>1. late \in Seq(Queued) /\ more \in Seq(Queued)
    BY <1>1, <1>3, StartsQueued
  <2>. QED  BY <1>1, <1>3, <2>1, ConcatAssociative
<1>. QED  BY <1>2, <1>4, <1>5, SdpKeeps

LEMMA CallMoves == MediaInv /\ CallStep => MediaInv' /\ MediaMoves
<1>. SUFFICES ASSUME MediaInv, CallStep PROVE MediaInv' /\ MediaMoves
  OBVIOUS
<1>1. QueueInv /\ OwnerInv /\ session \in Nat /\ closing \in {"no", "media", "drain", "done"}
  BY DEF MediaInv, QueueInv
<1>2. rtp.dest \in Endpoints \cup {NoEndpoint} /\ rtp.codec \in Codecs
  BY <1>1 DEF OwnerInv
<1>3. CASE Place \/ Acked \/ PlaySource \/ SourceOver \/ StopEnds
  <2>1. UNCHANGED <<tasks, session, active, owner, phase, taken, rtp>>
    BY <1>3 DEF Place, Acked, PlaySource, SourceOver, StopEnds, lockVars, callVars
  <2>2. /\ endpoint' \in Endpoints \cup {NoEndpoint} /\ codec' \in Codecs
        /\ closing' \in {"no", "media", "drain", "done"}
        /\ closing' # "no" <=> closing # "no"
    BY <1>1, <1>3, MediaAssumption
       DEF OwnerInv, Place, Acked, PlaySource, SourceOver, StopEnds, callVars, stopVars,
           MediaAssumption
  <2>3. QueueInv'
    BY <1>1, <2>1, <2>2, QueueKept
  <2>. QED  BY <1>1, <2>1, <2>2, <2>3, CallKeeps DEF OwnerInv
<1>4. CASE Answer
  <2>1. /\ tasks' = tasks \o Starts
        /\ UNCHANGED <<session, active, owner, phase, taken, stopVars, endpoint, codec, rtp>>
    BY <1>4 DEF Answer, lockVars
  <2>. QED  BY <1>1, <2>1, SdpKeeps DEF OwnerInv
<1>5. ASSUME NEW e \in Endpoints \cup {NoEndpoint}, NEW c \in Codecs,
             Answered(e, c) \/ Renegotiated(e, c)
      PROVE  MediaInv' /\ MediaMoves
  <2>1. /\ AppliesSdp(endpoint, e, c, Starts) \/ AppliesSdp(endpoint, e, c, <<>>)
        /\ UNCHANGED <<session, active, owner, phase, taken, stopVars>>
    BY <1>5 DEF Answered, Renegotiated
  <2>. QED  BY <2>1, SdpApplies
<1>6. ASSUME NEW e \in Endpoints \cup {NoEndpoint}, NEW c \in Codecs, NEW auto \in BOOLEAN,
             Invited(e, c, auto)
      PROVE  MediaInv' /\ MediaMoves
  <2>1. PICK more \in {<<>>, Starts} : tasks' = tasks \o more
    BY <1>6 DEF Invited
  <2>2. /\ endpoint' \in Endpoints \cup {NoEndpoint} /\ codec' \in Codecs
        /\ rtp' \in [open : BOOLEAN, dest : Endpoints \cup {NoEndpoint}, codec : Codecs]
        /\ rtp'.open = rtp.open
        /\ UNCHANGED <<session, active, owner, phase, taken, stopVars>>
    BY <1>1, <1>6 DEF OwnerInv, Invited
  <2>. QED  BY <2>1, <2>2, SdpKeeps
<1>7. CASE EndCall
  <2>. DEFINE more == <<[kind |-> "stop", of |-> session]>>
  <2>1. /\ more \in Seq(Queued) /\ Len(more) = 1 /\ more[1].kind = "stop" /\ more[1].of = session
        /\ tasks' = tasks \o more
    BY <1>1, <1>7 DEF EndCall, Queued, QueueInv
  <2>2. /\ UNCHANGED <<active, owner, phase, taken, endpoint, codec, rtp, closing>>
        /\ session' = session + 1
    BY <1>7 DEF EndCall, lockVars, stopVars
  <2>3. QueueInv' /\ (tasks # <<>> => tasks' # <<>> /\ Head(tasks') = Head(tasks))
    <3>. HIDE DEF more
    <3>. QED  BY <1>1, <2>1, <2>2, QueueGrows
  <2>. QED  BY <1>1, <2>2, <2>3, CallKeeps DEF OwnerInv
<1>8. CASE StopBegins
  <2>. DEFINE more == <<[kind |-> "stopAll", of |-> session]>>
  <2>1. /\ more \in Seq(Queued) /\ Len(more) = 1 /\ more[1].kind = "stopAll"
        /\ tasks' = tasks \o more
    BY <1>1, <1>8 DEF StopBegins, Queued, QueueInv
  <2>2. /\ UNCHANGED <<session, active, owner, phase, taken, endpoint, codec, rtp>>
        /\ closing' = "media"
    BY <1>8 DEF StopBegins, lockVars, callVars
  <2>3. QueueInv' /\ (tasks # <<>> => tasks' # <<>> /\ Head(tasks') = Head(tasks))
    <3>. HIDE DEF more
    <3>. QED  BY <1>1, <2>1, <2>2, QueueGrows
  <2>. QED  BY <1>1, <2>2, <2>3, CallKeeps DEF OwnerInv
<1>. QED  BY <1>3, <1>4, <1>5, <1>6, <1>7, <1>8 DEF CallStep
-----------------------------------------------------------------------------
(* The head of the queue. *)

\* The head ends with RTP on or off, as the records say; then whoever had it had been
\* stopped or had ended, or nobody had it.
LEMMA HeadEnds ==
    ASSUME MediaInv, tasks # <<>>, TaskOver, UNCHANGED <<session, endpoint, codec>>,
           taken' \in Nat,
           rtp' \in [open : BOOLEAN, dest : Endpoints \cup {NoEndpoint}, codec : Codecs],
           active' \in BOOLEAN, rtp'.open <=> active',
           \/ UNCHANGED <<active, owner>>
           \/ ~active' /\ owner' = NoSession /\ (owner < session \/ closing # "no")
           \/ owner = NoSession /\ active' /\ owner' = session
    PROVE  MediaInv' /\ MediaMoves
<1>1. QueueInv /\ OwnerInv /\ session \in Nat
  BY DEF MediaInv, QueueInv
<1>2. QueueInv' /\ phase' = "waiting" /\ ((closing # "no") <=> (closing' # "no"))
  BY <1>1, QueueShrinks
<1>3. OwnerInv'
  BY <1>1, MediaAssumption DEF OwnerInv, MediaAssumption
<1>4. PhaseInv'
  BY <1>2 DEF PhaseInv
<1>5. MediaMoves
  BY <1>1, <1>2, MediaAssumption
     DEF MediaMoves, OwnerInv, Promised!Next, Promised!Open, Promised!CloseEnded,
         Promised!CloseAll, Promised!vars, MediaAssumption
<1>. QED  BY <1>2, <1>3, <1>4, <1>5 DEF MediaInv

LEMMA HeadMoves == MediaInv /\ TaskStep => MediaInv' /\ MediaMoves
<1>. SUFFICES ASSUME MediaInv, TaskStep PROVE MediaInv' /\ MediaMoves
  OBVIOUS
<1>1. /\ QueueInv /\ PhaseInv /\ OwnerInv /\ session \in Nat
      /\ owner \in Nat \cup {NoSession} /\ NoSession \notin Nat
      /\ rtp \in [open : BOOLEAN, dest : Endpoints \cup {NoEndpoint}, codec : Codecs]
  BY MediaAssumption DEF MediaInv, QueueInv, OwnerInv, MediaAssumption
<1>2. CASE StartFindsItOn
  <2>1. /\ tasks # <<>> /\ TaskOver /\ UNCHANGED <<session, endpoint, codec, active, owner, taken>>
        /\ phase = "waiting" /\ rtp' = [rtp EXCEPT !.dest = CurrentDest]
    BY <1>2 DEF StartFindsItOn, Runs, callVars
  <2>2. CurrentDest \in Endpoints \cup {NoEndpoint}
    BY <1>1 DEF CurrentDest, OwnerInv
  <2>3. /\ rtp' \in [open : BOOLEAN, dest : Endpoints \cup {NoEndpoint}, codec : Codecs]
        /\ rtp'.open = rtp.open
    BY <1>1, <2>1, <2>2
  <2>. QED  BY <1>1, <2>1, <2>3, HeadEnds DEF OwnerInv, PhaseInv
<1>3. CASE StartBounces
  <2>1. /\ tasks # <<>> /\ Head(tasks).kind = "start" /\ phase = "waiting"
        /\ active /\ owner # session /\ taken' = session /\ phase' = "bouncing"
        /\ UNCHANGED <<session, endpoint, codec, active, owner, rtp, tasks, closing>>
    BY <1>3 DEF StartBounces, Runs, AlreadyOn, callVars, stopVars
  <2>2. owner < session /\ rtp.open
    BY <1>1, <2>1 DEF OwnerInv, PhaseInv
  <2>3. QueueInv' /\ OwnerInv'
    BY <1>1, <2>1, QueueKept DEF QueueInv, OwnerInv
  <2>4. PhaseInv'
    BY <2>1, <2>2 DEF PhaseInv
  <2>. QED  BY <2>1, <2>3, <2>4 DEF MediaInv, MediaMoves, Promised!vars
<1>4. CASE StartAfterBounce \/ StartBegins
  <2>1. /\ tasks # <<>> /\ Head(tasks).kind = "start" /\ BindOrGiveUp
        /\ UNCHANGED <<session, endpoint, codec>> /\ taken' \in Nat
        /\ ~active' /\ owner' = NoSession
    BY <1>1, <1>4 DEF StartAfterBounce, StartBegins, Runs, callVars, OwnerInv
  <2>2. UNCHANGED <<active, owner>> \/ owner < session
    BY <1>1, <1>4 DEF StartAfterBounce, StartBegins, Runs, PhaseInv
  <2>3. active' \in BOOLEAN
    BY <1>1, <1>4 DEF StartAfterBounce, StartBegins, OwnerInv
  <2>4. CASE TaskOver /\ rtp' = [rtp EXCEPT !.open = FALSE]
    BY <1>1, <2>1, <2>2, <2>3, <2>4, HeadEnds
  <2>5. CASE /\ endpoint # NoEndpoint /\ phase' = "binding"
             /\ rtp' = [open |-> FALSE, dest |-> endpoint, codec |-> codec]
             /\ UNCHANGED <<tasks, stopVars>>
    <3>1. QueueInv'
      BY <1>1, <2>1, <2>5, QueueKept DEF QueueInv, stopVars
    <3>2. OwnerInv'
      BY <1>1, <2>1, <2>3, <2>5 DEF OwnerInv
    <3>3. PhaseInv'
      BY <2>1, <2>5 DEF PhaseInv
    <3>4. MediaMoves
      BY <1>1, <2>1, <2>2, <2>5
         DEF MediaMoves, Promised!Next, Promised!CloseEnded, Promised!vars, stopVars
    <3>. QED  BY <3>1, <3>2, <3>3, <3>4 DEF MediaInv
  <2>. QED  BY <2>1, <2>4, <2>5 DEF BindOrGiveUp
<1>5. CASE StartBound
  <2>1. /\ tasks # <<>> /\ TaskOver /\ UNCHANGED <<session, endpoint, codec, taken>>
        /\ phase = "binding" /\ rtp' = [rtp EXCEPT !.open = TRUE, !.dest = CurrentDest]
        /\ active' = TRUE /\ owner' = session
    BY <1>5 DEF StartBound, Runs, callVars
  <2>2. CurrentDest \in Endpoints \cup {NoEndpoint}
    BY <1>1 DEF CurrentDest, OwnerInv
  <2>3. /\ rtp' \in [open : BOOLEAN, dest : Endpoints \cup {NoEndpoint}, codec : Codecs]
        /\ rtp'.open
    BY <1>1, <2>1, <2>2
  <2>4. owner = NoSession /\ taken' \in Nat
    BY <1>1, <2>1 DEF OwnerInv, PhaseInv
  <2>. QED  BY <1>1, <2>1, <2>3, <2>4, HeadEnds
<1>6. CASE StartTooLate
  <2>1. /\ tasks # <<>> /\ phase = "binding" /\ phase' = "undoing"
        /\ rtp' = [rtp EXCEPT !.open = TRUE]
        /\ UNCHANGED <<session, endpoint, codec, active, owner, taken, tasks, closing>>
    BY <1>6 DEF StartTooLate, Runs, callVars, stopVars
  <2>2. QueueInv' /\ OwnerInv'
    BY <1>1, <2>1, QueueKept DEF QueueInv, OwnerInv
  <2>3. PhaseInv'
    BY <1>1, <2>1 DEF PhaseInv
  <2>. QED  BY <2>1, <2>2, <2>3 DEF MediaInv, MediaMoves, Promised!vars
<1>7. CASE StartUndone \/ StartRefused
  <2>1. /\ tasks # <<>> /\ TaskOver /\ phase \in {"binding", "undoing"}
        /\ UNCHANGED <<session, endpoint, codec, active, owner, taken>>
    BY <1>7 DEF StartUndone, StartRefused, Runs, callVars
  <2>2. rtp' \in [open : BOOLEAN, dest : Endpoints \cup {NoEndpoint}, codec : Codecs]
        /\ ~rtp'.open
    <3>1. CASE StartUndone
      <4>1. rtp' = [rtp EXCEPT !.open = FALSE]
        BY <3>1 DEF StartUndone, RtpClosed
      <4>. QED  BY <1>1, <4>1
    <3>2. CASE StartRefused
      <4>1. rtp' = rtp /\ phase = "binding"
        BY <3>2 DEF StartRefused, Runs
      <4>. QED  BY <1>1, <4>1 DEF PhaseInv
    <3>. QED  BY <1>7, <3>1, <3>2
  <2>3. ~active
    BY <1>1, <2>1 DEF PhaseInv
  <2>. QED  BY <1>1, <2>1, <2>2, <2>3, HeadEnds DEF OwnerInv
<1>8. CASE StopReturns
  <2>1. /\ tasks # <<>> /\ TaskOver /\ phase = "waiting"
        /\ UNCHANGED <<session, endpoint, codec, active, owner, rtp, taken>>
    BY <1>8 DEF StopReturns, Runs, callVars
  <2>. QED  BY <1>1, <2>1, HeadEnds DEF OwnerInv, PhaseInv
<1>9. ASSUME tasks # <<>>, Head(tasks).kind # "start", StopConcerns
      PROVE  owner = NoSession \/ owner < session \/ closing # "no"
  <2>1. 1 \in 1..Len(tasks) /\ Head(tasks) = tasks[1] /\ tasks[1] \in Queued
    BY <1>1, <1>9 DEF QueueInv
  <2>. QED  BY <1>1, <1>9, <2>1 DEF QueueInv, StopConcerns, Queued
<1>10. CASE StopTakesHold
  <2>1. /\ tasks # <<>> /\ Head(tasks).kind # "start" /\ StopConcerns /\ phase = "waiting"
        /\ UNCHANGED <<session, endpoint, codec, rtp, taken>>
    BY <1>10 DEF StopTakesHold, Runs, callVars
  <2>2. CASE rtp.open
    <3>1. phase' = "stopping" /\ UNCHANGED <<active, owner, tasks, closing>>
      BY <1>10, <2>2 DEF StopTakesHold, stopVars
    <3>2. QueueInv' /\ OwnerInv'
      BY <1>1, <2>1, <3>1, QueueKept DEF QueueInv, OwnerInv
    <3>3. PhaseInv'
      BY <2>1, <2>2, <3>1 DEF PhaseInv, StopConcerns
    <3>. QED  BY <2>1, <3>1, <3>2, <3>3 DEF MediaInv, MediaMoves, Promised!vars
  <2>3. CASE ~rtp.open
    <3>1. active' = FALSE /\ owner' = NoSession /\ TaskOver
      BY <1>10, <2>3 DEF StopTakesHold
    <3>2. UNCHANGED <<active, owner>>
      BY <1>1, <2>1, <2>3, <3>1 DEF PhaseInv, OwnerInv
    <3>. QED  BY <1>1, <2>1, <2>3, <3>1, <3>2, HeadEnds DEF OwnerInv
  <2>. QED  BY <2>2, <2>3
<1>11. CASE StopDone
  <2>1. /\ tasks # <<>> /\ Head(tasks).kind # "start" /\ StopConcerns /\ TaskOver
        /\ rtp' = [rtp EXCEPT !.open = FALSE] /\ active' = FALSE /\ owner' = NoSession
        /\ UNCHANGED <<session, endpoint, codec, taken>>
    BY <1>1, <1>11 DEF StopDone, RtpClosed, PhaseInv, callVars
  <2>2. rtp' \in [open : BOOLEAN, dest : Endpoints \cup {NoEndpoint}, codec : Codecs] /\ ~rtp'.open
    BY <1>1, <2>1
  <2>3. CASE owner = NoSession
    <3>1. UNCHANGED <<active, owner>>
      BY <1>1, <2>1, <2>3 DEF OwnerInv
    <3>. QED  BY <1>1, <2>1, <2>2, <3>1, HeadEnds DEF OwnerInv
  <2>4. CASE owner # NoSession
    BY <1>1, <1>9, <2>1, <2>2, <2>4, HeadEnds DEF OwnerInv
  <2>. QED  BY <2>3, <2>4
<1>. QED
  BY <1>2, <1>3, <1>4, <1>5, <1>6, <1>7, <1>8, <1>10, <1>11 DEF TaskStep

LEMMA MediaStep == MediaInv /\ [MediaNext]_mediaVars => MediaInv' /\ MediaMoves
<1>. SUFFICES ASSUME MediaInv, [MediaNext]_mediaVars PROVE MediaInv' /\ MediaMoves
  OBVIOUS
<1>1. CASE UNCHANGED mediaVars
  <2>1. /\ UNCHANGED <<session, endpoint, codec, active, owner, rtp, phase, taken, tasks, closing>>
    BY <1>1 DEF mediaVars, callVars, lockVars, stopVars
  <2>. QED
    BY <2>1 DEF MediaInv, QueueInv, PhaseInv, OwnerInv, StopConcerns, MediaMoves, Promised!vars
<1>2. CASE MediaNext
  BY <1>2, CallMoves, HeadMoves DEF MediaNext
<1>. QED  BY <1>1, <1>2

\* Between two starts and stops, the transport, _media_active and _media_owner agree
\* on whether RTP is on, whatever was interrupted, refused or overtaken.
THEOREM RecordsAgree == MediaSpec => []SocketMatchesOwner
<1>1. MediaInv => SocketMatchesOwner
  BY DEF MediaInv, PhaseInv, OwnerInv, SocketMatchesOwner, Settled
<1>. QED  BY <1>1, MediaStart, MediaStep, PTL DEF MediaSpec

\* RTP belongs to one call at a time and is not taken from one that is still on: every
\* step of _start_media(), _stop_media_session() and stop() is one of OneMedia, or
\* changes nothing of it.  (That it is given back is liveness, and left to TLC.)
THEOREM MediaImplementsSafety == MediaSpec => Promised!Init /\ [][Promised!Next]_(Promised!vars)
BY MediaStart, MediaStep, PTL DEF MediaSpec, MediaMoves
-----------------------------------------------------------------------------
(* What RTP carries, and what is left of an ended call.  The argument is the order of   *)
(* the queue: the stop of a call is behind all that was scheduled in it and before all  *)
(* that is scheduled after it, so a start that runs in its own session finds the stops  *)
(* of all earlier calls done, and its own still to come.                                *)

\* The stop of session k is queued; no stop of a session before k is.
StopIn(q, k) == \E i \in 1..Len(q) : q[i].kind = "stop" /\ q[i].of = k
NoStopUnder(q, k) == \A i \in 1..Len(q) : q[i].kind = "stop" => k <= q[i].of

\* The stop of a session is the last of its tasks, and stop() is called once.
Ordered(q) ==
    \A i, j \in 1..Len(q) : i < j =>
       /\ q[i].of <= q[j].of
       /\ q[i].kind = "stop" => q[i].of < q[j].of
       /\ ~(q[i].kind = "stopAll" /\ q[j].kind = "stopAll")

OrderInv ==
    /\ Ordered(tasks)
    /\ \A i \in 1..Len(tasks) :
          /\ tasks[i].of <= session
          /\ tasks[i].kind = "stopAll" => closing = "media"
          /\ tasks[i].kind = "start" /\ tasks[i].of = session => line # "idle" \/ closing = "done"

\* _start_media() runs for the session it took, and RTP is not open for it yet.
Starting == phase \in {"bouncing", "binding"}

\* While no start ran out of its session: whoever has RTP, or is about to, still has its
\* stop before it, and once its call is over that stop is queued.
HolderInv ==
    /\ taken \in Nat /\ taken <= session
    /\ ~stray =>
         /\ Starting => NoStopUnder(tasks, taken)
         /\ active => NoStopUnder(tasks, owner)
         /\ active /\ owner < session => StopIn(tasks, owner)
         /\ line = "idle" /\ closing # "done" =>
              ~(active /\ owner = session) /\ ~(Starting /\ taken = session)
         /\ closing \in {"drain", "done"} => ~active /\ ~Starting

\* The source that plays is of the present call, or of one whose stop is queued.
SourceInv ==
    /\ source \in Nat \cup {NoSession}
    /\ source = session => line # "idle" \/ closing = "done"
    /\ source # NoSession =>
         /\ source <= session
         /\ phase = "stopping" /\ Head(tasks).kind = "stop" => source # Head(tasks).of
         /\ ~stray /\ source < session => StopIn(tasks, source)

\* RTP of the present call follows its SDP.
SdpInv ==
    line # "idle" =>
      /\ active /\ owner = session /\ endpoint # NoEndpoint => rtp.dest = endpoint
      /\ ~stray /\ ((active /\ owner = session) \/ (phase = "binding" /\ taken = session)) =>
           rtp.codec = codec

SilenceInv == OrderInv /\ HolderInv /\ SourceInv /\ SdpInv

\* The queue moves up by one.
LEMMA TailOrdered ==
    ASSUME NEW q \in Seq(Queued), q # <<>>, Ordered(q)
    PROVE  /\ Ordered(Tail(q))
           /\ \A i \in 1..Len(Tail(q)) : i + 1 \in 1..Len(q) /\ Tail(q)[i] = q[i + 1]
           /\ \A k \in Nat :
                 /\ NoStopUnder(q, k) => NoStopUnder(Tail(q), k)
                 /\ StopIn(q, k) => StopIn(Tail(q), k) \/ (Head(q).kind = "stop" /\ Head(q).of = k)
<1>1. /\ Tail(q) \in Seq(Queued) /\ Len(Tail(q)) = Len(q) - 1 /\ Len(q) \in Nat
      /\ \A i \in 1..Len(Tail(q)) : i + 1 \in 1..Len(q) /\ Tail(q)[i] = q[i + 1]
      /\ Head(q) = q[1]
  OBVIOUS
<1>2. Ordered(Tail(q))
  BY <1>1 DEF Ordered
<1>3. ASSUME NEW k \in Nat, NoStopUnder(q, k) PROVE NoStopUnder(Tail(q), k)
  BY <1>1, <1>3 DEF NoStopUnder
<1>4. ASSUME NEW k \in Nat, StopIn(q, k)
      PROVE  StopIn(Tail(q), k) \/ (Head(q).kind = "stop" /\ Head(q).of = k)
  <2>1. PICK i \in 1..Len(q) : q[i].kind = "stop" /\ q[i].of = k
    BY <1>4 DEF StopIn
  <2>2. CASE i = 1
    BY <1>1, <2>1, <2>2
  <2>3. CASE i # 1
    <3>1. i - 1 \in 1..Len(Tail(q)) /\ Tail(q)[i - 1] = q[i]
      <4>1. i - 1 \in 1..Len(Tail(q)) /\ (i - 1) + 1 = i
        BY <1>1, <2>3
      <4>. QED  BY <1>1, <4>1
    <3>. QED  BY <2>1, <3>1 DEF StopIn
  <2>. QED  BY <2>2, <2>3
<1>. QED  BY <1>1, <1>2, <1>3, <1>4

\* Nothing of an earlier session is behind the head, and nothing at all of the session
\* that the head stops.
LEMMA HeadIsFirst ==
    ASSUME NEW q \in Seq(Queued), q # <<>>, Ordered(q)
    PROVE  /\ NoStopUnder(q, Head(q).of)
           /\ \A k \in Nat : StopIn(q, k) => Head(q).of <= k
           /\ Head(q).kind = "stop" => ~StopIn(Tail(q), Head(q).of)
<1>0. \A i \in 1..Len(q) : q[i].of \in Nat
  <2>1. \A i \in 1..Len(q) : q[i] \in Queued
    OBVIOUS
  <2>. QED  BY <2>1 DEF Queued
<1>1. /\ Head(q) = q[1] /\ 1 \in 1..Len(q) /\ Len(q) \in Nat
      /\ Tail(q) \in Seq(Queued) /\ Len(Tail(q)) = Len(q) - 1
      /\ \A i \in 1..Len(Tail(q)) : i + 1 \in 1..Len(q) /\ Tail(q)[i] = q[i + 1]
  OBVIOUS
<1>2. ASSUME NEW i \in 1..Len(q) PROVE Head(q).of <= q[i].of
  BY <1>0, <1>1 DEF Ordered
<1>3. ASSUME Head(q).kind = "stop" PROVE ~StopIn(Tail(q), Head(q).of)
  <2>1. ASSUME NEW i \in 1..Len(Tail(q)) PROVE Head(q).of < Tail(q)[i].of
    BY <1>0, <1>1, <1>3 DEF Ordered
  <2>. QED  BY <1>0, <1>1, <2>1 DEF StopIn
<1>. QED  BY <1>0, <1>1, <1>2, <1>3 DEF NoStopUnder, StopIn

\* What the callbacks of the call half do to the queue: they add what is of the present
\* session, and the end of a session adds its stop.
Extends(more) ==
    /\ more \in Seq(Queued) /\ tasks' = tasks \o more
    /\ UNCHANGED <<active, owner, phase, taken, stray>>
    /\ \A i \in 1..Len(more) : more[i].of = session
    /\ \/ /\ session' = session
          /\ \A i \in 1..Len(more) : more[i].kind = "start" /\ line' # "idle"
          /\ \/ line' # "idle" /\ closing' = closing
             \/ line' = line /\ closing' = closing
             \/ closing \in {"drain", "done"} /\ closing' = "done"
       \/ /\ session' = session + 1
          /\ Len(more) = 1 /\ more[1].kind = "stop"
          /\ closing' = closing
       \/ /\ session' = session
          /\ Len(more) = 1 /\ more[1].kind = "stopAll"
          /\ closing = "no" /\ closing' = "media" /\ line' = line

LEMMA Grown ==
    ASSUME NEW q \in Seq(Queued), NEW more \in Seq(Queued)
    PROVE  /\ q \o more \in Seq(Queued) /\ Len(q \o more) = Len(q) + Len(more)
           /\ \A i \in 1..Len(q) : i \in 1..Len(q \o more) /\ (q \o more)[i] = q[i]
           /\ \A j \in 1..Len(more) :
                 Len(q) + j \in 1..Len(q \o more) /\ (q \o more)[Len(q) + j] = more[j]
           /\ \A i \in 1..Len(q \o more) :
                 i \in 1..Len(q) \/ \E j \in 1..Len(more) : i = Len(q) + j
<1>1. Len(q) \in Nat /\ Len(more) \in Nat
  OBVIOUS
<1>2. /\ q \o more \in Seq(Queued) /\ Len(q \o more) = Len(q) + Len(more)
      /\ \A i \in 1..Len(q) : (q \o more)[i] = q[i]
      /\ \A i \in 1..Len(more) : (q \o more)[Len(q) + i] = more[i]
  BY Behind
<1>3. ASSUME NEW i \in 1..Len(q \o more), i \notin 1..Len(q)
      PROVE  \E j \in 1..Len(more) : i = Len(q) + j
  <2>1. i - Len(q) \in 1..Len(more) /\ i = Len(q) + (i - Len(q))
    BY <1>1, <1>2, <1>3
  <2>. QED  BY <2>1
<1>. QED  BY <1>1, <1>2, <1>3

LEMMA GrownQueue ==
    ASSUME QueueInv, OrderInv, NEW more, Extends(more)
    PROVE  /\ OrderInv'
           /\ \A k \in Nat : k <= session /\ NoStopUnder(tasks, k) => NoStopUnder(tasks', k)
           /\ \A k \in Nat : StopIn(tasks, k) => StopIn(tasks', k)
           /\ session' # session => StopIn(tasks', session)
<1>1. /\ tasks \in Seq(Queued) /\ more \in Seq(Queued) /\ tasks' = tasks \o more
      /\ session \in Nat /\ Len(tasks) \in Nat /\ Len(more) \in Nat
      /\ \A i \in 1..Len(tasks) : tasks[i] \in Queued
  BY DEF QueueInv, Extends
<1>0. \A i \in 1..Len(tasks) : tasks[i].of \in Nat
  BY <1>1 DEF Queued
<1>2. /\ tasks' \in Seq(Queued) /\ Len(tasks') = Len(tasks) + Len(more)
      /\ \A i \in 1..Len(tasks) : i \in 1..Len(tasks') /\ tasks'[i] = tasks[i]
      /\ \A j \in 1..Len(more) :
            Len(tasks) + j \in 1..Len(tasks') /\ tasks'[Len(tasks) + j] = more[j]
      /\ \A i \in 1..Len(tasks') :
            i \in 1..Len(tasks) \/ \E j \in 1..Len(more) : i = Len(tasks) + j
  BY <1>1, Grown
<1>3. Ordered(tasks')
  <2>1. ASSUME NEW i \in 1..Len(tasks'), NEW j \in 1..Len(tasks'), i < j
        PROVE  /\ tasks'[i].of <= tasks'[j].of
               /\ tasks'[i].kind = "stop" => tasks'[i].of < tasks'[j].of
               /\ ~(tasks'[i].kind = "stopAll" /\ tasks'[j].kind = "stopAll")
    <3>1. CASE j \in 1..Len(tasks)
      <4>1. i \in 1..Len(tasks)
        BY <1>1, <2>1, <3>1
      <4>. QED  BY <1>2, <2>1, <3>1, <4>1 DEF OrderInv, Ordered
    <3>2. CASE i \in 1..Len(tasks) /\ j \notin 1..Len(tasks)
      <4>1. PICK n \in 1..Len(more) : j = Len(tasks) + n
        BY <1>2, <3>2
      <4>2. tasks'[j] = more[n] /\ tasks'[i] = tasks[i]
        BY <1>2, <3>2, <4>1
      <4>3. /\ tasks[i].of <= session /\ more[n].of = session
            /\ tasks[i].kind = "stop" => tasks[i].of < session
            /\ ~(tasks[i].kind = "stopAll" /\ more[n].kind = "stopAll")
        BY <3>2 DEF OrderInv, QueueInv, Extends
      <4>. QED  BY <4>2, <4>3
    <3>3. CASE i \notin 1..Len(tasks)
      <4>1. PICK m \in 1..Len(more) : i = Len(tasks) + m
        BY <1>2, <3>3
      <4>2. j \notin 1..Len(tasks)
        BY <1>1, <2>1, <4>1
      <4>3. PICK n \in 1..Len(more) : j = Len(tasks) + n
        BY <1>2, <4>2
      <4>4. tasks'[i] = more[m] /\ tasks'[j] = more[n]
        BY <1>2, <4>1, <4>3
      <4>5. m < n
        BY <1>1, <2>1, <4>1, <4>3
      <4>6. Len(more) # 1
        BY <1>1, <4>5
      <4>. QED  BY <1>1, <4>4, <4>6 DEF Extends
    <3>. QED  BY <3>1, <3>2, <3>3
  <2>. QED  BY <2>1 DEF Ordered
<1>4. ASSUME NEW i \in 1..Len(tasks')
      PROVE  /\ tasks'[i].of <= session'
             /\ tasks'[i].kind = "stopAll" => closing' = "media"
             /\ tasks'[i].kind = "start" /\ tasks'[i].of = session' =>
                  line' # "idle" \/ closing' = "done"
  <2>1. CASE i \in 1..Len(tasks)
    <3>1. tasks'[i] = tasks[i] /\ tasks[i].of \in Nat
      BY <1>0, <1>2, <2>1
    <3>. QED  BY <1>1, <2>1, <3>1 DEF OrderInv, Extends
  <2>2. CASE i \notin 1..Len(tasks)
    <3>1. PICK n \in 1..Len(more) : i = Len(tasks) + n
      BY <1>2, <2>2
    <3>2. tasks'[i] = more[n]
      BY <1>2, <3>1
    <3>. QED  BY <1>1, <3>2 DEF Extends
  <2>. QED  BY <2>1, <2>2
<1>5. ASSUME NEW k \in Nat, k <= session, NoStopUnder(tasks, k) PROVE NoStopUnder(tasks', k)
  <2>1. ASSUME NEW i \in 1..Len(tasks'), tasks'[i].kind = "stop" PROVE k <= tasks'[i].of
    <3>1. CASE i \in 1..Len(tasks)
      BY <1>2, <1>5, <2>1, <3>1 DEF NoStopUnder
    <3>2. CASE i \notin 1..Len(tasks)
      <4>1. PICK n \in 1..Len(more) : i = Len(tasks) + n
        BY <1>2, <3>2
      <4>. QED  BY <1>2, <1>5, <4>1 DEF Extends
    <3>. QED  BY <3>1, <3>2
  <2>. QED  BY <2>1 DEF NoStopUnder
<1>6. ASSUME NEW k \in Nat, StopIn(tasks, k) PROVE StopIn(tasks', k)
  <2>1. PICK i \in 1..Len(tasks) : tasks[i].kind = "stop" /\ tasks[i].of = k
    BY <1>6 DEF StopIn
  <2>. QED  BY <1>2, <2>1 DEF StopIn
<1>7. ASSUME session' # session PROVE StopIn(tasks', session)
  <2>1. Len(more) = 1 /\ more[1].kind = "stop" /\ more[1].of = session
    BY <1>1, <1>7 DEF Extends
  <2>2. Len(tasks) + 1 \in 1..Len(tasks') /\ tasks'[Len(tasks) + 1] = more[1]
    BY <1>1, <1>2, <2>1
  <2>. QED  BY <2>1, <2>2 DEF StopIn
<1>. QED  BY <1>3, <1>4, <1>5, <1>6, <1>7 DEF OrderInv
-----------------------------------------------------------------------------
\* A callback of the call half adds to the queue as Extends says.
LEMMA CallShape ==
    ASSUME MediaInv, CallStep
    PROVE  \E more : Extends(more)
<1>1. QueueInv /\ session \in Nat /\ tasks \in Seq(Queued)
  BY DEF MediaInv, QueueInv
<1>2. /\ Starts \in Seq(Queued) /\ Len(Starts) = 1
      /\ Starts[1].kind = "start" /\ Starts[1].of = session
      /\ \A i \in 1..Len(Starts) : Starts[i].of = session /\ Starts[i].kind = "start"
  BY <1>1 DEF Starts, Queued
<1>3. /\ tasks \o <<>> = tasks /\ <<>> \in Seq(Queued) /\ Len(<<>>) = 0
  BY <1>1
<1>4. CASE Place \/ Acked \/ PlaySource \/ SourceOver \/ StopEnds
  <2>1. Extends(<<>>)
    BY <1>1, <1>3, <1>4
       DEF Extends, Place, Acked, PlaySource, SourceOver, StopEnds, callVars, lockVars, stopVars
  <2>. QED  BY <2>1
<1>5. CASE Answer
  <2>1. Extends(Starts)
    BY <1>1, <1>2, <1>5 DEF Extends, Answer, lockVars, stopVars
  <2>. QED  BY <2>1
<1>6. ASSUME NEW e, NEW c, Answered(e, c)
      PROVE  \E more : Extends(more)
  <2>1. tasks' = (tasks \o <<>>) \o Starts
    BY <1>6 DEF Answered, AppliesSdp, LateStart
  <2>2. Extends(Starts)
    BY <1>1, <1>2, <1>3, <1>6, <2>1 DEF Extends, Answered, stopVars
  <2>. QED  BY <2>2
<1>7. ASSUME NEW e, NEW c, Renegotiated(e, c)
      PROVE  \E more : Extends(more)
  <2>1. PICK late \in {<<>>, Starts} :
            /\ tasks' = (tasks \o late) \o <<>>
            /\ late # <<>> => line # "idle"
    BY <1>7 DEF Renegotiated, AppliesSdp, LateStart
  <2>2. late \in Seq(Queued) /\ tasks \o late \in Seq(Queued)
    BY <1>1, <1>2, <1>3, <2>1, Behind
  <2>3. tasks' = tasks \o late
    BY <2>1, <2>2, ConcatEmptySeq
  <2>4. /\ line' # "idle" <=> line # "idle"
        /\ line' # "idle" \/ line' = line
        /\ UNCHANGED <<session, active, owner, phase, taken, stray, closing>>
    BY <1>7 DEF Renegotiated, stopVars
  <2>5. \A i \in 1..Len(late) :
           late[i].of = session /\ late[i].kind = "start" /\ line' # "idle"
    <3>1. CASE late = <<>>
      BY <3>1
    <3>2. CASE late = Starts /\ line # "idle"
      BY <1>2, <1>3, <2>4, <3>2
    <3>. QED  BY <2>1, <3>1, <3>2
  <2>. QED  BY <2>2, <2>3, <2>4, <2>5 DEF Extends
<1>8. ASSUME NEW e, NEW c, NEW auto \in BOOLEAN, Invited(e, c, auto)
      PROVE  \E more : Extends(more)
  <2>1. PICK more \in {<<>>, Starts} : tasks' = tasks \o more
    BY <1>8 DEF Invited
  <2>2. line' # "idle" /\ UNCHANGED <<session, active, owner, phase, taken, stray, closing>>
    BY <1>8 DEF Invited, stopVars
  <2>3. /\ more \in Seq(Queued)
        /\ \A i \in 1..Len(more) : more[i].of = session /\ more[i].kind = "start"
    <3>1. CASE more = <<>>
      BY <1>3, <3>1
    <3>2. CASE more = Starts
      BY <1>2, <3>2
    <3>. QED  BY <2>1, <3>1, <3>2
  <2>. QED  BY <2>1, <2>2, <2>3 DEF Extends
<1>9. CASE EndCall
  <2>. DEFINE more == <<[kind |-> "stop", of |-> session]>>
  <2>1. /\ more \in Seq(Queued) /\ Len(more) = 1 /\ more[1].kind = "stop" /\ more[1].of = session
        /\ tasks' = tasks \o more
    BY <1>1, <1>9 DEF EndCall, Queued
  <2>2. /\ UNCHANGED <<active, owner, phase, taken, stray, closing>>
        /\ session' = session + 1
    BY <1>9 DEF EndCall, lockVars, stopVars
  <2>. HIDE DEF more
  <2>. QED  BY <2>1, <2>2 DEF Extends
<1>10. CASE StopBegins
  <2>. DEFINE more == <<[kind |-> "stopAll", of |-> session]>>
  <2>1. /\ more \in Seq(Queued) /\ Len(more) = 1 /\ more[1].kind = "stopAll"
        /\ more[1].of = session /\ tasks' = tasks \o more
    BY <1>1, <1>10 DEF StopBegins, Queued
  <2>2. /\ UNCHANGED <<session, line, active, owner, phase, taken, stray>>
        /\ closing = "no" /\ closing' = "media"
    BY <1>10 DEF StopBegins, lockVars, callVars
  <2>. HIDE DEF more
  <2>3. \A i \in 1..Len(more) : i = 1 /\ more[i].of = session
    BY <2>1
  <2>. QED  BY <2>1, <2>2, <2>3 DEF Extends
<1>. QED  BY <1>4, <1>5, <1>6, <1>7, <1>8, <1>9, <1>10 DEF CallStep

\* While a call goes on, nobody but the queue can take RTP from it; when it ends, its
\* stop is queued.
LEMMA HolderInCalls ==
    ASSUME MediaInv, OrderInv, HolderInv, NEW more, Extends(more)
    PROVE  HolderInv'
<1>1. /\ session \in Nat /\ taken \in Nat /\ taken <= session
      /\ active => owner \in Nat /\ owner <= session
      /\ QueueInv
  BY MediaAssumption DEF MediaInv, QueueInv, OwnerInv, HolderInv, MediaAssumption
<1>2. /\ \A k \in Nat : k <= session /\ NoStopUnder(tasks, k) => NoStopUnder(tasks', k)
      /\ \A k \in Nat : StopIn(tasks, k) => StopIn(tasks', k)
      /\ session' # session => StopIn(tasks', session)
  BY <1>1, GrownQueue
<1>3. /\ UNCHANGED <<active, owner, phase, taken, stray>>
      /\ \/ session' = session /\ (line' # "idle" \/ line' = line \/ closing' = "done")
         \/ session' = session + 1
      /\ closing' # "done" => closing # "done"
      /\ closing' \in {"drain", "done"} => closing \in {"drain", "done"}
  BY DEF Extends
<1>4. /\ taken' \in Nat /\ taken' <= session'
      /\ ~stray' /\ Starting' => NoStopUnder(tasks', taken')
      /\ ~stray' /\ active' => NoStopUnder(tasks', owner')
      /\ ~stray' /\ active' /\ owner' < session' => StopIn(tasks', owner')
  BY <1>1, <1>2, <1>3 DEF HolderInv, Starting
<1>5. ~stray' /\ line' = "idle" /\ closing' # "done" =>
         ~(active' /\ owner' = session') /\ ~(Starting' /\ taken' = session')
  BY <1>1, <1>3 DEF HolderInv, Starting
<1>6. ~stray' /\ closing' \in {"drain", "done"} => ~active' /\ ~Starting'
  BY <1>3 DEF HolderInv, Starting
<1>. QED  BY <1>4, <1>5, <1>6 DEF HolderInv

LEMMA SourceInCalls ==
    ASSUME MediaInv, OrderInv, SourceInv, CallStep, NEW more, Extends(more)
    PROVE  SourceInv'
<1>1. /\ session \in Nat /\ NoSession \notin Nat /\ source \in Nat \cup {NoSession}
      /\ source # NoSession => source <= session
      /\ QueueInv /\ PhaseInv
  BY MediaAssumption DEF MediaInv, QueueInv, SourceInv, MediaAssumption
<1>2. /\ \A k \in Nat : StopIn(tasks, k) => StopIn(tasks', k)
      /\ session' # session => StopIn(tasks', session)
  BY <1>1, GrownQueue
<1>3. /\ UNCHANGED <<phase, stray>>
      /\ \/ session' = session /\ (line' # "idle" \/ line' = line \/ closing' = "done")
         \/ session' = session + 1
      /\ closing' # "done" => closing # "done"
  BY DEF Extends
<1>4. \/ source' = source \/ source' = NoSession
      \/ source' = session /\ line' = "in_call" /\ session' = session
  BY DEF CallStep, Place, Answer, Acked, EndCall, PlaySource, SourceOver, StopBegins,
     StopEnds, Answered, Renegotiated, Invited, AppliesSdp, callVars
<1>5. phase = "stopping" =>
        /\ tasks # <<>> /\ Head(tasks') = Head(tasks)
        /\ Head(tasks).kind = "stop" => Head(tasks).of < session
  <2>1. ASSUME tasks # <<>>
        PROVE  Head(tasks') = Head(tasks) /\ Head(tasks) = tasks[1] /\ 1 \in 1..Len(tasks)
    BY <1>1, <2>1, Behind DEF Extends, QueueInv
  <2>. QED  BY <1>1, <2>1 DEF PhaseInv, QueueInv
<1>6. CASE source' = NoSession
  BY <1>1, <1>3, <1>6 DEF SourceInv
<1>7. CASE source' = source /\ source # NoSession
  BY <1>1, <1>2, <1>3, <1>5, <1>7 DEF SourceInv
<1>8. CASE source' = session /\ line' = "in_call" /\ session' = session
  BY <1>1, <1>3, <1>5, <1>8 DEF SourceInv
<1>. QED  BY <1>4, <1>6, <1>7, <1>8

LEMMA SdpInCalls ==
    ASSUME MediaInv, HolderInv, SdpInv, CallStep
    PROVE  SdpInv'
<1>1. /\ session \in Nat /\ taken \in Nat /\ taken <= session
      /\ active => owner \in Nat /\ owner <= session
      /\ rtp \in [open : BOOLEAN, dest : Endpoints \cup {NoEndpoint}, codec : Codecs]
  BY MediaAssumption DEF MediaInv, QueueInv, OwnerInv, HolderInv, MediaAssumption
<1>2. CASE Place
  BY <1>2 DEF Place, SdpInv, HolderInv, Starting, lockVars
<1>3. ASSUME NEW e \in Endpoints \cup {NoEndpoint}, NEW c \in Codecs,
             Answered(e, c) \/ Renegotiated(e, c)
      PROVE  SdpInv'
  <2>1. PICK more : AppliesSdp(endpoint, e, c, more)
    BY <1>3 DEF Answered, Renegotiated
  <2>2. UNCHANGED <<session, active, owner, phase, taken, stray>> /\ (line' # "idle" => line # "idle")
    BY <1>3 DEF Answered, Renegotiated
  <2>3. /\ endpoint' = IF e = NoEndpoint THEN endpoint ELSE e
        /\ codec' = c
        /\ rtp'.codec = IF c # codec THEN c ELSE rtp.codec
        /\ rtp'.dest = IF active /\ endpoint' # endpoint THEN endpoint' ELSE rtp.dest
    BY <1>1, <2>1 DEF AppliesSdp
  <2>. QED  BY <2>2, <2>3 DEF SdpInv
<1>4. ASSUME NEW e \in Endpoints \cup {NoEndpoint}, NEW c \in Codecs, NEW auto \in BOOLEAN,
             Invited(e, c, auto)
      PROVE  SdpInv'
  <2>1. /\ UNCHANGED <<session, active, owner, phase, taken, stray>>
        /\ line = "idle" /\ closing # "done" /\ endpoint' = e
        /\ rtp'.dest = IF active /\ e # NoEndpoint THEN e ELSE rtp.dest
    BY <1>1, <1>4 DEF Invited, Listening
  <2>. QED  BY <2>1 DEF SdpInv, HolderInv, Starting
<1>5. CASE Answer \/ Acked \/ PlaySource \/ SourceOver \/ StopBegins
  BY <1>5 DEF Answer, Acked, PlaySource, SourceOver, StopBegins, SdpInv, callVars, lockVars
<1>6. CASE EndCall \/ StopEnds
  BY <1>6 DEF EndCall, StopEnds, SdpInv
<1>. QED  BY <1>2, <1>3, <1>4, <1>5, <1>6 DEF CallStep
-----------------------------------------------------------------------------
\* The task that runs: no stop of an earlier session is queued any more, and it is a
\* start of the present session only while its call is on.
LEMMA HeadOfQueue ==
    ASSUME QueueInv, OrderInv, tasks # <<>>
    PROVE  /\ Head(tasks).of \in Nat /\ Head(tasks).of <= session
           /\ NoStopUnder(tasks, Head(tasks).of)
           /\ \A k \in Nat : StopIn(tasks, k) => Head(tasks).of <= k
           /\ \A k \in Nat : NoStopUnder(tasks, k) /\ Head(tasks).kind = "stop" => k <= Head(tasks).of
           /\ Head(tasks).kind = "stop" => Head(tasks).of < session
           /\ Head(tasks).kind = "stopAll" => closing = "media"
           /\ Head(tasks).kind = "start" /\ Head(tasks).of = session =>
                 line # "idle" \/ closing = "done"
<1>1. /\ tasks \in Seq(Queued) /\ Ordered(tasks)
      /\ 1 \in 1..Len(tasks) /\ Head(tasks) = tasks[1] /\ tasks[1] \in Queued
  BY DEF QueueInv, OrderInv
<1>2. /\ NoStopUnder(tasks, Head(tasks).of)
      /\ \A k \in Nat : StopIn(tasks, k) => Head(tasks).of <= k
  BY <1>1, HeadIsFirst
<1>3. Head(tasks).of \in Nat
  BY <1>1 DEF Queued
<1>. QED  BY <1>1, <1>2, <1>3 DEF OrderInv, QueueInv, NoStopUnder

\* The queue moves up, and stop() goes on when its own task is done.
LEMMA HeadGone ==
    ASSUME QueueInv, OrderInv, tasks # <<>>, TaskOver, UNCHANGED <<session, line>>
    PROVE  /\ OrderInv' /\ phase' = "waiting"
           /\ \A k \in Nat : NoStopUnder(tasks, k) => NoStopUnder(tasks', k)
           /\ \A k \in Nat :
                 StopIn(tasks, k) =>
                    StopIn(tasks', k) \/ (Head(tasks).kind = "stop" /\ Head(tasks).of = k)
           /\ IF Head(tasks).kind = "stopAll"
              THEN closing = "media" /\ closing' = "drain"
              ELSE closing' = closing
<1>1. /\ tasks \in Seq(Queued) /\ Ordered(tasks) /\ tasks' = Tail(tasks) /\ phase' = "waiting"
      /\ 1 \in 1..Len(tasks) /\ Head(tasks) = tasks[1]
  BY DEF QueueInv, OrderInv, TaskOver
<1>2. /\ Ordered(tasks')
      /\ \A i \in 1..Len(tasks') : i + 1 \in 1..Len(tasks) /\ tasks'[i] = tasks[i + 1]
      /\ \A k \in Nat :
            /\ NoStopUnder(tasks, k) => NoStopUnder(tasks', k)
            /\ StopIn(tasks, k) =>
                  StopIn(tasks', k) \/ (Head(tasks).kind = "stop" /\ Head(tasks).of = k)
  BY <1>1, TailOrdered
<1>3. IF Head(tasks).kind = "stopAll"
      THEN closing = "media" /\ closing' = "drain"
      ELSE closing' = closing
  BY HeadOfQueue DEF TaskOver
<1>4. ASSUME NEW i \in 1..Len(tasks')
      PROVE  /\ tasks'[i].of <= session'
             /\ tasks'[i].kind = "stopAll" => closing' = "media"
             /\ tasks'[i].kind = "start" /\ tasks'[i].of = session' =>
                  line' # "idle" \/ closing' = "done"
  <2>1. i + 1 \in 1..Len(tasks) /\ tasks'[i] = tasks[i + 1]
    BY <1>2
  <2>2. 1 < i + 1
    OBVIOUS
  <2>3. ~(Head(tasks).kind = "stopAll" /\ tasks'[i].kind = "stopAll")
    BY <1>1, <2>1, <2>2 DEF Ordered
  <2>4. /\ tasks'[i].of <= session
        /\ tasks'[i].kind = "stopAll" => closing = "media"
        /\ tasks'[i].kind = "start" /\ tasks'[i].of = session => line # "idle" \/ closing = "done"
    BY <2>1 DEF OrderInv
  <2>. QED  BY <1>3, <2>3, <2>4
<1>. QED  BY <1>1, <1>2, <1>3, <1>4 DEF OrderInv

\* A stop that returns because another session has RTP: a stray start gave it that.
LEMMA StopReturnsStray ==
    ASSUME MediaInv, OrderInv, HolderInv, StopReturns
    PROVE  stray
<1>1. /\ tasks # <<>> /\ Head(tasks).kind = "stop"
      /\ owner # NoSession /\ owner # Head(tasks).of
  BY DEF StopReturns, Runs, StopConcerns
<1>2. active /\ owner \in Nat /\ session \in Nat /\ QueueInv /\ owner <= session
  BY <1>1 DEF MediaInv, OwnerInv, QueueInv
<1>3. /\ Head(tasks).of \in Nat /\ Head(tasks).of < session
      /\ StopIn(tasks, owner) => Head(tasks).of <= owner
      /\ NoStopUnder(tasks, owner) => owner <= Head(tasks).of
  BY <1>1, <1>2, HeadOfQueue
<1>4. CASE ~stray
  <2>1. owner <= Head(tasks).of
    BY <1>2, <1>3, <1>4 DEF HolderInv
  <2>2. owner < session
    BY <1>2, <1>3, <2>1
  <2>3. Head(tasks).of <= owner
    BY <1>2, <1>3, <1>4, <2>2 DEF HolderInv
  <2>. QED  BY <1>1, <1>2, <1>3, <2>1, <2>3
<1>. QED  BY <1>4

\* What a step of the head is to the queue.
LEMMA HeadShape ==
    ASSUME MediaInv, OrderInv, TaskStep
    PROVE  /\ tasks # <<>> /\ UNCHANGED <<session, line, endpoint, codec>>
           /\ stray => stray'
           /\ TaskOver \/ UNCHANGED <<tasks, closing>>
           /\ OrderInv'
           /\ closing' = "done" <=> closing = "done"
<1>1. QueueInv /\ PhaseInv
  BY DEF MediaInv
<1>2. tasks # <<>>
  BY <1>1 DEF TaskStep, StartFindsItOn, StartBounces, StartAfterBounce, StartBegins, StartBound,
     StartTooLate, StartUndone, StartRefused, StopReturns, StopTakesHold, StopDone, Runs, PhaseInv
<1>3. /\ UNCHANGED <<session, line, endpoint, codec>>
      /\ stray => stray'
  <2>1. UNCHANGED callVars /\ (IsStray(session) \/ UNCHANGED stray)
    BY DEF TaskStep, StartFindsItOn, StartBounces, StartAfterBounce, StartBegins, StartBound,
       StartTooLate, StartUndone, StartRefused, StopReturns, StopTakesHold, StopDone
  <2>2. stray => stray'
    BY <2>1, Zenon DEF IsStray
  <2>. QED  BY <2>1, <2>2 DEF callVars
<1>4. TaskOver \/ UNCHANGED <<tasks, closing>>
  BY DEF TaskStep, StartFindsItOn, StartBounces, StartAfterBounce, StartBegins, StartBound,
     StartTooLate, StartUndone, StartRefused, StopReturns, StopTakesHold, StopDone,
     BindOrGiveUp, stopVars
<1>5. CASE TaskOver
  BY <1>1, <1>2, <1>3, <1>5, HeadGone
<1>6. CASE UNCHANGED <<tasks, closing>>
  BY <1>2, <1>3, <1>4, <1>6 DEF OrderInv, Ordered
<1>. QED  BY <1>2, <1>3, <1>4, <1>5, <1>6

\* A start runs in its own session, before the stop of it, or it is a stray one.
LEMMA HolderInHead ==
    ASSUME MediaInv, OrderInv, HolderInv, TaskStep
    PROVE  HolderInv'
<1>1. /\ session \in Nat /\ taken \in Nat /\ taken <= session
      /\ active \in BOOLEAN
      /\ active => owner \in Nat /\ owner <= session
      /\ QueueInv /\ PhaseInv /\ NoSession \notin Nat
  BY MediaAssumption DEF MediaInv, QueueInv, OwnerInv, HolderInv, MediaAssumption
<1>2. tasks # <<>> /\ UNCHANGED <<session, line>> /\ (stray => stray')
  BY HeadShape
<1>3. /\ NoStopUnder(tasks, Head(tasks).of)
      /\ Head(tasks).kind = "start" /\ Head(tasks).of = session => line # "idle" \/ closing = "done"
  BY <1>1, <1>2, HeadOfQueue
<1>4. TaskOver =>
        /\ phase' = "waiting"
        /\ \A k \in Nat : NoStopUnder(tasks, k) => NoStopUnder(tasks', k)
        /\ \A k \in Nat :
              StopIn(tasks, k) =>
                 StopIn(tasks', k) \/ (Head(tasks).kind = "stop" /\ Head(tasks).of = k)
        /\ IF Head(tasks).kind = "stopAll"
           THEN closing = "media" /\ closing' = "drain"
           ELSE closing' = closing
  BY <1>1, <1>2, HeadGone
<1>5. CASE StartFindsItOn
  <2>1. /\ TaskOver /\ Head(tasks).kind = "start" /\ active /\ owner = session
        /\ UNCHANGED <<active, owner, taken, stray>>
    BY <1>5 DEF StartFindsItOn, Runs, AlreadyOn
  <2>. QED  BY <1>1, <1>2, <1>4, <2>1 DEF HolderInv, Starting
<1>6. CASE StartBounces
  <2>1. /\ Head(tasks).kind = "start" /\ active /\ owner # session /\ taken' = session
        /\ UNCHANGED <<active, owner, tasks, closing>>
        /\ ~stray' => ~stray /\ Head(tasks).of = session /\ closing = "no"
    BY <1>6 DEF StartBounces, Runs, AlreadyOn, IsStray, stopVars
  <2>. QED  BY <1>1, <1>2, <1>3, <2>1 DEF HolderInv, Starting
<1>7. ASSUME BindOrGiveUp, active' = FALSE, Head(tasks).kind = "start"
      PROVE  /\ TaskOver \/ (phase' = "binding" /\ UNCHANGED <<tasks, closing>>)
             /\ closing' = closing
  BY <1>4, <1>7 DEF BindOrGiveUp, stopVars
<1>8. CASE StartAfterBounce
  <2>1. /\ Head(tasks).kind = "start" /\ active' = FALSE /\ BindOrGiveUp /\ Starting
        /\ UNCHANGED <<taken, stray>>
    BY <1>8 DEF StartAfterBounce, Runs, Starting
  <2>2. CASE TaskOver
    BY <1>1, <1>2, <1>4, <2>1, <2>2 DEF HolderInv, Starting
  <2>3. CASE phase' = "binding" /\ UNCHANGED <<tasks, closing>>
    BY <1>1, <1>2, <2>1, <2>3 DEF HolderInv, Starting
  <2>. QED  BY <1>7, <2>1, <2>2, <2>3
<1>9. CASE StartBegins
  <2>1. /\ Head(tasks).kind = "start" /\ active' = FALSE /\ BindOrGiveUp /\ taken' = session
        /\ ~stray' => ~stray /\ Head(tasks).of = session /\ closing = "no"
    BY <1>1, <1>9 DEF StartBegins, Runs, IsStray
  <2>2. CASE TaskOver
    BY <1>1, <1>2, <1>4, <2>1, <2>2 DEF HolderInv, Starting
  <2>3. CASE phase' = "binding" /\ UNCHANGED <<tasks, closing>>
    BY <1>1, <1>2, <1>3, <2>1, <2>3 DEF HolderInv, Starting
  <2>. QED  BY <1>7, <2>1, <2>2, <2>3
<1>10. CASE StartBound
  <2>1. /\ TaskOver /\ Head(tasks).kind = "start" /\ Starting /\ taken = session
        /\ active' = TRUE /\ owner' = taken /\ UNCHANGED <<taken, stray>>
    BY <1>10 DEF StartBound, Runs, Starting
  <2>. QED  BY <1>1, <1>2, <1>4, <2>1 DEF HolderInv, Starting
<1>11. CASE StartTooLate
  <2>1. /\ phase' = "undoing" /\ ~active
        /\ UNCHANGED <<active, owner, taken, tasks, closing, stray>>
    BY <1>1, <1>11 DEF StartTooLate, Runs, stopVars, PhaseInv
  <2>. QED  BY <1>1, <1>2, <2>1 DEF HolderInv, Starting
<1>12. CASE StartUndone \/ StartRefused
  <2>1. /\ TaskOver /\ ~active /\ UNCHANGED <<active, owner, taken, stray>>
    BY <1>1, <1>12 DEF StartUndone, StartRefused, Runs, PhaseInv
  <2>. QED  BY <1>1, <1>2, <1>4, <2>1 DEF HolderInv, Starting
<1>13. CASE StopReturns
  <2>1. UNCHANGED <<taken, stray>>
    BY <1>13 DEF StopReturns
  <2>. QED  BY <1>1, <1>2, <1>13, <2>1, StopReturnsStray DEF HolderInv
<1>14. CASE StopTakesHold
  <2>1. UNCHANGED <<taken, stray>> /\ phase = "waiting"
    BY <1>14 DEF StopTakesHold, Runs
  <2>2. CASE rtp.open
    <3>1. phase' = "stopping" /\ UNCHANGED <<active, owner, tasks, closing>>
      BY <1>14, <2>2 DEF StopTakesHold, stopVars
    <3>. QED  BY <1>1, <1>2, <2>1, <3>1 DEF HolderInv, Starting
  <2>3. CASE ~rtp.open
    <3>1. active' = FALSE /\ TaskOver
      BY <1>14, <2>3 DEF StopTakesHold
    <3>. QED  BY <1>1, <1>2, <1>4, <2>1, <3>1 DEF HolderInv, Starting
  <2>. QED  BY <2>2, <2>3
<1>15. CASE StopDone
  <2>1. active' = FALSE /\ TaskOver /\ UNCHANGED <<taken, stray>>
    BY <1>15 DEF StopDone
  <2>. QED  BY <1>1, <1>2, <1>4, <2>1 DEF HolderInv, Starting
<1>. QED
  BY <1>5, <1>6, <1>8, <1>9, <1>10, <1>11, <1>12, <1>13, <1>14, <1>15 DEF TaskStep

\* A stop silences the source of its session before its task is over.
LEMMA SourceInHead ==
    ASSUME MediaInv, OrderInv, HolderInv, SourceInv, TaskStep
    PROVE  SourceInv'
<1>1. /\ session \in Nat /\ NoSession \notin Nat /\ source \in Nat \cup {NoSession}
      /\ QueueInv /\ PhaseInv
  BY MediaAssumption DEF MediaInv, QueueInv, SourceInv, MediaAssumption
<1>2. /\ tasks # <<>> /\ UNCHANGED <<session, line>> /\ (stray => stray')
      /\ closing' = "done" <=> closing = "done"
  BY HeadShape
<1>3. CASE source' = NoSession
  BY <1>1, <1>2, <1>3 DEF SourceInv
<1>4. ASSUME source' = source, UNCHANGED tasks, phase' # "stopping"
      PROVE  SourceInv'
  BY <1>1, <1>2, <1>4 DEF SourceInv
<1>5. ASSUME source' = source, TaskOver,
             Head(tasks).kind = "stop" /\ source # NoSession => source # Head(tasks).of \/ stray
      PROVE  SourceInv'
  <2>1. /\ phase' = "waiting"
        /\ \A k \in Nat :
              StopIn(tasks, k) =>
                 StopIn(tasks', k) \/ (Head(tasks).kind = "stop" /\ Head(tasks).of = k)
    BY <1>1, <1>2, <1>5, HeadGone
  <2>. QED  BY <1>1, <1>2, <1>5, <2>1 DEF SourceInv
<1>6. CASE StartBounces \/ StopTakesHold
  BY <1>3, <1>6 DEF StartBounces, StopTakesHold
<1>7. CASE StartFindsItOn \/ StartBound \/ StartUndone \/ StartRefused
  BY <1>5, <1>7 DEF StartFindsItOn, StartBound, StartUndone, StartRefused, Runs
<1>8. CASE StartAfterBounce \/ StartBegins
  <2>1. Head(tasks).kind = "start" /\ source' = source /\ BindOrGiveUp
    BY <1>8 DEF StartAfterBounce, StartBegins, Runs
  <2>2. TaskOver \/ (phase' = "binding" /\ UNCHANGED tasks)
    BY <2>1 DEF BindOrGiveUp
  <2>. QED  BY <1>4, <1>5, <2>1, <2>2
<1>9. CASE StartTooLate
  BY <1>4, <1>9 DEF StartTooLate
<1>10. CASE StopReturns
  <2>1. stray
    BY <1>10, StopReturnsStray
  <2>. QED  BY <1>5, <1>10, <2>1 DEF StopReturns
<1>11. CASE StopDone
  <2>1. source' = source /\ TaskOver /\ phase = "stopping"
    BY <1>11 DEF StopDone
  <2>. QED  BY <1>5, <2>1 DEF SourceInv
<1>. QED  BY <1>6, <1>7, <1>8, <1>9, <1>10, <1>11 DEF TaskStep

\* A start of the present session takes the address and the codec of the moment, and
\* the address again once the port is bound.
LEMMA SdpInHead ==
    ASSUME MediaInv, OrderInv, SdpInv, TaskStep
    PROVE  SdpInv'
<1>1. /\ PhaseInv
      /\ rtp \in [open : BOOLEAN, dest : Endpoints \cup {NoEndpoint}, codec : Codecs]
  BY DEF MediaInv, OwnerInv
<1>2. UNCHANGED <<session, line, endpoint, codec>> /\ (stray => stray')
  BY HeadShape
<1>3. TaskOver => phase' = "waiting"
  BY DEF TaskOver
<1>4. CASE StartFindsItOn
  <2>1. TaskOver /\ rtp' = [rtp EXCEPT !.dest = CurrentDest] /\ UNCHANGED <<active, owner, stray>>
    BY <1>4 DEF StartFindsItOn
  <2>2. rtp'.codec = rtp.codec /\ rtp'.dest = CurrentDest
    BY <1>1, <2>1
  <2>. QED  BY <1>2, <1>3, <2>1, <2>2 DEF SdpInv, CurrentDest
<1>5. CASE StartBounces
  BY <1>2, <1>5 DEF StartBounces, SdpInv
<1>6. CASE StartAfterBounce \/ StartBegins
  <2>1. ~active' /\ BindOrGiveUp
    BY <1>6 DEF StartAfterBounce, StartBegins
  <2>2. phase' = "waiting" \/ (phase' = "binding" /\ rtp'.codec = codec)
    BY <1>3, <2>1 DEF BindOrGiveUp
  <2>. QED  BY <1>2, <2>1, <2>2 DEF SdpInv
<1>7. CASE StartBound
  <2>1. /\ phase = "binding" /\ taken = session /\ TaskOver /\ UNCHANGED stray
        /\ rtp' = [rtp EXCEPT !.open = TRUE, !.dest = CurrentDest]
    BY <1>7 DEF StartBound, Runs
  <2>2. rtp'.codec = rtp.codec /\ rtp'.dest = CurrentDest
    BY <1>1, <2>1
  <2>. QED  BY <1>2, <1>3, <2>1, <2>2 DEF SdpInv, CurrentDest
<1>8. CASE StartTooLate
  <2>1. phase' = "undoing" /\ ~active /\ UNCHANGED active
    BY <1>1, <1>8 DEF StartTooLate, Runs, PhaseInv
  <2>. QED  BY <2>1 DEF SdpInv
<1>9. CASE StartUndone \/ StartRefused
  <2>1. TaskOver /\ ~active /\ UNCHANGED active
    BY <1>1, <1>9 DEF StartUndone, StartRefused, Runs, PhaseInv
  <2>. QED  BY <1>3, <2>1 DEF SdpInv
<1>10. CASE StopReturns
  <2>1. TaskOver /\ UNCHANGED <<active, owner, rtp, stray>>
    BY <1>10 DEF StopReturns
  <2>. QED  BY <1>2, <1>3, <2>1 DEF SdpInv
<1>11. CASE StopTakesHold
  <2>1. /\ UNCHANGED <<rtp, stray>>
        /\ \/ phase' = "stopping" /\ UNCHANGED <<active, owner>>
           \/ ~active' /\ TaskOver
    BY <1>11 DEF StopTakesHold
  <2>. QED  BY <1>2, <1>3, <2>1 DEF SdpInv
<1>12. CASE StopDone
  BY <1>3, <1>12 DEF StopDone, SdpInv
<1>. QED
  BY <1>4, <1>5, <1>6, <1>7, <1>8, <1>9, <1>10, <1>11, <1>12 DEF TaskStep

LEMMA SilenceStart == MediaInit => SilenceInv
<1>. SUFFICES ASSUME MediaInit PROVE SilenceInv
  OBVIOUS
<1>1. OrderInv
  BY DEF MediaInit, OrderInv, Ordered
<1>2. HolderInv /\ SdpInv
  BY DEF MediaInit, HolderInv, SdpInv, Starting
<1>3. SourceInv
  BY MediaAssumption DEF MediaInit, SourceInv, MediaAssumption
<1>. QED  BY <1>1, <1>2, <1>3 DEF SilenceInv

LEMMA SilenceStep == MediaInv /\ SilenceInv /\ [MediaNext]_mediaVars => SilenceInv'
<1>. SUFFICES ASSUME MediaInv, SilenceInv, [MediaNext]_mediaVars PROVE SilenceInv'
  OBVIOUS
<1>1. OrderInv /\ HolderInv /\ SourceInv /\ SdpInv /\ QueueInv
  BY DEF SilenceInv, MediaInv
<1>2. CASE UNCHANGED mediaVars
  <2>1. UNCHANGED <<line, session, endpoint, codec, source, active, owner, rtp, phase, taken,
                    tasks, closing, stray>>
    BY <1>2 DEF mediaVars, callVars, lockVars, stopVars
  <2>2. OrderInv' /\ HolderInv'
    BY <1>1, <2>1 DEF OrderInv, HolderInv, Starting
  <2>3. SourceInv' /\ SdpInv'
    BY <1>1, <2>1 DEF SourceInv, SdpInv
  <2>. QED  BY <2>2, <2>3 DEF SilenceInv
<1>3. CASE CallStep
  <2>1. PICK more : Extends(more)
    BY <1>3, CallShape
  <2>2. OrderInv'
    BY <1>1, <2>1, GrownQueue
  <2>3. HolderInv'
    BY <1>1, <2>1, HolderInCalls
  <2>4. SourceInv' /\ SdpInv'
    BY <1>1, <1>3, <2>1, SourceInCalls, SdpInCalls
  <2>. QED  BY <2>2, <2>3, <2>4 DEF SilenceInv
<1>4. CASE TaskStep
  BY <1>1, <1>4, HeadShape, HolderInHead, SourceInHead, SdpInHead DEF SilenceInv
<1>. QED  BY <1>2, <1>3, <1>4 DEF MediaNext

\* What the socket of the present call carries is the present call's: where it sends, in
\* which codec and whose audio, however SDP, hangup and the bind of rtp.start() interleave.
THEOREM MediaOfItsCall == MediaSpec => []MediaOfThisCall
<1>1. MediaInv /\ SilenceInv => MediaOfThisCall
  <2>. SUFFICES ASSUME MediaInv, SilenceInv, active, owner = session, line # "idle"
                PROVE  /\ endpoint # NoEndpoint => rtp.dest = endpoint
                       /\ (rtp.codec = codec /\ source \in {NoSession, session}) \/ stray
    BY DEF MediaOfThisCall
  <2>1. /\ session \in Nat /\ QueueInv /\ OrderInv /\ HolderInv /\ SourceInv /\ SdpInv
        /\ source \in Nat \cup {NoSession}
    BY DEF MediaInv, QueueInv, SilenceInv, SourceInv
  <2>2. ASSUME ~stray, source # NoSession PROVE source = session
    <3>1. NoStopUnder(tasks, session) /\ source \in Nat /\ source <= session
      BY <2>1, <2>2 DEF HolderInv, SourceInv
    <3>2. source < session => StopIn(tasks, source)
      BY <2>1, <2>2 DEF SourceInv
    <3>. QED  BY <2>1, <3>1, <3>2 DEF StopIn, NoStopUnder
  <2>. QED  BY <2>1, <2>2 DEF SdpInv
<1>. QED  BY <1>1, MediaStart, MediaStep, SilenceStart, SilenceStep, PTL DEF MediaSpec

\* Once everything scheduled has run, no RTP and no audio source outlives the call, nor
\* stop(): whatever _end_call() and stop() overtook, unless a start ran out of its session.
THEOREM EndedCallsFallSilent == MediaSpec => []EndedCallIsSilent
<1>1. MediaInv /\ SilenceInv => EndedCallIsSilent
  <2>. SUFFICES ASSUME MediaInv, SilenceInv, tasks = <<>>, line = "idle", ~stray
                PROVE  ~rtp.open /\ (source = NoSession \/ closing = "done")
    BY DEF EndedCallIsSilent
  <2>1. /\ session \in Nat /\ HolderInv /\ SourceInv
        /\ active => owner \in Nat /\ owner <= session
        /\ phase = "waiting" /\ (rtp.open <=> active)
    BY MediaAssumption
       DEF MediaInv, QueueInv, OwnerInv, PhaseInv, SilenceInv, MediaAssumption
  <2>2. \A k \in Nat : ~StopIn(tasks, k)
    BY DEF StopIn
  <2>3. ~active
    BY <2>1, <2>2 DEF HolderInv
  <2>4. source = NoSession \/ closing = "done"
    BY <2>1, <2>2 DEF SourceInv
  <2>. QED  BY <2>1, <2>3, <2>4
<1>. QED  BY <1>1, MediaStart, MediaStep, SilenceStart, SilenceStep, PTL DEF MediaSpec
=============================================================================
