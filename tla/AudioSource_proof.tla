------------------------- MODULE AudioSource_proof -------------------------
(***************************************************************************)
(* Proofs about AudioSource, for any number of sources and calls: who is   *)
(* told of the end of a source, and how often.                             *)
(***************************************************************************)
EXTENDS AudioSource, TLAPS

Quits(t) == t.asked \/ t.unwinding

\* A source of its own reports its end while it is the one that plays; one that was
\* asked to stop is not the one that plays any more, and ends without a report, unless
\* run() swallowed its CancelledError or its feeder raised.
TaskInv(s) ==
    /\ src[s].phase = "none" =>
         s # current /\ ~Quits(src[s]) /\ told[s] = 0 /\ s \notin stopped
    /\ s = current => ~Quits(src[s]) /\ s \notin stopped /\ (Live(s) => told[s] = 0)
    /\ src[s].phase \in {"spawn", "read", "drain"} => ~src[s].unwinding
    /\ s # current /\ Live(s) => Quits(src[s]) \/ s \in swallowed
    /\ \/ s \in swallowed \cup belated \cup misfed
       \/ told[s] <= 1 /\ (s \in stopped => told[s] = 0)

PlayInv ==
    /\ src \in [Sources -> SourceOK] /\ told \in [Sources -> Nat]
    /\ current \in Sources \cup {NoSource}
    /\ \A s \in Sources : TaskInv(s)

LEMMA PlayStart == SourceInit => PlayInv
<1>. SUFFICES ASSUME SourceInit PROVE PlayInv
  OBVIOUS
<1>1. /\ src \in [Sources -> SourceOK] /\ told \in [Sources -> Nat]
      /\ current = NoSource
  BY DEF SourceInit, SourceOK
<1>2. ASSUME NEW s \in Sources PROVE TaskInv(s)
  <2>1. /\ src[s].phase = "none" /\ ~Quits(src[s])
        /\ told[s] = 0 /\ s \notin stopped /\ s # current
    BY SourceAssumption DEF SourceInit, SourceAssumption, Quits
  <2>. QED  BY <2>1 DEF TaskInv, Live
<1>. QED  BY <1>1, <1>2 DEF PlayInv
-----------------------------------------------------------------------------
(* The client. *)

\* A source that is replaced or stopped is asked to stop, and is not the current one from
\* then on; only a codec change reports it.
LEMMA ClientMoves == PlayInv /\ ClientStep => PlayInv'
<1>. SUFFICES ASSUME PlayInv, ClientStep PROVE PlayInv'
  OBVIOUS
<1>1. /\ src \in [Sources -> SourceOK] /\ told \in [Sources -> Nat]
      /\ current \in Sources \cup {NoSource} /\ NoSource \notin Sources
      /\ \A s \in Sources : src[s] \in SourceOK /\ TaskInv(s)
  BY SourceAssumption DEF PlayInv, SourceAssumption
<1>2. ASSUME NEW s \in Sources
      PROVE  /\ [src[s] EXCEPT !.asked = TRUE] \in SourceOK
             /\ [src[s] EXCEPT !.asked = TRUE].phase = src[s].phase
             /\ [src[s] EXCEPT !.asked = TRUE].unwinding = src[s].unwinding
             /\ [src[s] EXCEPT !.asked = TRUE].asked = TRUE
  <2>1. src[s] \in SourceOK
    BY <1>1
  <2>. QED  BY <2>1 DEF SourceOK
<1>3. ASSUME CancelsCurrent(src), UNCHANGED <<swallowed, misfed>>, current' = NoSource,
             \/ Recorded /\ UNCHANGED <<told, belated>>
             \/ /\ UNCHANGED stopped
                /\ IF current = NoSource THEN UNCHANGED <<told, belated>>
                   ELSE /\ told' = [told EXCEPT ![current] = @ + 1]
                        /\ belated' = IF Live(current) /\ ~src[current].asked THEN belated
                                      ELSE belated \cup {current}
      PROVE  PlayInv'
  <2>1. src' \in [Sources -> SourceOK] /\ told' \in [Sources -> Nat]
    BY <1>1, <1>2, <1>3 DEF CancelsCurrent, CurrentLives
  <2>2. ASSUME NEW s \in Sources, s # current PROVE TaskInv(s)'
    <3>1. /\ src'[s] = src[s] /\ told'[s] = told[s] /\ s # current'
          /\ s \in stopped' <=> s \in stopped
          /\ s \in belated' <=> s \in belated
      BY <1>1, <1>3, <2>2 DEF CancelsCurrent, CurrentLives, Recorded
    <3>. QED  BY <1>1, <1>3, <2>2, <3>1 DEF TaskInv, Live
  <2>3. ASSUME NEW s \in Sources, s = current, Live(s) PROVE TaskInv(s)'
    <3>1. src'[s] = [src[s] EXCEPT !.asked = TRUE]
      BY <1>1, <1>3, <2>3 DEF CancelsCurrent, CurrentLives
    <3>2. told[s] = 0 /\ ~src[s].asked /\ ~src[s].unwinding /\ s \notin stopped
      BY <1>1, <2>3 DEF TaskInv, Quits
    <3>3. \/ told'[s] = 0
          \/ told'[s] = 1 /\ stopped' = stopped
      BY <1>1, <1>3, <2>3, <3>2
    <3>4. Live(s)' /\ s # current' /\ src'[s].asked /\ src'[s].phase # "none" /\ ~src'[s].unwinding
      BY <1>1, <1>2, <1>3, <2>3, <3>1, <3>2 DEF Live
    <3>. QED  BY <3>2, <3>3, <3>4 DEF TaskInv, Quits
  <2>4. ASSUME NEW s \in Sources, s = current, ~Live(s) PROVE TaskInv(s)'
    <3>1. src' = src
      BY <1>3, <2>4 DEF CancelsCurrent, CurrentLives
    <3>2. /\ src[s].phase = "gone" /\ s # current'
      BY <1>1, <1>3, <2>4 DEF TaskInv, Live
    <3>3. \/ stopped' = stopped /\ told' = told /\ belated' = belated
          \/ s \in belated'
      BY <1>1, <1>3, <2>4 DEF Recorded, CurrentLives
    <3>. QED  BY <1>1, <1>3, <3>1, <3>2, <3>3 DEF TaskInv, Live
  <2>. QED  BY <1>1, <1>3, <2>1, <2>2, <2>3, <2>4 DEF PlayInv
<1>4. ASSUME NEW p \in Sources, Play(p) PROVE PlayInv'
  <2>. DEFINE tasks == [src EXCEPT ![p].phase = "spawn"]
  <2>1. /\ src[p].phase = "none" /\ p # current /\ current' = p
        /\ CancelsCurrent(tasks) /\ Recorded /\ UNCHANGED <<told, swallowed, belated, misfed>>
    BY <1>1, <1>4 DEF Play, TaskInv
  <2>2. /\ tasks \in [Sources -> SourceOK]
        /\ tasks[p].phase = "spawn" /\ tasks[p].asked = src[p].asked
        /\ tasks[p].unwinding = src[p].unwinding
        /\ \A s \in Sources : s # p => tasks[s] = src[s]
    BY <1>1 DEF SourceOK
  <2>. HIDE DEF tasks
  <2>3. src' \in [Sources -> SourceOK]
    BY <1>1, <1>2, <2>1, <2>2 DEF CancelsCurrent, CurrentLives
  <2>4. ASSUME NEW s \in Sources, s # current, s # p PROVE TaskInv(s)'
    <3>1. /\ src'[s] = src[s] /\ told'[s] = told[s] /\ s # current'
          /\ s \in stopped' <=> s \in stopped
      BY <1>1, <2>1, <2>2, <2>4 DEF CancelsCurrent, CurrentLives, Recorded
    <3>. QED  BY <1>1, <2>1, <2>4, <3>1 DEF TaskInv, Live
  <2>5. TaskInv(p)'
    <3>1. /\ src'[p] = tasks[p] /\ told'[p] = told[p] /\ p = current'
          /\ p \in stopped' <=> p \in stopped
      BY <1>1, <2>1, <2>2 DEF CancelsCurrent, CurrentLives, Recorded
    <3>. QED  BY <1>1, <2>1, <2>2, <3>1 DEF TaskInv, Live, Quits
  <2>6. ASSUME NEW s \in Sources, s = current, Live(s) PROVE TaskInv(s)'
    <3>1. src'[s] = [src[s] EXCEPT !.asked = TRUE] /\ s # current'
      BY <1>1, <2>1, <2>2, <2>6 DEF CancelsCurrent, CurrentLives
    <3>2. told'[s] = 0 /\ ~src[s].unwinding
      BY <1>1, <2>1, <2>6 DEF TaskInv, Quits
    <3>3. Live(s)' /\ src'[s].asked /\ src'[s].phase # "none" /\ ~src'[s].unwinding
      BY <1>1, <1>2, <2>6, <3>1, <3>2 DEF Live
    <3>. QED  BY <3>1, <3>2, <3>3 DEF TaskInv, Quits
  <2>7. ASSUME NEW s \in Sources, s = current, ~Live(s) PROVE TaskInv(s)'
    <3>1. /\ src'[s] = src[s] /\ told'[s] = told[s] /\ s # current'
          /\ s \in stopped' <=> s \in stopped
      BY <1>1, <2>1, <2>2, <2>7 DEF CancelsCurrent, CurrentLives, Recorded
    <3>. QED  BY <1>1, <2>1, <2>7, <3>1 DEF TaskInv, Live
  <2>. QED  BY <1>1, <2>1, <2>3, <2>4, <2>5, <2>6, <2>7 DEF PlayInv
<1>5. CASE NewCall \/ HangUp
  BY <1>5 DEF NewCall, HangUp, PlayInv, TaskInv, Live, history
<1>6. CASE StopAudio \/ RateChanges \/ MediaStops
  BY <1>3, <1>6 DEF StopAudio, RateChanges, MediaStops
<1>. QED  BY <1>4, <1>5, <1>6 DEF ClientStep
-----------------------------------------------------------------------------
(* The task of a source, and ffmpeg. *)

\* A step of one source is none of the others.
LEMMA Alone ==
    ASSUME PlayInv, NEW s \in Sources, NEW t \in SourceOK, src' = [src EXCEPT ![s] = t],
           UNCHANGED <<current, stopped, belated>>,
           swallowed' = swallowed \/ swallowed' = swallowed \cup {s},
           misfed' = misfed \/ misfed' = misfed \cup {s},
           told' = told \/ told' = [told EXCEPT ![s] = @ + 1],
           src'[s] = t /\ told'[s] \in {told[s], told[s] + 1} => TaskInv(s)'
    PROVE  PlayInv'
<1>1. /\ src' \in [Sources -> SourceOK] /\ told' \in [Sources -> Nat]
      /\ src'[s] = t /\ told'[s] \in {told[s], told[s] + 1}
      /\ \A u \in Sources : u # s => src'[u] = src[u] /\ told'[u] = told[u]
  BY DEF PlayInv
<1>2. ASSUME NEW u \in Sources, u # s PROVE TaskInv(u)'
  <2>1. src'[u] = src[u] /\ told'[u] = told[u] /\ (u \in swallowed' <=> u \in swallowed)
        /\ (u \in misfed' <=> u \in misfed)
    BY <1>1, <1>2
  <2>. QED  BY <1>2, <2>1 DEF PlayInv, TaskInv, Live
<1>. QED  BY <1>1, <1>2 DEF PlayInv

\* The finally of run() changes nothing but where the task waits and whether ffmpeg runs.
LEMMA AfterFeederWell ==
    ASSUME NEW t \in SourceOK
    PROVE  /\ AfterFeeder(t) \in SourceOK /\ AfterFeeder(t).phase \in {"exit", "reap"}
           /\ AfterFeeder(t).asked = t.asked /\ AfterFeeder(t).unwinding = t.unwinding
<1>1. Killed(t.ffmpeg) \in {"none", "runs", "closed", "exited", "failed"}
  BY DEF Killed, SourceOK
<1>2. AfterFeeder(t) = [t EXCEPT !.phase = "exit"]
        \/ AfterFeeder(t) = [t EXCEPT !.phase = "reap", !.ffmpeg = Killed(t.ffmpeg)]
  BY DEF AfterFeeder
<1>. QED  BY <1>1, <1>2 DEF SourceOK

\* ... unless the feeder raises.
LEMMA LeavesWell ==
    ASSUME NEW s \in Sources, NEW t \in SourceOK, Leaves(s, t)
    PROVE  \/ FeederRaises(s, t)
           \/ \E u \in SourceOK :
                /\ Goes(s, u) /\ UNCHANGED <<told, swallowed, misfed>>
                /\ u.phase \in {"feeder", "exit", "reap"}
                /\ u.asked = t.asked /\ u.unwinding = t.unwinding
<1>. DEFINE u == IF t.feeder = "feeds" THEN [t EXCEPT !.phase = "feeder"] ELSE AfterFeeder(t)
<1>1. /\ u \in SourceOK /\ u.phase \in {"feeder", "exit", "reap"}
      /\ u.asked = t.asked /\ u.unwinding = t.unwinding
  BY AfterFeederWell DEF SourceOK
<1>2. \/ FeederRaises(s, t)
      \/ Goes(s, u) /\ UNCHANGED <<told, swallowed, misfed>>
  BY DEF Leaves
<1>. HIDE DEF u
<1>. QED  BY <1>1, <1>2

\* A task that nobody asked to stop goes on, and may report its end when it is over.
LEMMA GoesOn ==
    ASSUME PlayInv, NEW s \in Sources, NEW t \in SourceOK, Goes(s, t),
           UNCHANGED <<swallowed, misfed>>,
           Live(s), ~src[s].asked, ~t.asked, t.unwinding = src[s].unwinding,
           t.phase # "none", t.phase \in {"spawn", "read", "drain"} => ~t.unwinding,
           \/ told' = told
           \/ told' = [told EXCEPT ![s] = @ + 1] /\ t.phase = "gone" /\ ~t.unwinding
    PROVE  PlayInv'
<1>1. /\ src' = [src EXCEPT ![s] = t] /\ UNCHANGED <<current, stopped, belated>>
      /\ TaskInv(s) /\ told[s] \in Nat
  BY DEF Goes, PlayInv
<1>2. told' = told \/ told' = [told EXCEPT ![s] = @ + 1]
  OBVIOUS
<1>3. ASSUME src'[s] = t PROVE TaskInv(s)'
  <2>1. \/ told'[s] = told[s]
        \/ told'[s] = told[s] + 1 /\ t.phase = "gone" /\ ~t.unwinding
    BY DEF PlayInv
  <2>. QED  BY <1>1, <1>3, <2>1 DEF TaskInv, Live, Quits
<1>. QED  BY <1>1, <1>2, <1>3, Alone

\* What a feeder raises is reported, of a source that was asked to stop as well.
LEMMA RaisesWell ==
    ASSUME PlayInv, NEW s \in Sources, NEW t \in SourceOK, FeederRaises(s, t), Live(s),
           t.asked = src[s].asked \/ ~t.asked, src[s].unwinding => t.unwinding,
           t.unwinding => Quits(src[s])
    PROVE  PlayInv'
<1>. DEFINE u == [t EXCEPT !.phase = "gone"]
<1>1. u \in SourceOK /\ u.phase = "gone" /\ u.asked = t.asked /\ u.unwinding = t.unwinding
  BY DEF SourceOK
<1>2. /\ src' = [src EXCEPT ![s] = u] /\ UNCHANGED <<current, stopped, belated, swallowed>>
      /\ told' = [told EXCEPT ![s] = @ + 1]
      /\ misfed' = IF Quits(src[s]) THEN misfed \cup {s} ELSE misfed
      /\ TaskInv(s) /\ told[s] \in Nat
  BY DEF FeederRaises, Goes, Reports, PlayInv, Quits
<1>. HIDE DEF u
<1>3. ASSUME src'[s] = u PROVE TaskInv(s)'
  <2>1. told'[s] = told[s] + 1
    BY <1>2 DEF PlayInv
  <2>2. Quits(u) => Quits(src[s])
    BY <1>1 DEF Quits
  <2>. QED  BY <1>1, <1>2, <1>3, <2>1, <2>2 DEF TaskInv, Live
<1>. QED  BY <1>1, <1>2, <1>3, Alone

LEMMA TaskMoves ==
    ASSUME PlayInv, NEW s \in Sources,
           OutputEnds(s) \/ Exits(s) \/ Feeds(s) \/ SeesHangup(s) \/ TaskStep(s)
    PROVE  PlayInv'
<1>1. /\ src[s] \in SourceOK /\ TaskInv(s) /\ told[s] \in Nat
      /\ Killed(src[s].ffmpeg) \in {"none", "runs", "closed", "exited", "failed"}
  BY DEF PlayInv, SourceOK, Killed
<1>2. CASE OutputEnds(s) \/ Exits(s) \/ Feeds(s)
  <2>1. PICK f \in {"closed", "exited", "failed", src[s].ffmpeg},
             d \in {"ended", "failed", src[s].feeder} :
           src' = [src EXCEPT ![s] = [src[s] EXCEPT !.ffmpeg = f, !.feeder = d]]
    <3>1. CASE OutputEnds(s) \/ Exits(s)
      <4>1. PICK f \in {"closed", "exited", "failed"} : src' = [src EXCEPT ![s].ffmpeg = f]
        BY <3>1 DEF OutputEnds, Exits
      <4>2. [src[s] EXCEPT !.ffmpeg = f] =
              [src[s] EXCEPT !.ffmpeg = f, !.feeder = src[s].feeder]
        BY <1>1 DEF SourceOK
      <4>. QED  BY <4>1, <4>2
    <3>2. CASE Feeds(s)
      <4>1. PICK d \in {"ended", "failed"} : src' = [src EXCEPT ![s].feeder = d]
        BY <3>2 DEF Feeds
      <4>2. [src[s] EXCEPT !.feeder = d] =
              [src[s] EXCEPT !.ffmpeg = src[s].ffmpeg, !.feeder = d]
        BY <1>1 DEF SourceOK
      <4>. QED  BY <4>1, <4>2
    <3>. QED  BY <1>2, <3>1, <3>2
  <2>. DEFINE t == [src[s] EXCEPT !.ffmpeg = f, !.feeder = d]
  <2>2. /\ t \in SourceOK /\ t.phase = src[s].phase /\ t.asked = src[s].asked
        /\ t.unwinding = src[s].unwinding
    BY <1>1, <2>1 DEF SourceOK
  <2>3. /\ src' = [src EXCEPT ![s] = t]
        /\ UNCHANGED <<current, told, stopped, swallowed, belated, misfed>>
    BY <1>2, <2>1 DEF OutputEnds, Exits, Feeds, history
  <2>. HIDE DEF t
  <2>4. ASSUME src'[s] = t PROVE TaskInv(s)'
    BY <1>1, <2>2, <2>3, <2>4 DEF TaskInv, Live, Quits
  <2>. QED  BY <2>2, <2>3, <2>4, Alone
<1>3. CASE Spawned(s)
  <2>. DEFINE t == [src[s] EXCEPT !.phase = "read", !.ffmpeg = "runs",
                                  !.feeder = IF s \in Streamed THEN "feeds" ELSE "none"]
  <2>1. /\ t \in SourceOK /\ t.phase = "read" /\ t.asked = src[s].asked
        /\ t.unwinding = src[s].unwinding
    BY <1>1 DEF SourceOK
  <2>2. /\ Goes(s, t) /\ Live(s) /\ ~src[s].asked /\ UNCHANGED <<told, swallowed, misfed>>
        /\ ~src[s].unwinding
    BY <1>1, <1>3 DEF Spawned, At, Live, TaskInv
  <2>. HIDE DEF t
  <2>. QED  BY <2>1, <2>2, GoesOn
<1>4. CASE SeesEnd(s) \/ SeesHangup(s)
  <2>1. PICK t \in {src[s], [src[s] EXCEPT !.eof = TRUE]} : Leaves(s, t)
    BY <1>4 DEF SeesEnd, SeesHangup
  <2>2. t \in SourceOK /\ t.asked = src[s].asked /\ t.unwinding = src[s].unwinding
    BY <1>1, <2>1 DEF SourceOK
  <2>3. Live(s) /\ ~src[s].asked
    BY <1>4 DEF SeesEnd, SeesHangup, At, Live
  <2>4. CASE FeederRaises(s, t)
    BY <2>2, <2>3, <2>4, RaisesWell DEF Quits
  <2>5. CASE ~FeederRaises(s, t)
    BY <2>1, <2>2, <2>3, <2>5, LeavesWell, GoesOn
  <2>. QED  BY <2>4, <2>5
<1>10. CASE FeederEnds(s)
  BY <1>1, <1>10, AfterFeederWell, GoesOn DEF FeederEnds, At, Live
<1>11. CASE FeederFails(s)
  BY <1>1, <1>11, RaisesWell DEF FeederFails, Live, Quits
<1>12. CASE SpawnFails(s)
  <2>. DEFINE t == [src[s] EXCEPT !.phase = "gone"]
  <2>1. /\ t \in SourceOK /\ t.phase = "gone" /\ t.asked = src[s].asked
        /\ t.unwinding = src[s].unwinding
    BY <1>1 DEF SourceOK
  <2>2. /\ Goes(s, t) /\ Live(s) /\ ~src[s].asked /\ UNCHANGED <<swallowed, misfed>>
        /\ ~src[s].unwinding /\ told' = [told EXCEPT ![s] = @ + 1]
    BY <1>1, <1>12 DEF SpawnFails, Reports, At, Live, TaskInv
  <2>. HIDE DEF t
  <2>. QED  BY <2>1, <2>2, GoesOn
<1>5. CASE ExitWaited(s)
  <2>. DEFINE t == [src[s] EXCEPT !.phase = "reap", !.ffmpeg = Killed(@)]
  <2>1. /\ t \in SourceOK /\ t.phase = "reap" /\ t.asked = src[s].asked
        /\ t.unwinding = src[s].unwinding
    BY <1>1 DEF SourceOK
  <2>2. Goes(s, t) /\ Live(s) /\ ~src[s].asked /\ UNCHANGED <<told, swallowed, misfed>>
    BY <1>5 DEF ExitWaited, At, Live
  <2>. HIDE DEF t
  <2>. QED  BY <2>1, <2>2, GoesOn
<1>6. CASE Reaped(s)
  <2>. DEFINE fails == src[s].eof /\ src[s].ffmpeg = "failed"
              t == [src[s] EXCEPT !.phase = IF src[s].unwinding \/ fails THEN "gone" ELSE "drain"]
  <2>1. /\ t \in SourceOK /\ t.phase \in {"gone", "drain"} /\ t.asked = src[s].asked
        /\ t.unwinding = src[s].unwinding
        /\ t.phase = "drain" => ~t.unwinding
        /\ fails => t.phase = "gone"
    BY <1>1 DEF SourceOK
  <2>2. Goes(s, t) /\ Live(s) /\ ~src[s].asked /\ UNCHANGED <<swallowed, misfed>>
    BY <1>6 DEF Reaped, At, Live
  <2>3. \/ told' = told
        \/ told' = [told EXCEPT ![s] = @ + 1] /\ fails /\ ~src[s].unwinding
    BY <1>6 DEF Reaped, PlayInv
  <2>. HIDE DEF t
  <2>. QED  BY <2>1, <2>2, <2>3, GoesOn
<1>7. CASE Drained(s)
  <2>. DEFINE t == [src[s] EXCEPT !.phase = "gone"]
  <2>1. /\ t \in SourceOK /\ t.phase = "gone" /\ t.asked = src[s].asked
        /\ t.unwinding = src[s].unwinding
    BY <1>1 DEF SourceOK
  <2>2. /\ Goes(s, t) /\ Live(s) /\ ~src[s].asked /\ UNCHANGED <<swallowed, misfed>>
        /\ ~src[s].unwinding /\ told' = [told EXCEPT ![s] = @ + 1]
    BY <1>1, <1>7 DEF Drained, Reports, At, Live, TaskInv
  <2>. HIDE DEF t
  <2>. QED  BY <2>1, <2>2, GoesOn
<1>8. CASE Cancelled(s)
  <2>. DEFINE t == [src[s] EXCEPT !.asked = FALSE, !.unwinding = TRUE]
              gone == [t EXCEPT !.phase = "gone"]
  <2>1. /\ t \in SourceOK /\ t.unwinding /\ ~t.asked
        /\ gone \in SourceOK /\ gone.phase = "gone" /\ gone.unwinding
    BY <1>1 DEF SourceOK
  <2>2. src[s].asked /\ Live(s)
    BY <1>8 DEF Cancelled, Live
  <2>3. Leaves(s, t) \/ (Goes(s, gone) /\ UNCHANGED <<told, swallowed, misfed>>)
    BY <1>8 DEF Cancelled, CancelSilent
  <2>. HIDE DEF t, gone
  <2>4. CASE FeederRaises(s, t)
    BY <2>1, <2>2, <2>4, RaisesWell DEF Quits
  <2>5. CASE ~FeederRaises(s, t)
    <3>1. PICK u \in SourceOK :
            /\ Goes(s, u) /\ UNCHANGED <<told, swallowed, misfed>>
            /\ u.phase \in {"feeder", "exit", "reap", "gone"} /\ u.unwinding
      BY <2>1, <2>3, <2>5, LeavesWell
    <3>2. src' = [src EXCEPT ![s] = u] /\ UNCHANGED <<current, stopped, belated>>
      BY <3>1 DEF Goes
    <3>3. ASSUME src'[s] = u PROVE TaskInv(s)'
      BY <1>1, <2>2, <3>1, <3>2, <3>3 DEF TaskInv, Live, Quits
    <3>. QED  BY <3>1, <3>2, <3>3, Alone
  <2>. QED  BY <2>4, <2>5
<1>9. CASE Swallows(s)
  <2>. DEFINE t == [src[s] EXCEPT !.asked = FALSE]
              u == AfterFeeder(t)
  <2>1. t \in SourceOK /\ ~t.asked /\ t.unwinding = src[s].unwinding
    BY <1>1 DEF SourceOK
  <2>2. /\ Goes(s, u) /\ src[s].asked /\ Live(s) /\ UNCHANGED <<told, misfed>>
        /\ swallowed' = IF src[s].unwinding THEN swallowed ELSE swallowed \cup {s}
    BY <1>9 DEF Swallows, Live
  <2>. HIDE DEF t
  <2>3. /\ u \in SourceOK /\ u.phase \in {"feeder", "exit", "reap"}
        /\ u.unwinding = src[s].unwinding
    BY <2>1, AfterFeederWell
  <2>. HIDE DEF u
  <2>4. src' = [src EXCEPT ![s] = u] /\ UNCHANGED <<current, stopped, belated>>
    BY <2>2 DEF Goes
  <2>5. ASSUME src'[s] = u PROVE TaskInv(s)'
    BY <1>1, <2>2, <2>3, <2>4, <2>5 DEF TaskInv, Live, Quits
  <2>. QED  BY <2>2, <2>3, <2>4, <2>5, Alone
<1>. QED  BY <1>2, <1>3, <1>4, <1>5, <1>6, <1>7, <1>8, <1>9, <1>10, <1>11, <1>12
     DEF TaskStep

LEMMA PlayStep == PlayInv /\ [SourceNext]_sourceVars => PlayInv'
<1>. SUFFICES ASSUME PlayInv, [SourceNext]_sourceVars PROVE PlayInv'
  OBVIOUS
<1>1. CASE UNCHANGED sourceVars
  <2>1. UNCHANGED <<src, current, told, stopped, swallowed, belated, misfed>>
    BY <1>1 DEF sourceVars, history
  <2>. QED  BY <2>1 DEF PlayInv, TaskInv, Live
<1>. QED  BY <1>1, ClientMoves, TaskMoves DEF SourceNext

\* Each source reports one completion, and one that was replaced or stopped none,
\* whatever it was doing then (_run_source(), _apply_remote_sdp()), but for the three known
\* exceptions: run() swallowed its cancellation, or gave it up for what its feeder raised, or
\* a codec change came after its end.
THEOREM OneCompletionEach == SourceSpec => []OneCompletion
<1>1. PlayInv => OneCompletion
  BY DEF PlayInv, TaskInv, OneCompletion
<1>. QED  BY <1>1, PlayStart, PlayStep, PTL DEF SourceSpec
=============================================================================
