------------------------ MODULE AssistBridge_proof -------------------------
(***************************************************************************)
(* Proofs about AssistBridge for every set of options, any number of turns *)
(* and of other sources.  The bridge is one record and its methods are     *)
(* operators, so each method has a lemma: it makes a bridge that is Sound  *)
(* of one that is so, or between two turns (Rests, Begun).  A step is      *)
(* then a method or two.                                                   *)
(***************************************************************************)
EXTENDS AssistBridge, TLAPS

\* The ranges of BridgeOK by name.
Places == {"begin", "toneIdle", "toneFetch", "tone", "pipeline", "playback", "replyIdle",
           "settle", "backoff", "gone"}
Stages == {"none", "run", "stt", "intent", "tts", "end"}
Medias == {"none", "other", "tone", "cue", "fill", "reply"}
Tones == {"toneIdle", "toneFetch", "tone"}

\* Every turn counts at most once as silent or failed, and the present one not yet.
Counts(s) ==
    /\ s.silent <= s.turn /\ s.errors <= s.turn
    /\ s.at \in Tones => s.turn > 0
    /\ s.at \in Tones \cup {"pipeline"} /\ s.turn > 0 => s.silent < s.turn /\ s.errors < s.turn
    /\ s.at = "backoff" => s.turn < MaxTurns
    /\ s.at = "begin" => s.turn = 0

\* What is fetched and played is that of a reply while the bridge speaks; the cue is
\* the one that this run of the pipeline started; the tone is over when the microphone
\* opens.
Plays(s) ==
    /\ s.fetch # "none" \/ s.media \in Replies \/ s.wait = "tts" => s.speaking
    /\ s.fetch # "none" => s.at \in {"pipeline", "playback"} /\ s.wait = "none" /\ ~s.done
    /\ s.cue # "off" => s.at \in {"pipeline", "playback"} /\ s.turn > 0
    /\ s.media = "cue" => s.cue = "played"
    /\ s.media = "tone" => s.hasty \/ (s.at = "tone" /\ ~s.done)
    /\ s.wait = "tone" => s.at \in Tones

\* The end of a reply will be reported, once it is played, if it was not already.
Owes(s) ==
    s.at \in {"pipeline", "playback"} /\ s.speaking /\ ~s.done =>
       s.silenced \/ s.fetch # "none" \/ (s.media # "none" /\ s.wait = "tts")

\* Which flags go with which place: the session listens and speaks only where the code
\* does, and in a run of the pipeline that may.
Speaks(s) ==
    /\ s.cut => s.raised
    /\ s.listening => s.at = "pipeline" /\ s.turn > 0
    /\ s.speaking => s.at \in {"pipeline", "playback", "replyIdle"}
    /\ s.at = "playback" => s.speaking
    /\ s.at = "pipeline" =>
         /\ s.speaking => s.playingToken
         /\ s.stage \in {"run", "stt"} => ~s.speaking /\ s.cue = "off"
         /\ s.stage = "stt" => s.turn > 0

\* All of it; a bridge that is gone plays what was left to it.
Sound(s) ==
    s \in BridgeOK /\ Counts(s) /\ (s.at # "gone" => Plays(s)) /\ Owes(s) /\ Speaks(s)

\* Between two turns.
Rests(s) ==
    /\ s \in BridgeOK /\ s.silent <= s.turn /\ s.errors <= s.turn
    /\ s.cut => s.raised
    /\ ~s.listening /\ ~s.speaking /\ s.fetch = "none" /\ s.cue = "off" /\ s.wait # "tts"
    /\ s.media \in {"none", "other", "tone"} /\ (s.media = "tone" => s.hasty)

\* In a turn that has begun.
Begun(s) == Rests(s) /\ s.turn > 0 /\ s.silent < s.turn /\ s.errors < s.turn
-----------------------------------------------------------------------------
\* One field of the bridge is set; its fields.
LEMMA Put ==
    ASSUME NEW s \in BridgeOK
    PROVE  /\ \A v \in Places : [s EXCEPT !.at = v] \in BridgeOK
           /\ \A v \in Stages : [s EXCEPT !.stage = v] \in BridgeOK
           /\ \A v \in Medias : [s EXCEPT !.media = v] \in BridgeOK
           /\ \A v \in {"none", "first", "idle"} : [s EXCEPT !.fetch = v] \in BridgeOK
           /\ \A v \in {"off", "fetch", "skipped", "played"} : [s EXCEPT !.cue = v] \in BridgeOK
           /\ \A v \in {"none", "tone", "tts"} : [s EXCEPT !.wait = v] \in BridgeOK
           /\ \A v \in {"none", "silent", "error"} : [s EXCEPT !.error = v] \in BridgeOK
           /\ \A v \in 0..MaxTurns :
                 /\ [s EXCEPT !.turn = v] \in BridgeOK
                 /\ [s EXCEPT !.silent = v] \in BridgeOK
                 /\ [s EXCEPT !.errors = v] \in BridgeOK
           /\ \A v \in BOOLEAN :
                 /\ [s EXCEPT !.done = v] \in BridgeOK
                 /\ [s EXCEPT !.running = v] \in BridgeOK
                 /\ [s EXCEPT !.listening = v] \in BridgeOK
                 /\ [s EXCEPT !.speaking = v] \in BridgeOK
                 /\ [s EXCEPT !.preroll = v] \in BridgeOK
                 /\ [s EXCEPT !.capture = v] \in BridgeOK
           /\ \A v \in BOOLEAN :
                 /\ [s EXCEPT !.handover = v] \in BridgeOK
                 /\ [s EXCEPT !.interrupt = v] \in BridgeOK
                 /\ [s EXCEPT !.hangup = v] \in BridgeOK
                 /\ [s EXCEPT !.runToken = v] \in BridgeOK
                 /\ [s EXCEPT !.playingToken = v] \in BridgeOK
                 /\ [s EXCEPT !.continue = v] \in BridgeOK
           /\ \A v \in BOOLEAN :
                 /\ [s EXCEPT !.closed = v] \in BridgeOK
                 /\ [s EXCEPT !.hungUp = v] \in BridgeOK
                 /\ [s EXCEPT !.cut = v] \in BridgeOK
                 /\ [s EXCEPT !.raised = v] \in BridgeOK
                 /\ [s EXCEPT !.hasty = v] \in BridgeOK
                 /\ [s EXCEPT !.silenced = v] \in BridgeOK
<1>. USE DEF BridgeOK, Places, Stages, Medias
<1>1. \A v \in Places : [s EXCEPT !.at = v] \in BridgeOK
  OBVIOUS
<1>2. \A v \in Stages : [s EXCEPT !.stage = v] \in BridgeOK
  OBVIOUS
<1>3. \A v \in Medias : [s EXCEPT !.media = v] \in BridgeOK
  OBVIOUS
<1>4. \A v \in {"none", "first", "idle"} : [s EXCEPT !.fetch = v] \in BridgeOK
  OBVIOUS
<1>5. \A v \in {"off", "fetch", "skipped", "played"} : [s EXCEPT !.cue = v] \in BridgeOK
  OBVIOUS
<1>6. \A v \in {"none", "tone", "tts"} : [s EXCEPT !.wait = v] \in BridgeOK
  OBVIOUS
<1>7. \A v \in {"none", "silent", "error"} : [s EXCEPT !.error = v] \in BridgeOK
  OBVIOUS
<1>8. \A v \in 0..MaxTurns :
      /\ [s EXCEPT !.turn = v] \in BridgeOK
      /\ [s EXCEPT !.silent = v] \in BridgeOK
      /\ [s EXCEPT !.errors = v] \in BridgeOK
  OBVIOUS
<1>9. \A v \in BOOLEAN :
      /\ [s EXCEPT !.done = v] \in BridgeOK
      /\ [s EXCEPT !.running = v] \in BridgeOK
      /\ [s EXCEPT !.listening = v] \in BridgeOK
      /\ [s EXCEPT !.speaking = v] \in BridgeOK
      /\ [s EXCEPT !.preroll = v] \in BridgeOK
      /\ [s EXCEPT !.capture = v] \in BridgeOK
  OBVIOUS
<1>10. \A v \in BOOLEAN :
      /\ [s EXCEPT !.handover = v] \in BridgeOK
      /\ [s EXCEPT !.interrupt = v] \in BridgeOK
      /\ [s EXCEPT !.hangup = v] \in BridgeOK
      /\ [s EXCEPT !.runToken = v] \in BridgeOK
      /\ [s EXCEPT !.playingToken = v] \in BridgeOK
      /\ [s EXCEPT !.continue = v] \in BridgeOK
  OBVIOUS
<1>11. \A v \in BOOLEAN :
      /\ [s EXCEPT !.closed = v] \in BridgeOK
      /\ [s EXCEPT !.hungUp = v] \in BridgeOK
      /\ [s EXCEPT !.cut = v] \in BridgeOK
      /\ [s EXCEPT !.raised = v] \in BridgeOK
      /\ [s EXCEPT !.hasty = v] \in BridgeOK
      /\ [s EXCEPT !.silenced = v] \in BridgeOK
  OBVIOUS
<1>. QED  BY <1>1, <1>2, <1>3, <1>4, <1>5, <1>6, <1>7, <1>8, <1>9, <1>10, <1>11

LEMMA FieldsOf ==
    ASSUME NEW s \in BridgeOK
    PROVE  /\ s.at \in Places /\ s.stage \in Stages /\ s.media \in Medias
           /\ s.fetch \in {"none", "first", "idle"}
           /\ s.cue \in {"off", "fetch", "skipped", "played"}
           /\ s.wait \in {"none", "tone", "tts"} /\ s.error \in {"none", "silent", "error"}
           /\ s.turn \in 0..MaxTurns /\ s.silent \in 0..MaxTurns /\ s.errors \in 0..MaxTurns
           /\ {s.done, s.listening, s.speaking, s.handover, s.interrupt, s.hangup, s.capture,
               s.raised, s.hasty, s.cut} \subseteq BOOLEAN
<1>. USE DEF BridgeOK, Places, Stages, Medias
<1>1. /\ s.at \in Places /\ s.stage \in Stages /\ s.media \in Medias
      /\ s.fetch \in {"none", "first", "idle"}
      /\ s.cue \in {"off", "fetch", "skipped", "played"}
  OBVIOUS
<1>2. /\ s.wait \in {"none", "tone", "tts"} /\ s.error \in {"none", "silent", "error"}
      /\ s.turn \in 0..MaxTurns /\ s.silent \in 0..MaxTurns /\ s.errors \in 0..MaxTurns
  OBVIOUS
<1>3. /\ {s.done, s.listening, s.speaking, s.handover, s.interrupt, s.hangup, s.capture,
          s.raised, s.hasty, s.cut} \subseteq BOOLEAN
  OBVIOUS
<1>. HIDE DEF Places, Stages, Medias
<1>. QED  BY <1>1, <1>2, <1>3
-----------------------------------------------------------------------------
(* Methods that do not wait. *)

LEMMA StopCueDoes ==
    ASSUME NEW s \in BridgeOK, NEW flush \in BOOLEAN
    PROVE  /\ StopCue(s, flush) \in BridgeOK
           /\ StopCue(s, flush) = [s EXCEPT !.cue = "off", !.media = StopCue(s, flush).media]
           /\ StopCue(s, flush).media = IF s.cue = "played" /\ flush THEN "none" ELSE s.media
<1>. DEFINE m == IF s.cue = "played" /\ flush THEN "none" ELSE s.media
<1>1. m \in Medias
  BY FieldsOf DEF Medias
<1>2. StopCue(s, flush) = [s EXCEPT !.cue = "off", !.media = m]
  BY DEF StopCue
<1>. HIDE DEF m
<1>3. [s EXCEPT !.cue = "off", !.media = m] \in BridgeOK
  BY <1>1, Put
<1>4. [s EXCEPT !.cue = "off", !.media = m].media = m
  BY DEF BridgeOK
<1>. QED  BY <1>2, <1>3, <1>4 DEF m

LEMMA CancelTtsDoes ==
    ASSUME NEW s \in BridgeOK, NEW stop \in BOOLEAN
    PROVE  /\ CancelTts(s, stop) \in BridgeOK
           /\ CancelTts(s, stop)
                = [s EXCEPT !.fetch = "none", !.media = CancelTts(s, stop).media]
           /\ CancelTts(s, stop).media = IF stop THEN "none" ELSE s.media
<1>. DEFINE m == IF stop THEN "none" ELSE s.media
<1>1. m \in Medias
  BY FieldsOf DEF Medias
<1>2. CancelTts(s, stop) = [s EXCEPT !.fetch = "none", !.media = m]
  BY DEF CancelTts
<1>. HIDE DEF m
<1>3. [s EXCEPT !.fetch = "none", !.media = m] \in BridgeOK
  BY <1>1, Put
<1>4. [s EXCEPT !.fetch = "none", !.media = m].media = m
  BY DEF BridgeOK
<1>. QED  BY <1>2, <1>3, <1>4 DEF m

LEMMA InterruptMediaDoes ==
    ASSUME NEW s \in BridgeOK
    PROVE  /\ InterruptMedia(s) \in BridgeOK
           /\ InterruptMedia(s)
                = [s EXCEPT !.interrupt = FALSE, !.media = InterruptMedia(s).media]
           /\ InterruptMedia(s).media \in {"none", s.media}
<1>. DEFINE m == IF s.interrupt THEN "none" ELSE s.media
<1>1. m \in Medias /\ m \in {"none", s.media}
  BY FieldsOf DEF Medias
<1>2. InterruptMedia(s) = [s EXCEPT !.interrupt = FALSE, !.media = m]
  BY DEF InterruptMedia
<1>. HIDE DEF m
<1>3. [s EXCEPT !.interrupt = FALSE, !.media = m] \in BridgeOK
  BY <1>1, Put
<1>4. [s EXCEPT !.interrupt = FALSE, !.media = m].media = m
  BY DEF BridgeOK
<1>. QED  BY <1>1, <1>2, <1>3, <1>4

\* A bridge that is closed does nothing more.
LEMMA CloseSound ==
    ASSUME NEW s \in BridgeOK, s.cut => s.raised, s.silent <= s.turn, s.errors <= s.turn
    PROVE  Sound(Close(s)) /\ Close(s).at = "gone" /\ Close(s).raised = s.raised
<1>. DEFINE c == StopCue(CancelTts(s, FALSE), FALSE)
            d == [c EXCEPT !.at = "gone", !.stage = "none", !.running = FALSE,
                           !.listening = FALSE, !.speaking = FALSE, !.capture = FALSE,
                           !.hangup = FALSE]
<1>1. c \in BridgeOK
  BY StopCueDoes, CancelTtsDoes
<1>2. /\ c.cut = s.cut /\ c.raised = s.raised /\ c.turn = s.turn
      /\ c.silent = s.silent /\ c.errors = s.errors
  BY DEF StopCue, CancelTts, BridgeOK
<1>. HIDE DEF c
<1>3. d \in BridgeOK
  BY <1>1, Put DEF Places, Stages
<1>4. /\ d.at = "gone" /\ ~d.listening /\ ~d.speaking /\ d.cut = s.cut
      /\ d.raised = s.raised /\ d.turn = s.turn /\ d.silent = s.silent /\ d.errors = s.errors
  BY <1>1, <1>2 DEF BridgeOK
<1>5. Close(s) = [d EXCEPT !.handover = FALSE, !.runToken = FALSE, !.playingToken = FALSE,
                           !.wait = "none", !.done = TRUE, !.closed = TRUE]
  BY DEF Close, c
<1>. HIDE DEF d
<1>6. Close(s) \in BridgeOK
  BY <1>3, <1>5, Put
<1>7. /\ Close(s).at = "gone" /\ ~Close(s).listening /\ ~Close(s).speaking
      /\ Close(s).cut = s.cut /\ Close(s).raised = s.raised /\ Close(s).turn = s.turn
      /\ Close(s).silent = s.silent /\ Close(s).errors = s.errors
  BY <1>3, <1>4, <1>5 DEF BridgeOK
<1>. QED  BY <1>6, <1>7 DEF Sound, Counts, Owes, Speaks, Tones

LEMMA HangUpSound ==
    ASSUME NEW s \in BridgeOK, s.cut => s.raised, s.silent <= s.turn, s.errors <= s.turn,
           s.raised \/ (s.media \notin Replies /\ s.fetch = "none")
    PROVE  Sound(HangUp(s))
<1>. DEFINE cut == s.media \in Replies \/ s.fetch # "none"
<1>1. Sound(Close(s)) /\ Close(s).at = "gone" /\ Close(s).raised = s.raised
  BY CloseSound
<1>2. HangUp(s) = [Close(s) EXCEPT !.hungUp = TRUE, !.cut = cut]
  BY DEF HangUp
<1>. DEFINE c == Close(s)
<1>3. cut \in BOOLEAN /\ (cut => c.raised)
  BY <1>1
<1>. HIDE DEF c, cut
<1>4. [c EXCEPT !.hungUp = TRUE, !.cut = cut] \in BridgeOK
  BY <1>1, <1>3, Put DEF Sound, c
<1>5. Sound([c EXCEPT !.hungUp = TRUE, !.cut = cut])
  <2>. DEFINE h == [c EXCEPT !.hungUp = TRUE, !.cut = cut]
  <2>1. /\ h.at = c.at /\ h.turn = c.turn /\ h.silent = c.silent /\ h.errors = c.errors
        /\ h.cut = cut /\ h.raised = c.raised /\ h.listening = c.listening
        /\ h.speaking = c.speaking /\ h.stage = c.stage
    BY <1>1 DEF Sound, BridgeOK, c
  <2>2. Sound(c) /\ c.at = "gone"
    BY <1>1 DEF c
  <2>. HIDE DEF h
  <2>3. h \in BridgeOK
    BY <1>4 DEF h
  <2>. QED  BY <1>3, <2>1, <2>2, <2>3 DEF Sound, Counts, Owes, Speaks, Tones, h
<1>. QED  BY <1>2, <1>5 DEF c

LEMMA EndSessionSound ==
    ASSUME NEW s \in BridgeOK, s.cut => s.raised, s.silent <= s.turn, s.errors <= s.turn,
           s.raised \/ (s.media \notin Replies /\ s.fetch = "none")
    PROVE  Sound(EndSession(s))
<1>. DEFINE e == [s EXCEPT !.at = "gone", !.stage = "none", !.running = FALSE,
                           !.listening = FALSE, !.speaking = FALSE, !.capture = FALSE]
<1>1. e \in BridgeOK
  BY Put DEF Places, Stages
<1>2. /\ e.at = "gone" /\ ~e.listening /\ ~e.speaking /\ e.cut = s.cut
      /\ e.raised = s.raised /\ e.turn = s.turn /\ e.silent = s.silent /\ e.errors = s.errors
  BY DEF BridgeOK
<1>3. EndSession(s) \in {HangUp(s), e}
  BY DEF EndSession
<1>. HIDE DEF e
<1>4. Sound(e)
  BY <1>1, <1>2 DEF Sound, Counts, Owes, Speaks, Tones
<1>. QED  BY <1>3, <1>4, HangUpSound
-----------------------------------------------------------------------------
(* The session, from one wait to the next. *)

\* The microphone opens.
LEMMA ListenSound ==
    ASSUME NEW s, Begun(s), s.wait = "none"
    PROVE  Sound(Listen(s))
<1>. DEFINE i == InterruptMedia(s)
            l == [i EXCEPT !.preroll = FALSE, !.capture = FALSE, !.listening = TRUE,
                           !.at = "pipeline", !.stage = "run"]
<1>1. s \in BridgeOK
  BY DEF Begun, Rests
<1>2. /\ i \in BridgeOK /\ i = [s EXCEPT !.interrupt = FALSE, !.media = i.media]
      /\ i.media \in {"none", s.media}
  BY <1>1, InterruptMediaDoes
<1>. HIDE DEF i
<1>3. /\ i.fetch = s.fetch /\ i.cue = s.cue /\ i.wait = s.wait /\ i.speaking = s.speaking
      /\ i.hasty = s.hasty /\ i.turn = s.turn /\ i.silent = s.silent /\ i.errors = s.errors
      /\ i.cut = s.cut /\ i.raised = s.raised
  BY <1>1, <1>2 DEF BridgeOK
<1>4. l \in BridgeOK
  BY <1>2, Put DEF Places, Stages
<1>5. /\ l.at = "pipeline" /\ l.stage = "run" /\ l.fetch = i.fetch /\ l.cue = i.cue
      /\ l.wait = i.wait /\ l.media = i.media /\ l.speaking = i.speaking
      /\ l.hasty = i.hasty /\ l.turn = i.turn /\ l.silent = i.silent /\ l.errors = i.errors
      /\ l.cut = i.cut /\ l.raised = i.raised /\ l.listening
  BY <1>2 DEF BridgeOK
<1>6. Listen(s) = l
  BY DEF Listen, i
<1>. HIDE DEF l
<1>7. Counts(l)
  BY <1>3, <1>5 DEF Counts, Begun, Rests, Tones
<1>8. Plays(l)
  BY <1>2, <1>3, <1>5 DEF Plays, Begun, Rests, Replies
<1>9. Owes(l) /\ Speaks(l)
  BY <1>3, <1>5 DEF Owes, Speaks, Begun, Rests
<1>. QED  BY <1>4, <1>6, <1>7, <1>8, <1>9 DEF Sound

LEMMA ToneOverSound ==
    ASSUME NEW s, Begun(s)
    PROVE  Sound(ToneOver(s))
<1>. DEFINE t == [s EXCEPT !.wait = "none"]
<1>1. s \in BridgeOK
  BY DEF Begun, Rests
<1>2. t \in BridgeOK
  BY <1>1, Put
<1>3. /\ t.fetch = s.fetch /\ t.cue = s.cue /\ t.wait = "none" /\ t.speaking = s.speaking
      /\ t.hasty = s.hasty /\ t.turn = s.turn /\ t.silent = s.silent /\ t.errors = s.errors
      /\ t.cut = s.cut /\ t.raised = s.raised /\ t.media = s.media
      /\ t.listening = s.listening
  BY <1>1 DEF BridgeOK
<1>4. ToneOver(s) = Listen(t)
  BY DEF ToneOver
<1>. HIDE DEF t
<1>5. Begun(t)
  BY <1>2, <1>3 DEF Begun, Rests
<1>. QED  BY <1>3, <1>4, <1>5, ListenSound

\* The bridge waits for its tone, or before it.
LEMMA WaitsForTone ==
    ASSUME NEW s, Begun(s), NEW at \in Tones, NEW m \in Medias,
           m = s.media \/ (m = "tone" /\ at = "tone" /\ ~s.done)
    PROVE  Sound([s EXCEPT !.media = m, !.at = at])
<1>. DEFINE t == [s EXCEPT !.media = m, !.at = at]
<1>1. s \in BridgeOK
  BY DEF Begun, Rests
<1>2. t \in BridgeOK
  BY <1>1, Put DEF Tones, Places
<1>3. /\ t.fetch = s.fetch /\ t.cue = s.cue /\ t.wait = s.wait /\ t.speaking = s.speaking
      /\ t.hasty = s.hasty /\ t.turn = s.turn /\ t.silent = s.silent /\ t.errors = s.errors
      /\ t.cut = s.cut /\ t.raised = s.raised /\ t.media = m /\ t.at = at
      /\ t.listening = s.listening /\ t.done = s.done
  BY <1>1 DEF BridgeOK
<1>. HIDE DEF t
<1>4. Counts(t)
  BY <1>3 DEF Counts, Begun, Rests, Tones
<1>5. Plays(t)
  BY <1>1, <1>3, FieldsOf DEF Plays, Begun, Rests, Replies, Tones
<1>6. Owes(t) /\ Speaks(t)
  BY <1>3 DEF Owes, Speaks, Begun, Rests, Tones
<1>. QED  BY <1>2, <1>4, <1>5, <1>6 DEF Sound, t

LEMMA PlayToneSound ==
    ASSUME NEW s, Begun(s)
    PROVE  Sound(PlayTone(s))
<1>1. s \in BridgeOK
  BY DEF Begun, Rests
<1>2. CASE s.done
  <2>. DEFINE t == [s EXCEPT !.media = "tone", !.hasty = TRUE]
  <2>1. t \in BridgeOK
    BY <1>1, Put DEF Medias
  <2>2. /\ t.fetch = s.fetch /\ t.cue = s.cue /\ t.wait = s.wait /\ t.speaking = s.speaking
        /\ t.hasty = TRUE /\ t.turn = s.turn /\ t.silent = s.silent /\ t.errors = s.errors
        /\ t.cut = s.cut /\ t.raised = s.raised /\ t.media = "tone"
        /\ t.listening = s.listening
    BY <1>1 DEF BridgeOK
  <2>3. PlayTone(s) = ToneOver(t)
    BY <1>2 DEF PlayTone
  <2>. HIDE DEF t
  <2>4. Begun(t)
    BY <2>1, <2>2 DEF Begun, Rests
  <2>. QED  BY <2>3, <2>4, ToneOverSound
<1>3. CASE ~s.done
  <2>1. PlayTone(s) = [s EXCEPT !.media = "tone", !.at = "tone"]
    BY <1>3 DEF PlayTone
  <2>. QED  BY <1>3, <2>1, WaitsForTone DEF Tones, Medias
<1>. QED  BY <1>2, <1>3

LEMMA FetchToneSound ==
    ASSUME NEW s, Begun(s)
    PROVE  Sound(FetchTone(s))
<1>1. s \in BridgeOK
  BY DEF Begun, Rests
<1>2. [s EXCEPT !.at = "toneFetch"] = [s EXCEPT !.media = s.media, !.at = "toneFetch"]
  BY <1>1 DEF BridgeOK
<1>3. s.media \in Medias /\ "toneFetch" \in Tones
  BY <1>1, FieldsOf DEF Tones
<1>4. Sound([s EXCEPT !.at = "toneFetch"])
  BY <1>2, <1>3, WaitsForTone
<1>. QED  BY <1>4, PlayToneSound DEF FetchTone

LEMMA TurnToneSound ==
    ASSUME NEW s, Begun(s)
    PROVE  Sound(TurnTone(s))
<1>. DEFINE w == [s EXCEPT !.wait = "tone", !.done = FALSE]
            r == InterruptMedia(w)
<1>1. s \in BridgeOK
  BY DEF Begun, Rests
<1>2. w \in BridgeOK
  BY <1>1, Put
<1>3. /\ w.fetch = s.fetch /\ w.cue = s.cue /\ w.wait = "tone" /\ w.speaking = s.speaking
      /\ w.hasty = s.hasty /\ w.turn = s.turn /\ w.silent = s.silent /\ w.errors = s.errors
      /\ w.cut = s.cut /\ w.raised = s.raised /\ w.media = s.media
      /\ w.listening = s.listening
  BY <1>1 DEF BridgeOK
<1>. HIDE DEF w
<1>4. /\ r \in BridgeOK /\ r = [w EXCEPT !.interrupt = FALSE, !.media = r.media]
      /\ r.media \in {"none", w.media}
  BY <1>2, InterruptMediaDoes
<1>5. TurnTone(s) = IF r.media = "none" THEN FetchTone(r) ELSE [r EXCEPT !.at = "toneIdle"]
  BY DEF TurnTone, w
<1>. HIDE DEF r
<1>6. /\ r.fetch = w.fetch /\ r.cue = w.cue /\ r.wait = w.wait /\ r.speaking = w.speaking
      /\ r.hasty = w.hasty /\ r.turn = w.turn /\ r.silent = w.silent /\ r.errors = w.errors
      /\ r.cut = w.cut /\ r.raised = w.raised /\ r.listening = w.listening
  BY <1>2, <1>4 DEF BridgeOK
<1>7. Begun(r)
  BY <1>3, <1>4, <1>6 DEF Begun, Rests
<1>8. Sound([r EXCEPT !.at = "toneIdle"])
  <2>1. [r EXCEPT !.at = "toneIdle"] = [r EXCEPT !.media = r.media, !.at = "toneIdle"]
    BY <1>4 DEF BridgeOK
  <2>2. r.media \in Medias /\ "toneIdle" \in Tones
    BY <1>4, FieldsOf DEF Tones
  <2>. QED  BY <1>7, <2>1, <2>2, WaitsForTone
<1>. QED  BY <1>5, <1>7, <1>8, FetchToneSound

LEMMA StartTurnSound ==
    ASSUME NEW s, Rests(s), s.wait = "none", s.turn < MaxTurns
    PROVE  Sound(StartTurn(s))
<1>. DEFINE n == s.turn + 1
            h == s.hasty /\ s.media = "tone"
            f == [s EXCEPT !.error = "none", !.continue = FALSE, !.turn = n, !.hasty = h]
<1>1. /\ s \in BridgeOK /\ s.turn \in 0..MaxTurns /\ s.silent \in 0..MaxTurns
      /\ s.errors \in 0..MaxTurns /\ MaxTurns \in Nat /\ h \in BOOLEAN
  BY AssistAssumption, FieldsOf DEF Rests, AssistAssumption
<1>2. n \in 0..MaxTurns /\ n = s.turn + 1 /\ h = (s.hasty /\ s.media = "tone")
  BY <1>1
<1>3. StartTurn(s) = IF opt.tone # "none" /\ ~f.preroll THEN TurnTone(f) ELSE Listen(f)
  <2>1. f = [s EXCEPT !.error = "none", !.continue = FALSE, !.turn = @ + 1,
                      !.hasty = @ /\ s.media = "tone"]
    OBVIOUS
  <2>2. f.preroll = s.preroll
    BY <1>1 DEF BridgeOK
  <2>. QED  BY <2>1, <2>2 DEF StartTurn
<1>. HIDE DEF n, h
<1>4. f \in BridgeOK
  BY <1>1, <1>2, Put
<1>5. /\ f.fetch = s.fetch /\ f.cue = s.cue /\ f.wait = s.wait /\ f.speaking = s.speaking
      /\ f.hasty = h /\ f.turn = n /\ f.silent = s.silent /\ f.errors = s.errors
      /\ f.cut = s.cut /\ f.raised = s.raised /\ f.media = s.media
      /\ f.listening = s.listening
  BY <1>1 DEF BridgeOK
<1>. HIDE DEF f
<1>6. /\ f.turn > 0 /\ f.silent < f.turn /\ f.errors < f.turn
      /\ f.silent <= f.turn /\ f.errors <= f.turn
  BY <1>1, <1>2, <1>5 DEF Rests
<1>7. f.media = "tone" => f.hasty
  BY <1>2, <1>5 DEF Rests
<1>8. Begun(f)
  BY <1>4, <1>5, <1>6, <1>7 DEF Begun, Rests
<1>. QED  BY <1>3, <1>5, <1>8, TurnToneSound, ListenSound

LEMMA TurnOverSound ==
    ASSUME NEW s, Rests(s), s.wait = "none"
    PROVE  Sound(TurnOver(s))
<1>1. /\ s \in BridgeOK /\ s.turn \in 0..MaxTurns /\ MaxTurns \in Nat \ {0}
      /\ s.silent \in 0..MaxTurns /\ s.errors \in 0..MaxTurns
  BY AssistAssumption, FieldsOf DEF Rests, AssistAssumption
<1>2. s.cut => s.raised
  BY DEF Rests
<1>3. s.media \notin Replies /\ s.fetch = "none" /\ s.silent <= s.turn /\ s.errors <= s.turn
  BY DEF Rests, Replies
<1>4. Sound(HangUp(s)) /\ Sound(EndSession(s))
  BY <1>1, <1>2, <1>3, HangUpSound, EndSessionSound
<1>5. ASSUME s.turn < MaxTurns PROVE Sound(StartTurn(s))
  BY <1>5, StartTurnSound
<1>6. ASSUME s.turn < MaxTurns PROVE Sound([s EXCEPT !.at = "backoff"])
  <2>. DEFINE t == [s EXCEPT !.at = "backoff"]
  <2>1. t \in BridgeOK
    BY <1>1, Put DEF Places
  <2>2. /\ t.fetch = s.fetch /\ t.cue = s.cue /\ t.wait = s.wait /\ t.speaking = s.speaking
        /\ t.hasty = s.hasty /\ t.turn = s.turn /\ t.silent = s.silent
        /\ t.errors = s.errors /\ t.cut = s.cut /\ t.raised = s.raised
        /\ t.media = s.media /\ t.listening = s.listening /\ t.at = "backoff"
    BY <1>1 DEF BridgeOK
  <2>. HIDE DEF t
  <2>3. Counts(t) /\ Plays(t)
    BY <1>6, <2>2 DEF Rests, Counts, Plays, Tones, Replies
  <2>4. Owes(t) /\ Speaks(t)
    BY <2>2 DEF Rests, Owes, Speaks
  <2>. QED  BY <2>1, <2>3, <2>4 DEF Sound, t
<1>7. s.turn = 0 \/ ~(s.turn >= MaxTurns) => s.turn < MaxTurns
  BY <1>1
<1>. QED  BY <1>4, <1>5, <1>6, <1>7 DEF TurnOver
-----------------------------------------------------------------------------
(* From a reply to the next turn. *)

\* A reply is over, and so is its cue.
LEMMA ReplyOverSound ==
    ASSUME NEW s \in BridgeOK, s.silent <= s.turn, s.errors <= s.turn, s.cut => s.raised,
           ~s.listening, s.fetch = "none", s.cue = "off",
           s.media \in {"none", "other", "tone"}, s.media = "tone" => s.hasty
    PROVE  Sound(ReplyOver(s))
<1>. DEFINE r == [s EXCEPT !.done = FALSE, !.wait = "none", !.speaking = FALSE,
                           !.handover = FALSE]
            t == [r EXCEPT !.at = "settle"]
<1>1. r \in BridgeOK
  BY Put
<1>2. /\ r.fetch = s.fetch /\ r.cue = s.cue /\ r.wait = "none" /\ ~r.speaking
      /\ r.hasty = s.hasty /\ r.turn = s.turn /\ r.silent = s.silent /\ r.errors = s.errors
      /\ r.cut = s.cut /\ r.raised = s.raised /\ r.media = s.media
      /\ r.listening = s.listening
  BY DEF BridgeOK
<1>3. ReplyOver(s) = IF s.capture THEN TurnOver(r) ELSE t
  BY DEF ReplyOver
<1>. HIDE DEF r
<1>4. Rests(r)
  BY <1>1, <1>2 DEF Rests
<1>5. t \in BridgeOK
  BY <1>1, Put DEF Places
<1>6. /\ t.fetch = r.fetch /\ t.cue = r.cue /\ t.wait = r.wait /\ t.speaking = r.speaking
      /\ t.hasty = r.hasty /\ t.turn = r.turn /\ t.silent = r.silent /\ t.errors = r.errors
      /\ t.cut = r.cut /\ t.raised = r.raised /\ t.media = r.media
      /\ t.listening = r.listening /\ t.at = "settle"
  BY <1>1 DEF BridgeOK
<1>. HIDE DEF t
<1>7. Counts(t) /\ Plays(t) /\ Owes(t) /\ Speaks(t)
  <2>1. Counts(t)
    BY <1>4, <1>6 DEF Rests, Counts, Tones
  <2>2. Plays(t)
    BY <1>2, <1>4, <1>6 DEF Rests, Plays, Replies
  <2>3. Owes(t) /\ Speaks(t)
    BY <1>4, <1>6 DEF Rests, Owes, Speaks
  <2>. QED  BY <2>1, <2>2, <2>3
<1>. QED  BY <1>2, <1>3, <1>4, <1>5, <1>7, TurnOverSound DEF Sound

\* The end of a reply was reported, or is not waited for any longer.
LEMMA PlaybackOverSound ==
    ASSUME NEW s \in BridgeOK, s.silent <= s.turn, s.errors <= s.turn, s.cut => s.raised,
           ~s.listening, s.fetch = "none", s.speaking, s.wait # "tone",
           s.media = "cue" => s.cue = "played", s.media = "tone" => s.hasty
    PROVE  Sound(PlaybackOver(s))
<1>. DEFINE c == StopCue(s, TRUE)
            w == [c EXCEPT !.at = "replyIdle"]
<1>1. /\ c \in BridgeOK /\ c = [s EXCEPT !.cue = "off", !.media = c.media]
      /\ c.media = IF s.cue = "played" THEN "none" ELSE s.media
  BY StopCueDoes
<1>2. PlaybackOver(s) = IF c.media = "none" THEN ReplyOver(c) ELSE w
  BY DEF PlaybackOver
<1>. HIDE DEF c
<1>3. /\ c.fetch = s.fetch /\ c.cue = "off" /\ c.wait = s.wait /\ c.speaking = s.speaking
      /\ c.hasty = s.hasty /\ c.turn = s.turn /\ c.silent = s.silent /\ c.errors = s.errors
      /\ c.cut = s.cut /\ c.raised = s.raised /\ c.listening = s.listening
  <2>. DEFINE m == c.media
  <2>1. c = [s EXCEPT !.cue = "off", !.media = m]
    BY <1>1
  <2>. HIDE DEF m
  <2>. QED  BY <2>1 DEF BridgeOK
<1>4. CASE c.media = "none"
  BY <1>1, <1>2, <1>3, <1>4, ReplyOverSound
<1>5. CASE c.media # "none"
  <2>1. w \in BridgeOK
    BY <1>1, Put DEF Places
  <2>2. /\ w.fetch = c.fetch /\ w.cue = c.cue /\ w.wait = c.wait /\ w.speaking = c.speaking
        /\ w.hasty = c.hasty /\ w.turn = c.turn /\ w.silent = c.silent
        /\ w.errors = c.errors /\ w.cut = c.cut /\ w.raised = c.raised
        /\ w.media = c.media /\ w.listening = c.listening /\ w.at = "replyIdle"
    BY <1>1 DEF BridgeOK
  <2>. HIDE DEF w
  <2>3. Counts(w)
    BY <1>3, <2>2 DEF Counts, Tones
  <2>4. Plays(w)
    BY <1>1, <1>3, <1>5, <2>2 DEF Plays
  <2>5. Owes(w) /\ Speaks(w)
    BY <1>3, <2>2 DEF Owes, Speaks
  <2>. QED  BY <1>2, <1>5, <2>1, <2>3, <2>4, <2>5 DEF Sound
<1>. QED  BY <1>4, <1>5

\* The run of the pipeline is over.
LEMMA WaitPlaybackDoneSound ==
    ASSUME NEW s \in BridgeOK, s.silent <= s.turn, s.errors <= s.turn,
           s.at = "pipeline", Plays(s), Owes(s), Speaks(s), ~s.listening,
           ~s.speaking => s.cue = "off"
    PROVE  Sound(WaitPlaybackDone(s))
<1>. DEFINE t == [s EXCEPT !.playingToken = FALSE, !.stage = "none"]
            p == [t EXCEPT !.at = "playback"]
<1>1. t \in BridgeOK
  BY Put DEF Stages
<1>2. /\ t.fetch = s.fetch /\ t.cue = s.cue /\ t.wait = s.wait /\ t.speaking = s.speaking
      /\ t.hasty = s.hasty /\ t.turn = s.turn /\ t.silent = s.silent /\ t.errors = s.errors
      /\ t.cut = s.cut /\ t.raised = s.raised /\ t.media = s.media
      /\ t.listening = s.listening /\ t.done = s.done /\ t.silenced = s.silenced
  BY DEF BridgeOK
<1>3. WaitPlaybackDone(s) = IF ~s.speaking THEN TurnOver(t)
                            ELSE IF s.done THEN PlaybackOver(t) ELSE p
  BY DEF WaitPlaybackDone
<1>. HIDE DEF t
<1>4. /\ s.cut => s.raised
      /\ s.wait # "tone" /\ (s.media = "tone" => s.hasty)
      /\ s.media = "cue" => s.cue = "played"
      /\ s.media \in Medias /\ s.wait \in {"none", "tone", "tts"}
  BY FieldsOf DEF Plays, Speaks, Tones
<1>5. CASE ~s.speaking
  <2>1. Rests(t) /\ t.wait = "none"
    BY <1>1, <1>2, <1>4, <1>5 DEF Rests, Plays, Replies, Medias
  <2>. QED  BY <1>3, <1>5, <2>1, TurnOverSound
<1>6. CASE s.speaking /\ s.done
  <2>1. s.fetch = "none"
    BY <1>6 DEF Plays
  <2>. QED  BY <1>1, <1>2, <1>3, <1>4, <1>6, <2>1, PlaybackOverSound
<1>7. CASE s.speaking /\ ~s.done
  <2>1. p \in BridgeOK
    BY <1>1, Put DEF Places
  <2>2. /\ p.fetch = t.fetch /\ p.cue = t.cue /\ p.wait = t.wait /\ p.speaking = t.speaking
        /\ p.hasty = t.hasty /\ p.turn = t.turn /\ p.silent = t.silent
        /\ p.errors = t.errors /\ p.cut = t.cut /\ p.raised = t.raised
        /\ p.media = t.media /\ p.listening = t.listening /\ p.done = t.done
        /\ p.silenced = t.silenced /\ p.at = "playback"
    BY <1>1 DEF BridgeOK
  <2>. HIDE DEF p
  <2>3. Counts(p)
    BY <1>2, <2>2 DEF Counts, Tones
  <2>4. Plays(p)
    BY <1>2, <1>4, <1>7, <2>2 DEF Plays
  <2>5. Owes(p) /\ Speaks(p)
    BY <1>2, <1>4, <1>7, <2>2 DEF Owes, Speaks
  <2>. QED  BY <1>3, <1>7, <2>1, <2>3, <2>4, <2>5 DEF Sound
<1>. QED  BY <1>5, <1>6, <1>7
-----------------------------------------------------------------------------
(* Steps of the session. *)

LEMMA RestsThere ==
    ASSUME NEW s, Sound(s), s.at \in {"begin", "settle", "backoff"}
    PROVE  Rests(s) /\ s.wait = "none"
<1>1. s \in BridgeOK /\ s.media \in Medias /\ s.wait \in {"none", "tone", "tts"}
  BY FieldsOf DEF Sound
<1>2. Counts(s) /\ Plays(s) /\ Speaks(s)
  BY DEF Sound
<1>. QED  BY <1>1, <1>2 DEF Rests, Counts, Plays, Speaks, Tones, Medias, Replies

LEMMA BegunThere ==
    ASSUME NEW s, Sound(s), s.at \in Tones, s.at = "tone" => s.done \/ s.media # "tone"
    PROVE  Begun(s)
<1>1. s \in BridgeOK /\ s.media \in Medias
  BY FieldsOf DEF Sound
<1>2. Counts(s) /\ Plays(s) /\ Speaks(s)
  BY DEF Sound, Tones
<1>3. Rests(s)
  BY <1>1, <1>2 DEF Rests, Counts, Plays, Speaks, Tones, Medias, Replies
<1>. QED  BY <1>2, <1>3 DEF Begun, Counts

LEMMA SessionStepSound == Sound(b) /\ SessionStep => Sound(b')
<1>. SUFFICES ASSUME Sound(b), SessionStep PROVE Sound(b')
  OBVIOUS
<1>1. /\ b \in BridgeOK /\ Counts(b) /\ (b.at # "gone" => Plays(b)) /\ Owes(b) /\ Speaks(b)
      /\ b.media \in Medias /\ b.turn \in 0..MaxTurns /\ MaxTurns \in Nat \ {0}
  BY AssistAssumption, FieldsOf DEF Sound, AssistAssumption
<1>2. CASE SessionBegins
  <2>1. b.at = "begin" /\ b.turn = 0 /\ Rests(b) /\ b.wait = "none"
    BY <1>1, <1>2, RestsThere DEF SessionBegins, Counts
  <2>. DEFINE r == [b EXCEPT !.at = "pipeline", !.stage = "run"]
  <2>2. b' = r \/ b' = StartTurn(b)
    BY <1>2 DEF SessionBegins, Becomes
  <2>3. r \in BridgeOK
    BY <1>1, Put DEF Places, Stages
  <2>4. /\ r.at = "pipeline" /\ r.turn = b.turn /\ r.silent = b.silent
        /\ r.errors = b.errors /\ r.fetch = b.fetch /\ r.media = b.media /\ r.wait = b.wait
        /\ r.cue = b.cue /\ r.hasty = b.hasty /\ r.done = b.done /\ r.speaking = b.speaking
        /\ r.silenced = b.silenced /\ r.cut = b.cut /\ r.raised = b.raised
        /\ r.listening = b.listening /\ r.stage = "run" /\ r.playingToken = b.playingToken
    BY <1>1 DEF BridgeOK
  <2>. HIDE DEF r
  <2>5. Counts(r) /\ Plays(r)
    BY <1>1, <2>1, <2>4 DEF Rests, Counts, Plays, Tones, Replies
  <2>6. Owes(r) /\ Speaks(r)
    BY <2>1, <2>4 DEF Rests, Owes, Speaks
  <2>. QED  BY <1>1, <2>1, <2>2, <2>3, <2>5, <2>6, StartTurnSound DEF Sound
<1>3. CASE ToneIdle
  <2>1. Begun(b) /\ b' = FetchTone(b)
    BY <1>3, BegunThere DEF ToneIdle, Becomes, Tones
  <2>. QED  BY <2>1, FetchToneSound
<1>4. CASE ToneFetched
  <2>1. Begun(b) /\ b' = PlayTone(b)
    BY <1>4, BegunThere DEF ToneFetched, Becomes, Tones
  <2>. QED  BY <2>1, PlayToneSound
<1>5. CASE ToneUnplayable \/ ToneDone
  <2>1. Begun(b) /\ b' = ToneOver(b)
    BY <1>5, BegunThere DEF ToneUnplayable, ToneDone, Becomes, Tones
  <2>. QED  BY <2>1, ToneOverSound
<1>6. CASE ToneTimeout
  <2>. DEFINE r == [b EXCEPT !.media = "none"]
  <2>1. b.at = "tone" /\ b' = ToneOver(r)
    BY <1>6 DEF ToneTimeout, Becomes
  <2>2. r \in BridgeOK
    BY <1>1, Put DEF Medias
  <2>3. /\ r.at = b.at /\ r.turn = b.turn /\ r.silent = b.silent /\ r.errors = b.errors
        /\ r.fetch = b.fetch /\ r.media = "none" /\ r.wait = b.wait /\ r.cue = b.cue
        /\ r.hasty = b.hasty /\ r.done = b.done /\ r.speaking = b.speaking
        /\ r.silenced = b.silenced /\ r.cut = b.cut /\ r.raised = b.raised
        /\ r.listening = b.listening /\ r.stage = b.stage /\ r.playingToken = b.playingToken
    BY <1>1 DEF BridgeOK
  <2>. HIDE DEF r
  <2>4. Begun(r)
    BY <1>1, <2>1, <2>2, <2>3 DEF Begun, Rests, Counts, Plays, Speaks, Tones
  <2>. QED  BY <2>1, <2>4, ToneOverSound
<1>7. CASE PlaybackDone
  <2>1. b.at = "playback" /\ b.done /\ b' = PlaybackOver(b)
    BY <1>7 DEF PlaybackDone, Becomes
  <2>2. /\ b.silent <= b.turn /\ b.errors <= b.turn /\ (b.cut => b.raised)
        /\ ~b.listening /\ b.fetch = "none" /\ b.speaking /\ b.wait # "tone"
        /\ b.media = "cue" => b.cue = "played"
        /\ b.media = "tone" => b.hasty
    BY <1>1, <2>1 DEF Counts, Plays, Speaks, Tones
  <2>. QED  BY <1>1, <2>1, <2>2, PlaybackOverSound
<1>8. CASE PlaybackTimeout
  <2>. DEFINE c == CancelTts(b, TRUE)
  <2>1. /\ b.at = "playback"
        /\ b' = PlaybackOver(c) \/ (b.fetch = "none" /\ b' = PlaybackOver(b))
    BY <1>8 DEF PlaybackTimeout, Becomes
  <2>2. /\ b.silent <= b.turn /\ b.errors <= b.turn /\ (b.cut => b.raised)
        /\ ~b.listening /\ b.speaking /\ b.wait # "tone"
        /\ b.media = "cue" => b.cue = "played"
        /\ b.media = "tone" => b.hasty
    BY <1>1, <2>1 DEF Counts, Plays, Speaks, Tones
  <2>3. c \in BridgeOK /\ c = [b EXCEPT !.fetch = "none", !.media = "none"]
    BY <1>1, CancelTtsDoes DEF CancelTts
  <2>. HIDE DEF c
  <2>4. /\ c.at = b.at /\ c.turn = b.turn /\ c.silent = b.silent /\ c.errors = b.errors
        /\ c.fetch = "none" /\ c.media = "none" /\ c.wait = b.wait /\ c.cue = b.cue
        /\ c.hasty = b.hasty /\ c.done = b.done /\ c.speaking = b.speaking
        /\ c.silenced = b.silenced /\ c.cut = b.cut /\ c.raised = b.raised
        /\ c.listening = b.listening /\ c.stage = b.stage /\ c.playingToken = b.playingToken
    BY <1>1, <2>3 DEF BridgeOK
  <2>5. Sound(PlaybackOver(c))
    BY <2>2, <2>3, <2>4, PlaybackOverSound
  <2>. QED  BY <1>1, <2>1, <2>2, <2>5, PlaybackOverSound
<1>9. CASE ReplyIdle
  <2>1. /\ b.at = "replyIdle" /\ b' = ReplyOver(b)
        /\ b.media = "none" \/ b.media \notin Replies
    BY <1>9 DEF ReplyIdle, Becomes, IdleTimeout
  <2>2. /\ b.silent <= b.turn /\ b.errors <= b.turn /\ (b.cut => b.raised)
        /\ ~b.listening /\ b.fetch = "none" /\ b.cue = "off"
        /\ b.media = "tone" => b.hasty
        /\ b.media \in {"none", "other", "tone"}
    BY <1>1, <2>1 DEF Counts, Plays, Speaks, Tones, Replies, Medias
  <2>. QED  BY <1>1, <2>1, <2>2, ReplyOverSound
<1>10. CASE Settled
  <2>1. Rests(b) /\ b.wait = "none" /\ b' = TurnOver(b)
    BY <1>10, RestsThere DEF Settled, Becomes
  <2>. QED  BY <2>1, TurnOverSound
<1>11. CASE BackedOff
  <2>1. Rests(b) /\ b.wait = "none" /\ b' = StartTurn(b) /\ b.turn < MaxTurns
    BY <1>1, <1>11, RestsThere DEF BackedOff, Becomes, Counts
  <2>. QED  BY <2>1, StartTurnSound
<1>. QED
  BY <1>2, <1>3, <1>4, <1>5, <1>6, <1>7, <1>8, <1>9, <1>10, <1>11 DEF SessionStep
-----------------------------------------------------------------------------
(* Steps of the pipeline. *)

\* A reply begins, unless this run has one already or Core does not know it.
LEMMA BeginTtsSound ==
    ASSUME NEW s, Sound(s), s.at = "pipeline", s.stage \in {"intent", "tts"}, NEW known
    PROVE  /\ Sound(BeginTts(s, known))
           /\ BeginTts(s, known).at = "pipeline" /\ BeginTts(s, known).stage = s.stage
<1>. DEFINE r == [s EXCEPT !.playingToken = TRUE, !.listening = FALSE, !.speaking = TRUE,
                           !.done = FALSE, !.fetch = "first", !.silenced = FALSE]
<1>1. s \in BridgeOK /\ Counts(s) /\ Plays(s) /\ Owes(s) /\ Speaks(s)
      /\ s.wait \in {"none", "tone", "tts"}
  BY FieldsOf DEF Sound
<1>2. CASE s.playingToken \/ ~known
  BY <1>2 DEF BeginTts
<1>3. CASE ~(s.playingToken \/ ~known)
  <2>1. BeginTts(s, known) = r
    BY <1>3 DEF BeginTts
  <2>2. r \in BridgeOK
    BY <1>1, Put
  <2>3. /\ r.at = s.at /\ r.turn = s.turn /\ r.silent = s.silent /\ r.errors = s.errors
        /\ r.fetch = "first" /\ r.media = s.media /\ r.wait = s.wait /\ r.cue = s.cue
        /\ r.hasty = s.hasty /\ ~r.done /\ r.speaking /\ r.cut = s.cut
        /\ r.raised = s.raised /\ ~r.listening /\ r.stage = s.stage /\ r.playingToken
    BY <1>1 DEF BridgeOK
  <2>. HIDE DEF r
  <2>4. s.wait = "none" /\ ~s.speaking
    BY <1>1, <1>3 DEF Plays, Speaks, Tones
  <2>5. Counts(r) /\ Plays(r)
    BY <1>1, <2>3, <2>4 DEF Counts, Plays
  <2>6. Owes(r) /\ Speaks(r)
    BY <1>1, <2>3 DEF Owes, Speaks
  <2>. QED  BY <2>1, <2>2, <2>3, <2>5, <2>6 DEF Sound
<1>. QED  BY <1>2, <1>3

\* A later stage.
LEMMA StageSound ==
    ASSUME NEW s, Sound(s), s.at = "pipeline", NEW r \in BridgeOK,
           NEW stage \in {"intent", "tts", "end"},
           r.at = s.at, r.turn = s.turn, r.silent = s.silent, r.errors = s.errors,
           r.fetch = s.fetch, r.media = s.media, r.wait = s.wait, r.cue = s.cue,
           r.hasty = s.hasty, r.done = s.done, r.speaking = s.speaking,
           r.silenced = s.silenced, r.cut = s.cut, r.raised = s.raised,
           r.listening = s.listening, r.stage = stage, r.playingToken = s.playingToken
    PROVE  Sound(r)
<1>1. s \in BridgeOK /\ Counts(s) /\ Plays(s) /\ Owes(s) /\ Speaks(s)
  BY DEF Sound
<1>2. Counts(r) /\ Plays(r)
  BY <1>1 DEF Counts, Plays
<1>3. Owes(r) /\ Speaks(r)
  BY <1>1 DEF Owes, Speaks
<1>. QED  BY <1>2, <1>3 DEF Sound

LEMMA AbortTtsSound ==
    ASSUME NEW s, Sound(s), s.at = "pipeline"
    PROVE  Sound(AbortTts(s)) /\ AbortTts(s).at = "pipeline"
<1>. DEFINE c == CancelTts(s, TRUE)
            r == [c EXCEPT !.done = TRUE]
<1>1. s \in BridgeOK /\ Counts(s) /\ Plays(s) /\ Owes(s) /\ Speaks(s)
  BY DEF Sound
<1>2. c \in BridgeOK /\ c = [s EXCEPT !.fetch = "none", !.media = "none"]
  BY <1>1, CancelTtsDoes DEF CancelTts
<1>3. AbortTts(s) \in {r, s} /\ (AbortTts(s) = s \/ s.speaking)
  BY DEF AbortTts
<1>. HIDE DEF c
<1>4. r \in BridgeOK
  BY <1>2, Put
<1>5. /\ c.at = s.at /\ c.turn = s.turn /\ c.silent = s.silent /\ c.errors = s.errors
      /\ c.fetch = "none" /\ c.media = "none" /\ c.wait = s.wait /\ c.cue = s.cue
      /\ c.hasty = s.hasty /\ c.done = s.done /\ c.speaking = s.speaking
      /\ c.silenced = s.silenced /\ c.cut = s.cut /\ c.raised = s.raised
      /\ c.listening = s.listening /\ c.stage = s.stage /\ c.playingToken = s.playingToken
  BY <1>1, <1>2 DEF BridgeOK
<1>6. /\ r.at = c.at /\ r.turn = c.turn /\ r.silent = c.silent /\ r.errors = c.errors
      /\ r.fetch = c.fetch /\ r.media = c.media /\ r.wait = c.wait /\ r.cue = c.cue
      /\ r.hasty = c.hasty /\ r.done /\ r.speaking = c.speaking /\ r.silenced = c.silenced
      /\ r.cut = c.cut /\ r.raised = c.raised /\ r.listening = c.listening
      /\ r.stage = c.stage /\ r.playingToken = c.playingToken
  BY <1>2 DEF BridgeOK
<1>. HIDE DEF r
<1>7. ASSUME s.speaking PROVE Sound(r)
  <2>1. Counts(r) /\ Plays(r)
    BY <1>1, <1>5, <1>6, <1>7 DEF Counts, Plays, Replies
  <2>2. Owes(r) /\ Speaks(r)
    BY <1>1, <1>5, <1>6 DEF Owes, Speaks
  <2>. QED  BY <1>4, <2>1, <2>2 DEF Sound
<1>. QED  BY <1>3, <1>5, <1>6, <1>7

\* The run of the pipeline of turn s.turn is over, counted or not.
LEMMA RunOverSound ==
    ASSUME NEW s, Sound(s), s.at = "pipeline"
    PROVE  /\ Sound(RunOver(s)) /\ RunOver(s).at = "pipeline" /\ ~RunOver(s).listening
           /\ ~RunOver(s).speaking => RunOver(s).cue = "off"
           /\ RunOver(s).turn = s.turn
<1>. DEFINE c == IF s.speaking THEN s ELSE StopCue(s, TRUE)
            r == [c EXCEPT !.listening = FALSE]
<1>1. s \in BridgeOK /\ Counts(s) /\ Plays(s) /\ Owes(s) /\ Speaks(s) /\ s.media \in Medias
  BY FieldsOf DEF Sound
<1>2. /\ c \in BridgeOK
      /\ c = IF s.speaking THEN s ELSE [s EXCEPT !.cue = "off", !.media = c.media]
      /\ c.media = IF ~s.speaking /\ s.cue = "played" THEN "none" ELSE s.media
  BY <1>1, StopCueDoes
<1>3. RunOver(s) = r
  BY DEF RunOver
<1>. HIDE DEF c
<1>4. /\ c.at = s.at /\ c.turn = s.turn /\ c.silent = s.silent /\ c.errors = s.errors
      /\ c.fetch = s.fetch /\ c.wait = s.wait /\ c.hasty = s.hasty /\ c.done = s.done
      /\ c.speaking = s.speaking /\ c.silenced = s.silenced /\ c.cut = s.cut
      /\ c.raised = s.raised /\ c.listening = s.listening /\ c.stage = s.stage
      /\ c.playingToken = s.playingToken
      /\ c.cue = IF s.speaking THEN s.cue ELSE "off"
  <2>1. CASE s.speaking
    BY <1>2, <2>1
  <2>2. CASE ~s.speaking
    <3>. DEFINE m == c.media
    <3>1. c = [s EXCEPT !.cue = "off", !.media = m]
      BY <1>2, <2>2
    <3>. HIDE DEF m
    <3>2. /\ c.at = s.at /\ c.turn = s.turn /\ c.silent = s.silent /\ c.errors = s.errors
          /\ c.fetch = s.fetch /\ c.wait = s.wait /\ c.cue = "off" /\ c.hasty = s.hasty
          /\ c.done = s.done /\ c.speaking = s.speaking /\ c.silenced = s.silenced
          /\ c.cut = s.cut /\ c.raised = s.raised /\ c.listening = s.listening
          /\ c.stage = s.stage /\ c.playingToken = s.playingToken
      BY <1>1, <3>1 DEF BridgeOK
    <3>. QED  BY <2>2, <3>2
  <2>. QED  BY <2>1, <2>2
<1>5. r \in BridgeOK
  BY <1>2, Put
<1>6. /\ r.at = c.at /\ r.turn = c.turn /\ r.silent = c.silent /\ r.errors = c.errors
      /\ r.fetch = c.fetch /\ r.media = c.media /\ r.wait = c.wait /\ r.cue = c.cue
      /\ r.hasty = c.hasty /\ r.done = c.done /\ r.speaking = c.speaking
      /\ r.silenced = c.silenced /\ r.cut = c.cut /\ r.raised = c.raised /\ ~r.listening
      /\ r.stage = c.stage /\ r.playingToken = c.playingToken
  BY <1>2 DEF BridgeOK
<1>. HIDE DEF r
<1>7. Counts(r)
  BY <1>1, <1>4, <1>6 DEF Counts
<1>8. Plays(r)
  BY <1>1, <1>2, <1>4, <1>6 DEF Plays, Replies
<1>9. Owes(r) /\ Speaks(r)
  BY <1>1, <1>2, <1>4, <1>6 DEF Owes, Speaks
<1>. QED  BY <1>3, <1>4, <1>5, <1>6, <1>7, <1>8, <1>9 DEF Sound

\* A run that ends is waited out.
LEMMA RunEnds == Sound(b) /\ PipelineEnds => Sound(b')
<1>. SUFFICES ASSUME Sound(b), PipelineEnds PROVE Sound(b')
  OBVIOUS
<1>1. b.at = "pipeline" /\ b' = WaitPlaybackDone(IF b.turn = 0 THEN b ELSE Counted(RunOver(b)))
  BY DEF PipelineEnds, Running, Becomes
<1>2. CASE b.turn = 0
  <2>1. /\ b \in BridgeOK /\ b.silent <= b.turn /\ b.errors <= b.turn
        /\ Plays(b) /\ Owes(b) /\ Speaks(b) /\ b.turn \in 0..MaxTurns
    BY <1>1, FieldsOf DEF Sound, Counts
  <2>2. ~b.listening /\ b.cue = "off"
    BY <1>2, <2>1 DEF Plays, Speaks
  <2>. QED  BY <1>1, <1>2, <2>1, <2>2, WaitPlaybackDoneSound
<1>3. CASE b.turn # 0
  <2>. DEFINE r == RunOver(b)
              n == IF ~r.continue /\ r.error = "silent" THEN r.silent + 1 ELSE 0
              m == IF ~r.continue /\ r.error = "error" THEN r.errors + 1 ELSE 0
              t == [r EXCEPT !.silent = n, !.errors = m]
  <2>1. /\ Sound(r) /\ r.at = "pipeline" /\ ~r.listening
        /\ ~r.speaking => r.cue = "off"
        /\ r.turn = b.turn
    BY <1>1, RunOverSound
  <2>2. b' = WaitPlaybackDone(t)
    BY <1>1, <1>3 DEF Counted
  <2>. HIDE DEF r
  <2>3. /\ r \in BridgeOK /\ Counts(r) /\ Plays(r) /\ Owes(r) /\ Speaks(r)
        /\ r.turn \in 0..MaxTurns /\ r.silent \in 0..MaxTurns /\ r.errors \in 0..MaxTurns
        /\ MaxTurns \in Nat
    BY <2>1, FieldsOf, AssistAssumption DEF Sound, AssistAssumption
  <2>4. n \in 0..MaxTurns /\ m \in 0..MaxTurns /\ n <= r.turn /\ m <= r.turn
    BY <1>3, <2>1, <2>3 DEF Counts
  <2>. HIDE DEF n, m
  <2>5. t \in BridgeOK
    BY <2>3, <2>4, Put
  <2>6. /\ t.at = r.at /\ t.turn = r.turn /\ t.silent = n /\ t.errors = m
        /\ t.fetch = r.fetch /\ t.media = r.media /\ t.wait = r.wait /\ t.cue = r.cue
        /\ t.hasty = r.hasty /\ t.done = r.done /\ t.speaking = r.speaking
        /\ t.silenced = r.silenced /\ t.cut = r.cut /\ t.raised = r.raised
        /\ t.listening = r.listening /\ t.stage = r.stage /\ t.playingToken = r.playingToken
    BY <2>3 DEF BridgeOK
  <2>. HIDE DEF t
  <2>7. Plays(t)
    BY <2>1, <2>3, <2>6 DEF Plays
  <2>8. Owes(t) /\ Speaks(t)
    BY <2>1, <2>3, <2>6 DEF Owes, Speaks
  <2>9. t.silent <= t.turn /\ t.errors <= t.turn
    BY <2>4, <2>6
  <2>. QED  BY <2>1, <2>2, <2>5, <2>6, <2>7, <2>8, <2>9, WaitPlaybackDoneSound
<1>. QED  BY <1>2, <1>3

LEMMA RunRaises == Sound(b) /\ PipelineRaises => Sound(b')
<1>. SUFFICES ASSUME Sound(b), PipelineRaises PROVE Sound(b')
  OBVIOUS
<1>. DEFINE c == IF b.turn = 0 THEN b ELSE RunOver(b)
            r == [c EXCEPT !.raised = TRUE]
<1>1. b.at = "pipeline" /\ b' = EndSession(r)
  BY DEF PipelineRaises, Becomes
<1>2. Sound(c)
  BY <1>1, RunOverSound
<1>. HIDE DEF c
<1>3. c \in BridgeOK /\ c.silent <= c.turn /\ c.errors <= c.turn
  BY <1>2 DEF Sound, Counts
<1>4. r \in BridgeOK
  BY <1>3, Put
<1>5. r.raised /\ r.silent = c.silent /\ r.errors = c.errors /\ r.turn = c.turn
  BY <1>3 DEF BridgeOK
<1>. QED  BY <1>1, <1>3, <1>4, <1>5, EndSessionSound

LEMMA PipelineSound ==
    ASSUME Sound(b), PipelineStep \/ HangupTool \/ Streams \/ PipelineRaises
    PROVE  Sound(b')
<1>1. /\ b \in BridgeOK /\ Counts(b) /\ (b.at # "gone" => Plays(b)) /\ Owes(b) /\ Speaks(b)
  BY DEF Sound
<1>2. CASE RunStart
  <2>1. PICK token \in BOOLEAN :
           b' = [b EXCEPT !.runToken = token, !.stage = IF b.turn = 0 THEN "intent" ELSE "stt"]
    BY <1>2 DEF RunStart, Becomes
  <2>. DEFINE stage == IF b.turn = 0 THEN "intent" ELSE "stt"
  <2>2. b.at = "pipeline" /\ b.stage = "run" /\ b.turn \in 0..MaxTurns
    BY <1>1, <1>2, FieldsOf DEF RunStart, Running
  <2>3. stage \in {"intent", "stt"} /\ (stage = "stt" => b.turn > 0)
    BY <2>2
  <2>4. b' = [b EXCEPT !.runToken = token, !.stage = stage]
    BY <2>1
  <2>. HIDE DEF stage
  <2>5. b' \in BridgeOK
    BY <1>1, <2>3, <2>4, Put DEF Stages
  <2>6. /\ b'.at = b.at /\ b'.turn = b.turn /\ b'.silent = b.silent /\ b'.errors = b.errors
        /\ b'.fetch = b.fetch /\ b'.media = b.media /\ b'.wait = b.wait /\ b'.cue = b.cue
        /\ b'.hasty = b.hasty /\ b'.done = b.done /\ b'.speaking = b.speaking
        /\ b'.silenced = b.silenced /\ b'.cut = b.cut /\ b'.raised = b.raised
        /\ b'.listening = b.listening /\ b'.stage = stage
        /\ b'.playingToken = b.playingToken
    BY <1>1, <2>4 DEF BridgeOK
  <2>7. Counts(b') /\ Plays(b')
    BY <1>1, <2>2, <2>6 DEF Counts, Plays
  <2>8. Owes(b') /\ Speaks(b')
    BY <1>1, <2>2, <2>3, <2>6 DEF Owes, Speaks
  <2>. QED  BY <2>5, <2>7, <2>8 DEF Sound
<1>3. CASE SttEnd
  <2>. DEFINE cue == IF opt.cue /\ b.cue = "off" THEN "fetch" ELSE b.cue
  <2>1. /\ b.at = "pipeline" /\ b.stage = "stt" /\ cue \in {"off", "fetch"}
        /\ b' = [b EXCEPT !.stage = "intent", !.cue = cue] /\ b.turn > 0 /\ b.cue = "off"
    BY <1>1, <1>3 DEF SttEnd, Running, Becomes, Speaks
  <2>. HIDE DEF cue
  <2>2. b' \in BridgeOK
    BY <1>1, <2>1, Put DEF Stages
  <2>3. /\ b'.at = b.at /\ b'.turn = b.turn /\ b'.silent = b.silent /\ b'.errors = b.errors
        /\ b'.fetch = b.fetch /\ b'.media = b.media /\ b'.wait = b.wait /\ b'.cue = cue
        /\ b'.hasty = b.hasty /\ b'.done = b.done /\ b'.speaking = b.speaking
        /\ b'.silenced = b.silenced /\ b'.cut = b.cut /\ b'.raised = b.raised
        /\ b'.listening = b.listening /\ b'.stage = "intent"
        /\ b'.playingToken = b.playingToken
    BY <1>1, <2>1 DEF BridgeOK
  <2>4. Counts(b') /\ Plays(b')
    BY <1>1, <2>1, <2>3 DEF Counts, Plays
  <2>5. Owes(b') /\ Speaks(b')
    BY <1>1, <2>1, <2>3 DEF Owes, Speaks
  <2>. QED  BY <2>2, <2>4, <2>5 DEF Sound
<1>4. CASE HangupTool
  <2>1. b.at = "pipeline" /\ b.stage = "intent" /\ b' = [b EXCEPT !.hangup = TRUE]
    BY <1>4 DEF HangupTool, Running, Becomes
  <2>2. b' \in BridgeOK
    BY <1>1, <2>1, Put
  <2>3. /\ b'.at = b.at /\ b'.turn = b.turn /\ b'.silent = b.silent /\ b'.errors = b.errors
        /\ b'.fetch = b.fetch /\ b'.media = b.media /\ b'.wait = b.wait /\ b'.cue = b.cue
        /\ b'.hasty = b.hasty /\ b'.done = b.done /\ b'.speaking = b.speaking
        /\ b'.silenced = b.silenced /\ b'.cut = b.cut /\ b'.raised = b.raised
        /\ b'.listening = b.listening /\ b'.stage = b.stage
        /\ b'.playingToken = b.playingToken
    BY <1>1, <2>1 DEF BridgeOK
  <2>. QED  BY <2>1, <2>2, <2>3, StageSound
<1>5. CASE Streams
  <2>1. PICK known \in BOOLEAN : b' = BeginTts(b, known)
    BY <1>5 DEF Streams, Becomes
  <2>2. b.at = "pipeline" /\ b.stage = "intent"
    BY <1>5 DEF Streams, Running
  <2>. QED  BY <2>1, <2>2, BeginTtsSound
<1>6. CASE IntentEnd
  <2>1. PICK more \in BOOLEAN : b' = [b EXCEPT !.stage = "tts", !.continue = more]
    BY <1>6 DEF IntentEnd, Becomes
  <2>2. b.at = "pipeline"
    BY <1>6 DEF IntentEnd, Running
  <2>3. b' \in BridgeOK
    BY <1>1, <2>1, Put DEF Stages
  <2>4. /\ b'.at = b.at /\ b'.turn = b.turn /\ b'.silent = b.silent /\ b'.errors = b.errors
        /\ b'.fetch = b.fetch /\ b'.media = b.media /\ b'.wait = b.wait /\ b'.cue = b.cue
        /\ b'.hasty = b.hasty /\ b'.done = b.done /\ b'.speaking = b.speaking
        /\ b'.silenced = b.silenced /\ b'.cut = b.cut /\ b'.raised = b.raised
        /\ b'.listening = b.listening /\ b'.stage = "tts"
        /\ b'.playingToken = b.playingToken
    BY <1>1, <2>1 DEF BridgeOK
  <2>. QED  BY <2>2, <2>3, <2>4, StageSound
<1>7. CASE TtsEnd
  <2>1. PICK known \in BOOLEAN : b' = [BeginTts(b, known) EXCEPT !.stage = "end"]
    BY <1>7 DEF TtsEnd, Becomes
  <2>2. b.at = "pipeline" /\ b.stage = "tts"
    BY <1>7 DEF TtsEnd, Running
  <2>. DEFINE t == BeginTts(b, known)
  <2>3. Sound(t) /\ t.at = "pipeline"
    BY <2>2, BeginTtsSound
  <2>. HIDE DEF t
  <2>4. t \in BridgeOK /\ b' = [t EXCEPT !.stage = "end"]
    BY <2>1, <2>3 DEF Sound, t
  <2>5. b' \in BridgeOK
    BY <2>4, Put DEF Stages
  <2>6. /\ b'.at = t.at /\ b'.turn = t.turn /\ b'.silent = t.silent /\ b'.errors = t.errors
        /\ b'.fetch = t.fetch /\ b'.media = t.media /\ b'.wait = t.wait /\ b'.cue = t.cue
        /\ b'.hasty = t.hasty /\ b'.done = t.done /\ b'.speaking = t.speaking
        /\ b'.silenced = t.silenced /\ b'.cut = t.cut /\ b'.raised = t.raised
        /\ b'.listening = t.listening /\ b'.stage = "end"
        /\ b'.playingToken = t.playingToken
    BY <2>4 DEF BridgeOK
  <2>. QED  BY <2>3, <2>5, <2>6, StageSound
<1>8. CASE PipelineError
  <2>1. PICK error \in {"error", "silent"} :
           b' = [AbortTts(b) EXCEPT !.stage = "end", !.error = error]
    BY <1>8 DEF PipelineError, Becomes
  <2>2. b.at = "pipeline"
    BY <1>8 DEF PipelineError, Running
  <2>. DEFINE t == AbortTts(b)
  <2>3. Sound(t) /\ t.at = "pipeline"
    BY <2>2, AbortTtsSound
  <2>. HIDE DEF t
  <2>4. t \in BridgeOK /\ b' = [t EXCEPT !.stage = "end", !.error = error]
    BY <2>1, <2>3 DEF Sound, t
  <2>5. b' \in BridgeOK
    BY <2>4, Put DEF Stages
  <2>6. /\ b'.at = t.at /\ b'.turn = t.turn /\ b'.silent = t.silent /\ b'.errors = t.errors
        /\ b'.fetch = t.fetch /\ b'.media = t.media /\ b'.wait = t.wait /\ b'.cue = t.cue
        /\ b'.hasty = t.hasty /\ b'.done = t.done /\ b'.speaking = t.speaking
        /\ b'.silenced = t.silenced /\ b'.cut = t.cut /\ b'.raised = t.raised
        /\ b'.listening = t.listening /\ b'.stage = "end"
        /\ b'.playingToken = t.playingToken
    BY <2>4 DEF BridgeOK
  <2>. QED  BY <2>3, <2>5, <2>6, StageSound
<1>. QED  BY <1>2, <1>3, <1>4, <1>5, <1>6, <1>7, <1>8, RunEnds, RunRaises DEF PipelineStep
-----------------------------------------------------------------------------
(* Steps of the tasks, of the client and of its other users. *)

LEMMA PlayReplySound ==
    ASSUME NEW s \in BridgeOK, NEW handover \in BOOLEAN, Counts(s), Speaks(s),
           s.at # "gone" =>
             /\ s.speaking /\ s.at \in {"pipeline", "playback"}
             /\ s.cue # "off" => s.turn > 0
    PROVE  Sound(PlayReply(s, handover))
<1>. DEFINE m == IF handover THEN "fill" ELSE "reply"
            h == s.handover \/ handover
            r == [s EXCEPT !.media = m, !.handover = h, !.wait = "tts", !.fetch = "none"]
<1>1. m \in Medias /\ m \in Replies /\ m \notin {"none", "cue", "tone"} /\ h \in BOOLEAN
  BY DEF Medias, Replies
<1>2. PlayReply(s, handover) = r
  BY DEF PlayReply
<1>. HIDE DEF m, h
<1>3. r \in BridgeOK
  BY <1>1, Put
<1>4. /\ r.at = s.at /\ r.turn = s.turn /\ r.silent = s.silent /\ r.errors = s.errors
      /\ r.fetch = "none" /\ r.media = m /\ r.wait = "tts" /\ r.cue = s.cue
      /\ r.hasty = s.hasty /\ r.done = s.done /\ r.speaking = s.speaking
      /\ r.silenced = s.silenced /\ r.cut = s.cut /\ r.raised = s.raised
      /\ r.listening = s.listening /\ r.stage = s.stage /\ r.playingToken = s.playingToken
  BY DEF BridgeOK
<1>. HIDE DEF r
<1>5. Counts(r) /\ (r.at # "gone" => Plays(r))
  BY <1>1, <1>4 DEF Counts, Plays
<1>6. Owes(r) /\ Speaks(r)
  BY <1>1, <1>4 DEF Owes, Speaks
<1>. QED  BY <1>2, <1>3, <1>5, <1>6 DEF Sound

LEMMA TaskStepSound == Sound(b) /\ TaskStep => Sound(b')
<1>. SUFFICES ASSUME Sound(b), TaskStep PROVE Sound(b')
  OBVIOUS
<1>1. /\ b \in BridgeOK /\ Counts(b) /\ (b.at # "gone" => Plays(b)) /\ Owes(b) /\ Speaks(b)
      /\ b.media \in Medias
  BY FieldsOf DEF Sound
<1>2. CASE FirstChunk
  <2>. DEFINE handover == b.cue = "played"
              c == StopCue(b, ~handover)
              r == InterruptMedia(c)
              w == [r EXCEPT !.fetch = "idle"]
  <2>1. /\ b.fetch = "first"
        /\ b' = IF handover \/ r.media = "none" THEN PlayReply(r, handover) ELSE w
    BY <1>2 DEF FirstChunk, Becomes
  <2>2. c \in BridgeOK /\ c = [b EXCEPT !.cue = "off", !.media = b.media]
    <3>1. c \in BridgeOK
      BY <1>1, StopCueDoes
    <3>2. c = [b EXCEPT !.cue = "off", !.media = b.media]
      BY <1>1 DEF StopCue
    <3>. QED  BY <3>1, <3>2
  <2>. HIDE DEF c
  <2>3. /\ c.at = b.at /\ c.turn = b.turn /\ c.silent = b.silent /\ c.errors = b.errors
        /\ c.fetch = b.fetch /\ c.media = b.media /\ c.wait = b.wait /\ c.cue = "off"
        /\ c.hasty = b.hasty /\ c.done = b.done /\ c.speaking = b.speaking
        /\ c.silenced = b.silenced /\ c.cut = b.cut /\ c.raised = b.raised
        /\ c.listening = b.listening /\ c.stage = b.stage /\ c.playingToken = b.playingToken
    BY <1>1, <2>2 DEF BridgeOK
  <2>4. /\ r \in BridgeOK /\ r = [c EXCEPT !.interrupt = FALSE, !.media = r.media]
        /\ r.media \in {"none", c.media}
    BY <2>2, InterruptMediaDoes
  <2>. HIDE DEF r
  <2>5. /\ r.at = c.at /\ r.turn = c.turn /\ r.silent = c.silent /\ r.errors = c.errors
        /\ r.fetch = c.fetch /\ r.wait = c.wait /\ r.cue = c.cue /\ r.hasty = c.hasty
        /\ r.done = c.done /\ r.speaking = c.speaking /\ r.silenced = c.silenced
        /\ r.cut = c.cut /\ r.raised = c.raised /\ r.listening = c.listening
        /\ r.stage = c.stage /\ r.playingToken = c.playingToken
    <3>. DEFINE m == r.media
    <3>1. r = [c EXCEPT !.interrupt = FALSE, !.media = m]
      BY <2>4
    <3>. HIDE DEF m
    <3>. QED  BY <2>2, <3>1 DEF BridgeOK
  <2>6. Counts(r) /\ Speaks(r)
    BY <1>1, <2>3, <2>5 DEF Counts, Speaks
  <2>7. r.at # "gone" => r.speaking /\ r.at \in {"pipeline", "playback"} /\ r.wait = "none"
                          /\ ~r.done
    BY <1>1, <2>1, <2>3, <2>5 DEF Plays
  <2>8. CASE handover \/ r.media = "none"
    BY <2>1, <2>3, <2>4, <2>5, <2>6, <2>7, <2>8, PlayReplySound
  <2>9. CASE ~(handover \/ r.media = "none")
    <3>1. w \in BridgeOK
      BY <2>4, Put
    <3>2. /\ w.at = r.at /\ w.turn = r.turn /\ w.silent = r.silent /\ w.errors = r.errors
          /\ w.fetch = "idle" /\ w.media = r.media /\ w.wait = r.wait /\ w.cue = r.cue
          /\ w.hasty = r.hasty /\ w.done = r.done /\ w.speaking = r.speaking
          /\ w.silenced = r.silenced /\ w.cut = r.cut /\ w.raised = r.raised
          /\ w.listening = r.listening /\ w.stage = r.stage
          /\ w.playingToken = r.playingToken
      BY <2>4 DEF BridgeOK
    <3>. HIDE DEF w
    <3>3. Counts(w)
      BY <2>6, <3>2 DEF Counts
    <3>4. w.at # "gone" => Plays(w)
      BY <1>1, <2>3, <2>4, <2>5, <2>7, <2>9, <3>2 DEF Plays
    <3>5. Owes(w) /\ Speaks(w)
      BY <2>6, <3>2 DEF Owes, Speaks
    <3>. QED  BY <2>1, <2>9, <3>1, <3>3, <3>4, <3>5 DEF Sound
  <2>. QED  BY <2>8, <2>9
<1>3. CASE NoReply
  <2>1. b.fetch # "none" /\ b' = [b EXCEPT !.fetch = "none", !.done = TRUE]
    BY <1>3 DEF NoReply, Becomes
  <2>2. b' \in BridgeOK
    BY <1>1, <2>1, Put
  <2>3. /\ b'.at = b.at /\ b'.turn = b.turn /\ b'.silent = b.silent /\ b'.errors = b.errors
        /\ b'.fetch = "none" /\ b'.media = b.media /\ b'.wait = b.wait /\ b'.cue = b.cue
        /\ b'.hasty = b.hasty /\ b'.done /\ b'.speaking = b.speaking
        /\ b'.silenced = b.silenced /\ b'.cut = b.cut /\ b'.raised = b.raised
        /\ b'.listening = b.listening /\ b'.stage = b.stage
        /\ b'.playingToken = b.playingToken
    BY <1>1, <2>1 DEF BridgeOK
  <2>4. Counts(b') /\ (b'.at # "gone" => Plays(b'))
    BY <1>1, <2>1, <2>3 DEF Counts, Plays
  <2>5. Owes(b') /\ Speaks(b')
    BY <1>1, <2>3 DEF Owes, Speaks
  <2>. QED  BY <2>2, <2>4, <2>5 DEF Sound
<1>4. CASE ReplyMayPlay
  <2>1. b.fetch = "idle" /\ b' = PlayReply(b, FALSE)
    BY <1>4 DEF ReplyMayPlay, Becomes
  <2>2. b.at # "gone" =>
          /\ b.speaking /\ b.at \in {"pipeline", "playback"}
          /\ b.cue # "off" => b.turn > 0
    BY <1>1, <2>1 DEF Plays
  <2>3. Sound(PlayReply(b, FALSE))
    BY <1>1, <2>2, PlayReplySound
  <2>. QED  BY <2>1, <2>3
<1>5. CASE CueReady \/ CueFails
  <2>1. /\ b.cue = "fetch"
        /\ \/ b.media = "none" /\ b' = [b EXCEPT !.cue = "played", !.media = "cue"]
           \/ b' = [b EXCEPT !.cue = "skipped"]
    BY <1>5 DEF CueReady, CueFails, Becomes
  <2>2. b.at # "gone" => b.media # "cue" /\ b.turn > 0 /\ b.at \in {"pipeline", "playback"}
    BY <1>1, <2>1 DEF Plays
  <2>3. CASE b.media = "none" /\ b' = [b EXCEPT !.cue = "played", !.media = "cue"]
    <3>1. b' \in BridgeOK
      BY <1>1, <2>3, Put DEF Medias
    <3>2. /\ b'.at = b.at /\ b'.turn = b.turn /\ b'.silent = b.silent
          /\ b'.errors = b.errors /\ b'.fetch = b.fetch /\ b'.media = "cue"
          /\ b'.wait = b.wait /\ b'.cue = "played" /\ b'.hasty = b.hasty /\ b'.done = b.done
          /\ b'.speaking = b.speaking /\ b'.silenced = b.silenced /\ b'.cut = b.cut
          /\ b'.raised = b.raised /\ b'.listening = b.listening /\ b'.stage = b.stage
          /\ b'.playingToken = b.playingToken
      BY <1>1, <2>3 DEF BridgeOK
    <3>3. Counts(b') /\ (b'.at # "gone" => Plays(b'))
      BY <1>1, <2>2, <3>2 DEF Counts, Plays, Replies
    <3>4. Owes(b') /\ Speaks(b')
      BY <1>1, <2>1, <2>3, <3>2 DEF Owes, Speaks
    <3>. QED  BY <3>1, <3>3, <3>4 DEF Sound
  <2>4. CASE b' = [b EXCEPT !.cue = "skipped"]
    <3>1. b' \in BridgeOK
      BY <1>1, <2>4, Put
    <3>2. /\ b'.at = b.at /\ b'.turn = b.turn /\ b'.silent = b.silent
          /\ b'.errors = b.errors /\ b'.fetch = b.fetch /\ b'.media = b.media
          /\ b'.wait = b.wait /\ b'.cue = "skipped" /\ b'.hasty = b.hasty
          /\ b'.done = b.done /\ b'.speaking = b.speaking /\ b'.silenced = b.silenced
          /\ b'.cut = b.cut /\ b'.raised = b.raised /\ b'.listening = b.listening
          /\ b'.stage = b.stage /\ b'.playingToken = b.playingToken
      BY <1>1, <2>4 DEF BridgeOK
    <3>3. Counts(b') /\ (b'.at # "gone" => Plays(b'))
      BY <1>1, <2>2, <3>2 DEF Counts, Plays
    <3>4. Owes(b') /\ Speaks(b')
      BY <1>1, <2>1, <3>2 DEF Owes, Speaks
    <3>. QED  BY <3>1, <3>3, <3>4 DEF Sound
  <2>. QED  BY <2>1, <2>3, <2>4
<1>. QED  BY <1>2, <1>3, <1>4, <1>5 DEF TaskStep

LEMMA ClientSound ==
    ASSUME Sound(b), MediaEnds \/ ReplyStarts \/ BargeIn \/ OtherSource \/ Closed
    PROVE  Sound(b')
<1>1. /\ b \in BridgeOK /\ Counts(b) /\ (b.at # "gone" => Plays(b)) /\ Owes(b) /\ Speaks(b)
      /\ b.media \in Medias /\ b.done \in BOOLEAN
      /\ b.wait \in {"none", "tone", "tts"}
  BY FieldsOf DEF Sound
<1>2. CASE MediaEnds
  <2>. DEFINE done == b.done \/ b.wait # "none"
  <2>1. b' = [b EXCEPT !.media = "none", !.done = done]
    BY <1>2 DEF MediaEnds, SourceEnds, Becomes
  <2>2. done \in BOOLEAN /\ (done <=> b.done \/ b.wait # "none")
    BY <1>1
  <2>. HIDE DEF done
  <2>3. b' \in BridgeOK
    BY <1>1, <2>1, <2>2, Put DEF Medias
  <2>4. /\ b'.at = b.at /\ b'.turn = b.turn /\ b'.silent = b.silent /\ b'.errors = b.errors
        /\ b'.fetch = b.fetch /\ b'.media = "none" /\ b'.wait = b.wait /\ b'.cue = b.cue
        /\ b'.hasty = b.hasty /\ b'.done = done /\ b'.speaking = b.speaking
        /\ b'.silenced = b.silenced /\ b'.cut = b.cut /\ b'.raised = b.raised
        /\ b'.listening = b.listening /\ b'.stage = b.stage
        /\ b'.playingToken = b.playingToken
    BY <1>1, <2>1 DEF BridgeOK
  <2>5. Counts(b') /\ (b'.at # "gone" => Plays(b'))
    BY <1>1, <2>2, <2>4 DEF Counts, Plays, Replies
  <2>6. Owes(b') /\ Speaks(b')
    BY <1>1, <2>2, <2>4 DEF Owes, Speaks
  <2>. QED  BY <2>3, <2>5, <2>6 DEF Sound
<1>3. CASE ReplyStarts
  <2>1. b.media = "fill" /\ b' = [b EXCEPT !.media = "reply", !.handover = FALSE]
    BY <1>3 DEF ReplyStarts, Becomes
  <2>2. b' \in BridgeOK
    BY <1>1, <2>1, Put DEF Medias
  <2>3. /\ b'.at = b.at /\ b'.turn = b.turn /\ b'.silent = b.silent /\ b'.errors = b.errors
        /\ b'.fetch = b.fetch /\ b'.media = "reply" /\ b'.wait = b.wait /\ b'.cue = b.cue
        /\ b'.hasty = b.hasty /\ b'.done = b.done /\ b'.speaking = b.speaking
        /\ b'.silenced = b.silenced /\ b'.cut = b.cut /\ b'.raised = b.raised
        /\ b'.listening = b.listening /\ b'.stage = b.stage
        /\ b'.playingToken = b.playingToken
    BY <1>1, <2>1 DEF BridgeOK
  <2>4. Counts(b') /\ (b'.at # "gone" => Plays(b'))
    BY <1>1, <2>1, <2>3 DEF Counts, Plays, Replies
  <2>5. Owes(b') /\ Speaks(b')
    BY <1>1, <2>1, <2>3 DEF Owes, Speaks
  <2>. QED  BY <2>2, <2>4, <2>5 DEF Sound
<1>4. CASE BargeIn
  <2>. DEFINE c == CancelTts(b, TRUE)
  <2>1. b.speaking /\ b' = [c EXCEPT !.preroll = TRUE, !.capture = TRUE, !.done = TRUE]
    BY <1>4 DEF BargeIn, Becomes
  <2>2. c \in BridgeOK /\ c = [b EXCEPT !.fetch = "none", !.media = "none"]
    BY <1>1, CancelTtsDoes DEF CancelTts
  <2>. HIDE DEF c
  <2>3. /\ c.at = b.at /\ c.turn = b.turn /\ c.silent = b.silent /\ c.errors = b.errors
        /\ c.fetch = "none" /\ c.media = "none" /\ c.wait = b.wait /\ c.cue = b.cue
        /\ c.hasty = b.hasty /\ c.done = b.done /\ c.speaking = b.speaking
        /\ c.silenced = b.silenced /\ c.cut = b.cut /\ c.raised = b.raised
        /\ c.listening = b.listening /\ c.stage = b.stage /\ c.playingToken = b.playingToken
    BY <1>1, <2>2 DEF BridgeOK
  <2>4. b' \in BridgeOK
    BY <2>1, <2>2, Put
  <2>5. /\ b'.at = c.at /\ b'.turn = c.turn /\ b'.silent = c.silent /\ b'.errors = c.errors
        /\ b'.fetch = c.fetch /\ b'.media = c.media /\ b'.wait = c.wait /\ b'.cue = c.cue
        /\ b'.hasty = c.hasty /\ b'.done /\ b'.speaking = c.speaking
        /\ b'.silenced = c.silenced /\ b'.cut = c.cut /\ b'.raised = c.raised
        /\ b'.listening = c.listening /\ b'.stage = c.stage
        /\ b'.playingToken = c.playingToken
    BY <2>1, <2>2 DEF BridgeOK
  <2>6. Counts(b')
    BY <1>1, <2>3, <2>5 DEF Counts
  <2>7. b'.at # "gone" => Plays(b')
    <3>. SUFFICES ASSUME b.at # "gone" PROVE Plays(b')
      BY <2>3, <2>5
    <3>1. Plays(b)
      BY <1>1
    <3>2. b'.speaking /\ b'.fetch = "none" /\ b'.media = "none"
      BY <2>1, <2>3, <2>5
    <3>3. b'.cue # "off" => b'.at \in {"pipeline", "playback"} /\ b'.turn > 0
      BY <2>3, <2>5, <3>1 DEF Plays
    <3>4. b'.wait = "tone" => b'.at \in Tones
      BY <2>3, <2>5, <3>1 DEF Plays
    <3>. QED  BY <3>2, <3>3, <3>4 DEF Plays
  <2>8. Owes(b') /\ Speaks(b')
    BY <1>1, <2>3, <2>5 DEF Owes, Speaks
  <2>. QED  BY <2>4, <2>6, <2>7, <2>8 DEF Sound
<1>5. CASE OtherSource
  <2>1. \/ b' = [b EXCEPT !.media = "other"]
        \/ b' = [b EXCEPT !.media = "none", !.silenced = TRUE]
    BY <1>5 DEF OtherSource
  <2>2. CASE b' = [b EXCEPT !.media = "other"]
    <3>1. b' \in BridgeOK
      BY <1>1, <2>2, Put DEF Medias
    <3>2. /\ b'.at = b.at /\ b'.turn = b.turn /\ b'.silent = b.silent
          /\ b'.errors = b.errors /\ b'.fetch = b.fetch /\ b'.media = "other"
          /\ b'.wait = b.wait /\ b'.cue = b.cue /\ b'.hasty = b.hasty /\ b'.done = b.done
          /\ b'.speaking = b.speaking /\ b'.silenced = b.silenced /\ b'.cut = b.cut
          /\ b'.raised = b.raised /\ b'.listening = b.listening /\ b'.stage = b.stage
          /\ b'.playingToken = b.playingToken
      BY <1>1, <2>2 DEF BridgeOK
    <3>3. Counts(b') /\ (b'.at # "gone" => Plays(b'))
      BY <1>1, <3>2 DEF Counts, Plays, Replies
    <3>4. Owes(b') /\ Speaks(b')
      BY <1>1, <3>2 DEF Owes, Speaks
    <3>. QED  BY <3>1, <3>3, <3>4 DEF Sound
  <2>3. CASE b' = [b EXCEPT !.media = "none", !.silenced = TRUE]
    <3>1. b' \in BridgeOK
      BY <1>1, <2>3, Put DEF Medias
    <3>2. /\ b'.at = b.at /\ b'.turn = b.turn /\ b'.silent = b.silent
          /\ b'.errors = b.errors /\ b'.fetch = b.fetch /\ b'.media = "none"
          /\ b'.wait = b.wait /\ b'.cue = b.cue /\ b'.hasty = b.hasty /\ b'.done = b.done
          /\ b'.speaking = b.speaking /\ b'.silenced /\ b'.cut = b.cut
          /\ b'.raised = b.raised /\ b'.listening = b.listening /\ b'.stage = b.stage
          /\ b'.playingToken = b.playingToken
      BY <1>1, <2>3 DEF BridgeOK
    <3>3. Counts(b') /\ (b'.at # "gone" => Plays(b'))
      BY <1>1, <3>2 DEF Counts, Plays, Replies
    <3>4. Owes(b') /\ Speaks(b')
      BY <1>1, <3>2 DEF Owes, Speaks
    <3>. QED  BY <3>1, <3>3, <3>4 DEF Sound
  <2>. QED  BY <2>1, <2>2, <2>3
<1>6. CASE Closed
  <2>1. b' = Close(b) /\ b.silent <= b.turn /\ b.errors <= b.turn /\ (b.cut => b.raised)
    BY <1>1, <1>6 DEF Closed, Becomes, Counts, Speaks
  <2>. QED  BY <1>1, <2>1, CloseSound
<1>. QED  BY <1>2, <1>3, <1>4, <1>5, <1>6
-----------------------------------------------------------------------------
\* The invariant.
BridgeInv == opt \in Options /\ others \in 0..MaxOthers /\ Sound(b)

LEMMA BridgeStart == AssistInit => BridgeInv
<1>. SUFFICES ASSUME AssistInit PROVE BridgeInv
  OBVIOUS
<1>1. /\ opt \in Options /\ others \in 0..MaxOthers /\ opt.interrupt \in BOOLEAN
      /\ MaxTurns \in Nat
  BY AssistAssumption DEF AssistInit, AssistAssumption, OptionOK
<1>2. PICK playing \in {"none", "other"} :
        b = [at |-> "begin", stage |-> "none", media |-> playing, fetch |-> "none",
              cue |-> "off", wait |-> "none", done |-> FALSE,
              running |-> TRUE, listening |-> FALSE, speaking |-> FALSE, preroll |-> FALSE,
              capture |-> FALSE, handover |-> FALSE, interrupt |-> opt.interrupt,
              hangup |-> FALSE, runToken |-> FALSE, playingToken |-> FALSE,
              continue |-> FALSE, error |-> "none", turn |-> 0, silent |-> 0, errors |-> 0,
              closed |-> FALSE, hungUp |-> FALSE, cut |-> FALSE, raised |-> FALSE,
              hasty |-> FALSE, silenced |-> FALSE]
  BY DEF AssistInit
<1>3. b \in BridgeOK
  BY <1>1, <1>2 DEF BridgeOK
<1>4. /\ b.at = "begin" /\ b.media = playing /\ b.fetch = "none" /\ b.cue = "off"
      /\ b.wait = "none" /\ ~b.listening /\ ~b.speaking /\ ~b.cut
      /\ b.turn = 0 /\ b.silent = 0 /\ b.errors = 0
  BY <1>2
<1>5. Counts(b) /\ Plays(b) /\ Owes(b) /\ Speaks(b)
  BY <1>4 DEF Counts, Plays, Owes, Speaks, Tones, Replies
<1>. QED  BY <1>1, <1>3, <1>5 DEF BridgeInv, Sound

LEMMA BridgeStep == BridgeInv /\ [AssistNext]_assistVars => BridgeInv'
<1>. SUFFICES ASSUME BridgeInv, [AssistNext]_assistVars PROVE BridgeInv'
  OBVIOUS
<1>1. CASE UNCHANGED assistVars
  BY <1>1 DEF BridgeInv, assistVars
<1>2. CASE AssistNext
  <2>1. Sound(b')
    BY <1>2, SessionStepSound, PipelineSound, TaskStepSound, ClientSound
       DEF BridgeInv, AssistNext
  <2>2. opt' = opt /\ (others' = others \/ (others < MaxOthers /\ others' = others + 1))
    BY <1>2 DEF AssistNext, SessionStep, SessionBegins, ToneIdle, ToneFetched, ToneUnplayable,
       ToneDone, ToneTimeout, PlaybackDone, PlaybackTimeout, ReplyIdle, Settled, BackedOff,
       PipelineStep, RunStart, SttEnd, IntentEnd, TtsEnd, PipelineError, PipelineEnds,
       HangupTool, Streams, PipelineRaises, TaskStep, FirstChunk, NoReply, ReplyMayPlay,
       CueReady, CueFails, MediaEnds, ReplyStarts, BargeIn, OtherSource, Closed, Becomes
  <2>3. MaxOthers \in Nat
    BY AssistAssumption DEF AssistAssumption
  <2>. QED  BY <2>1, <2>2, <2>3 DEF BridgeInv
<1>. QED  BY <1>1, <1>2

LEMMA BridgeInvariant == AssistSpec => []BridgeInv
BY BridgeStart, BridgeStep, PTL DEF AssistSpec

\* The counters of turns, silent turns and errors stay within max_turns, whatever the
\* pipeline does, and every other field in its range.
THEOREM BridgeTypesCorrect == AssistSpec => []AssistTypeOK
<1>1. BridgeInv => AssistTypeOK
  BY DEF BridgeInv, Sound, AssistTypeOK
<1>. QED  BY <1>1, BridgeInvariant, PTL

\* Whenever speech recognition listens, reply, tone and cue are over, in any order of
\* turns, barge-in, tones, replies, errors and other audio (write(),
\* _play_turn_tone(), _wait_playback_done()), but for what hasty says.
THEOREM NoEchoHeard == AssistSpec => []HearsNoEcho
<1>1. BridgeInv => HearsNoEcho
  <2>. SUFFICES ASSUME BridgeInv, b.listening, b.stage \in {"run", "stt"}
                PROVE  b.hasty \/ b.media \notin OwnAudio
    BY DEF HearsNoEcho
  <2>1. Speaks(b) /\ b.at = "pipeline" /\ Plays(b)
    BY DEF BridgeInv, Sound, Speaks
  <2>. QED  BY <2>1 DEF Speaks, Plays, OwnAudio, Replies
<1>. QED  BY <1>1, BridgeInvariant, PTL

\* While the bridge waits for the end of a reply, the reply is still fetched or played,
\* so its end will be reported (_wait_playback_done(), on_playback_done()).
THEOREM WaitsAreOwed == AssistSpec => []WaitIsOwed
<1>1. BridgeInv => WaitIsOwed
  BY DEF BridgeInv, Sound, Owes, Speaks, WaitIsOwed
<1>. QED  BY <1>1, BridgeInvariant, PTL

\* The bridge hangs up only after its reply, unless the pipeline raised
\* (request_hangup_after_turn(), _run_session()).
THEOREM HangsUpAfterReply == AssistSpec => []HangupAfterReply
<1>1. BridgeInv => HangupAfterReply
  BY DEF BridgeInv, Sound, Speaks, HangupAfterReply
<1>. QED  BY <1>1, BridgeInvariant, PTL
=============================================================================
