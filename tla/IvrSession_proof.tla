-------------------------- MODULE IvrSession_proof --------------------------
(***************************************************************************)
(* Proofs about IvrSession for every configuration of menus whose keys are *)
(* digits, with any text as post_action, every number of digits and every  *)
(* interleaving of prompts, timeouts and PIN prompts.                      *)
(* NeverDeaf is not inductive: resume() may find neither a held-back end   *)
(* of a prompt nor a menu that listens, and then something else must take  *)
(* the session on.  IvrInv says what: Driven counts the held-back end in   *)
(* place of the pause, and a timeout only while it fetches a prompt.       *)
(***************************************************************************)
EXTENDS IvrSession, TLAPS

Fetching == \E m \in Menus : fetches[m] > 0

\* Something other than a sleeping timeout takes the session on.
Driven ==
    started /\ active /\ ~lost /\ ~LeadsNowhere(current) =>
        waiting \/ timeout \in Menus \/ playing # NoMenu \/ held \/ Fetching

\* Before start() nothing has happened.
Untouched ==
    ~started =>
        /\ current = Root /\ stack = <<>>
        /\ ~waiting /\ ~held /\ timeout = "none" /\ playing = NoMenu
        /\ ~Fetching

PauseInv ==
    /\ suspended => timeout = "none"
    /\ active /\ held => suspended

IvrInv ==
    /\ IvrTypeOK
    /\ ClosedIsQuiet
    /\ ~up => ~active
    /\ PauseInv
    /\ Driven
    /\ Untouched

\* What a coroutine that takes an active session on leaves behind.
TakenOn ==
    /\ current' \in Menus /\ stack' \in Seq(Menus) /\ buffer' \in Seq(Digits)
    /\ waiting' \in BOOLEAN /\ active' \in BOOLEAN
    /\ up' \in BOOLEAN /\ hungUp' \in BOOLEAN
    /\ timeout' \in Menus \cup {"none", "asleep"}
    /\ fetches' \in [Menus -> Nat]
    /\ ~active' => timeout' = "none"
    /\ ~up' => ~active'
    /\ active' => waiting' \/ timeout' \in Menus \/ Fetching' \/ LeadsNowhere(current')
-----------------------------------------------------------------------------
Times == Menus \cup {"none", "asleep", "running"}

LEMMA Names ==
    /\ Root \in Menus /\ NoMenu \notin Menus
    /\ "none" \notin Menus /\ "asleep" \notin Menus /\ "running" \notin Menus
BY IvrAssumption DEF IvrAssumption

\* IvrTypeOK, flag by flag.
LEMMA Types ==
    ASSUME IvrTypeOK
    PROVE  /\ started \in BOOLEAN /\ waiting \in BOOLEAN /\ active \in BOOLEAN
           /\ suspended \in BOOLEAN /\ held \in BOOLEAN /\ up \in BOOLEAN
           /\ hungUp \in BOOLEAN /\ lost \in BOOLEAN
           /\ current \in Menus /\ stack \in Seq(Menus)
           /\ buffer \in Seq(Digits) /\ pressed \in 0..MaxDigits
           /\ timeout \in Menus \cup {"none", "asleep"}
           /\ fetches \in [Menus -> Nat] /\ playing \in Menus \cup {NoMenu}
BY DEF IvrTypeOK

\* The hand-over to Assist closes the session.
LEMMA HandOffTakesOn ==
    ASSUME IvrTypeOK, HandOff
    PROVE  /\ active' = FALSE /\ timeout' = "none"
           /\ waiting' \in BOOLEAN /\ buffer' \in Seq(Digits)
           /\ fetches' \in [Menus -> Nat]
<1>1. active' = FALSE /\ timeout' = "none"
  BY DEF HandOff, ResetTimeout
<1>2. buffer' \in Seq(Digits)
  BY DEF HandOff
<1>3. waiting' \in BOOLEAN /\ fetches' \in [Menus -> Nat]
  BY Types DEF HandOff
<1>. QED  BY <1>1, <1>2, <1>3

\* _enter_menu() takes the session on: to Assist, to a prompt, or to input.
LEMMA EnterTakesOn ==
    ASSUME IvrTypeOK, active, up, NEW m \in Menus, NEW t \in Times, Enter(m, t),
           suspended' \in BOOLEAN, stack' \in Seq(Menus)
    PROVE  /\ TakenOn
           /\ current' = m /\ hungUp' = hungUp
           /\ t = "none" /\ suspended' => timeout' = "none"
<1>. DEFINE Goal == /\ TakenOn
                    /\ current' = m /\ hungUp' = hungUp
                    /\ t = "none" /\ suspended' => timeout' = "none"
<1>1. /\ current' = m /\ up' = up /\ hungUp' = hungUp
      /\ current' \in Menus /\ up' \in BOOLEAN /\ hungUp' \in BOOLEAN /\ up'
  BY Types DEF Enter
<1>2. CASE HandOff
  BY <1>1, <1>2, HandOffTakesOn DEF TakenOn
<1>3. CASE Fetch(m, t)
  <2>1. /\ waiting' = FALSE /\ active' = active /\ active' \in BOOLEAN
        /\ buffer' \in Seq(Digits)
    BY <1>3, Types DEF Fetch
  <2>2. CASE t = "running"
    <3>1. timeout' = m /\ fetches' = fetches /\ t # "none"
      BY <1>3, <2>2 DEF Fetch
    <3>2. fetches' \in [Menus -> Nat]
      BY <3>1, Types
    <3>. QED  BY <1>1, <2>1, <3>1, <3>2 DEF TakenOn
  <2>3. CASE t # "running"
    <3>1. timeout' = t /\ fetches' = [fetches EXCEPT ![m] = @ + 1]
      BY <1>3, <2>3 DEF Fetch
    <3>2. fetches' \in [Menus -> Nat] /\ fetches'[m] > 0
      BY <3>1, Types
    <3>3. Fetching'
      BY <3>2 DEF Fetching
    <3>4. timeout' \in Menus \cup {"none", "asleep"}
      BY <3>1, <2>3 DEF Times
    <3>. QED  BY <1>1, <2>1, <3>1, <3>2, <3>3, <3>4 DEF TakenOn
  <2>. QED  BY <2>2, <2>3
<1>4. CASE active' = active /\ fetches' = fetches /\ Collect
  BY <1>1, <1>4, Types DEF Collect, ResetTimeout, TakenOn
<1>. QED
  BY <1>2, <1>3, <1>4 DEF Enter

\* So does a post_action, if it is a command.
LEMMA PostActionTakesOn ==
    ASSUME IvrTypeOK, active, up, NEW p \in PostActions, NEW t \in Times, PostAction(p, t),
           suspended' \in BOOLEAN
    PROVE  TakenOn \/ (p.cmd = "nothing" /\ Ignored(t))
<1>t. current \in Menus /\ stack \in Seq(Menus) /\ fetches \in [Menus -> Nat]
  BY DEF IvrTypeOK
<1>1. CASE p.cmd = "hangup" /\ HangUpCall
  <2>1. /\ active' = FALSE /\ waiting' = FALSE /\ timeout' = "none"
        /\ up' = FALSE /\ hungUp' = TRUE
    BY <1>1 DEF HangUpCall, Close
  <2>2. /\ buffer' \in Seq(Digits)
    BY <1>1 DEF HangUpCall
  <2>3. current' \in Menus /\ stack' \in Seq(Menus) /\ fetches' \in [Menus -> Nat]
    BY <1>1, <1>t DEF HangUpCall
  <2>. QED  BY <2>1, <2>2, <2>3 DEF TakenOn
<1>2. CASE p.cmd = "back" /\ GoBack(p.n, t)
  <2>. DEFINE k == IF p.n <= Len(stack) THEN p.n ELSE Len(stack)
              m == IF k = 0 THEN current ELSE stack[Len(stack) - k + 1]
  <2>1. p.n \in Nat /\ Len(stack) \in Nat
    BY <1>t DEF PostActions
  <2>2. k \in 0..Len(stack)
    BY <2>1
  <2>3. m \in Menus
    BY <2>1, <2>2, <1>t
  <2>4. stack' = SubSeq(stack, 1, Len(stack) - k) /\ Enter(m, t)
    BY <1>2 DEF GoBack
  <2>5. stack' \in Seq(Menus)
    BY <2>1, <2>2, <2>4, <1>t
  <2>. HIDE DEF m, k
  <2>. QED  BY <2>3, <2>4, <2>5, EnterTakesOn
<1>3. CASE p.cmd = "repeat" /\ Enter(current, t) /\ UNCHANGED stack
  BY <1>3, <1>t, EnterTakesOn
<1>4. CASE /\ p.cmd = "goto"
           /\ Enter(IF p.m = NoMenu THEN current ELSE p.m, t) /\ UNCHANGED stack
  <2>. DEFINE m == IF p.m = NoMenu THEN current ELSE p.m
  <2>1. m \in Menus /\ Enter(m, t) /\ stack' \in Seq(Menus)
    BY <1>4, <1>t DEF PostActions
  <2>. HIDE DEF m
  <2>. QED  BY <2>1, EnterTakesOn
<1>5. CASE /\ p.cmd = "wait"
           /\ UNCHANGED <<active, current, stack, fetches, up, hungUp>>
           /\ Collect
  BY <1>5, Types DEF Collect, ResetTimeout, TakenOn
<1>. QED
  BY <1>1, <1>2, <1>3, <1>4, <1>5 DEF PostAction

\* ... and a choice.
LEMMA ExecuteTakesOn ==
    ASSUME IvrTypeOK, active, up, NEW c \in Targets, NEW t \in Times, Execute(c, t),
           suspended' \in BOOLEAN
    PROVE  TakenOn \/ Ignored(t)
<1>1. CASE c.kind = "post" /\ PostAction(c.post, t)
  <2>1. c.post \in PostActions
    BY DEF Targets
  <2>. QED  BY <1>1, <2>1, PostActionTakesOn
<1>2. CASE c.kind = "menu" /\ stack' = Append(stack, current) /\ Enter(c.to, t)
  <2>1. c.to \in Menus
    BY <1>2 DEF Targets
  <2>2. stack' \in Seq(Menus)
    BY <1>2 DEF IvrTypeOK
  <2>. QED  BY <1>2, <2>1, <2>2, EnterTakesOn
<1>3. CASE c.kind = "assist" /\ HandOff /\ UNCHANGED <<current, stack, up, hungUp>>
  <2>1. up' \in BOOLEAN /\ hungUp' \in BOOLEAN /\ current' \in Menus /\ stack' \in Seq(Menus)
    BY <1>3, Types
  <2>. QED  BY <1>3, <2>1, HandOffTakesOn DEF TakenOn
<1>. QED
  BY <1>1, <1>2, <1>3 DEF Execute
-----------------------------------------------------------------------------
LEMMA IvrInvInit == IvrInit => IvrInv
<1>. SUFFICES ASSUME IvrInit PROVE IvrInv
  OBVIOUS
<1>. USE DEF IvrInit
<1>1. IvrTypeOK
  <2>1. stack \in Seq(Menus) /\ buffer \in Seq(Digits)
    OBVIOUS
  <2>2. current \in Menus /\ pressed \in 0..MaxDigits
    BY Names, IvrAssumption DEF IvrAssumption
  <2>3. fetches \in [Menus -> Nat]
    OBVIOUS
  <2>. QED  BY <2>1, <2>2, <2>3 DEF IvrTypeOK
<1>2. ~Fetching
  BY DEF Fetching
<1>. QED
  BY <1>1, <1>2 DEF IvrInv, ClosedIsQuiet, PauseInv, Driven, Untouched

\* A running session that is taken on keeps the invariant.
LEMMA TakenOnKeeps ==
    ASSUME IvrInv, started, TakenOn,
           started' = started, suspended' = FALSE, lost' = lost,
           active' => held' = FALSE, held' \in BOOLEAN,
           pressed' \in 0..MaxDigits, playing' \in Menus \cup {NoMenu}
    PROVE  IvrInv'
<1>1. IvrTypeOK'
  BY DEF IvrInv, IvrTypeOK, TakenOn
<1>. QED
  BY <1>1 DEF IvrInv, ClosedIsQuiet, PauseInv, Driven, Untouched, TakenOn

\* start() takes on a session that may be paused already.
LEMMA StartKeeps ==
    ASSUME IvrInv, Start
    PROVE  IvrInv' /\ UNCHANGED <<current, stack, hungUp>>
<1>1. /\ active /\ up /\ ~started /\ started' = TRUE
      /\ Enter(Root, timeout) /\ timeout = "none" /\ current = Root
      /\ UNCHANGED <<stack, pressed, suspended, held, lost, playing>>
      /\ ~held
  BY DEF IvrInv, Start, Untouched, pauseVars, IvrTypeOK
<1>2. /\ TakenOn /\ current' = Root /\ hungUp' = hungUp
      /\ suspended' => timeout' = "none"
  BY <1>1, Names, EnterTakesOn DEF IvrInv, IvrTypeOK, Times
<1>3. IvrTypeOK'
  BY <1>1, <1>2 DEF IvrInv, IvrTypeOK, TakenOn
<1>. QED
  BY <1>1, <1>2, <1>3 DEF IvrInv, ClosedIsQuiet, PauseInv, Driven, Untouched, TakenOn

\* A digit is buffered, ignored or answered; the session is not paused.
LEMMA DtmfKeeps ==
    ASSUME IvrInv, NEW d \in Digits, HandleDtmf(d)
    PROVE  IvrInv' /\ ~suspended
<1>. DEFINE b == Append(buffer, d)
<1>1. /\ active /\ up /\ ~suspended /\ waiting /\ started
      /\ UNCHANGED <<started, suspended, held, lost>>
      /\ pressed' \in 0..MaxDigits
  <2>1. Pressed
    BY DEF HandleDtmf, DigitBuffered, DigitsIgnored, DigitsTaken
  <2>2. pressed' \in 0..MaxDigits
    BY <2>1, IvrAssumption DEF Pressed, IvrInv, IvrTypeOK, IvrAssumption
  <2>. QED  BY <2>1, <2>2 DEF Pressed, IvrInv, IvrTypeOK, Untouched, pauseVars
<1>2. suspended' = FALSE /\ held' = FALSE
  BY <1>1 DEF IvrInv, PauseInv, IvrTypeOK
<1>b. b \in Seq(Digits)
  BY DEF IvrInv, IvrTypeOK
<1>3. CASE DigitBuffered(b)
  BY <1>1, <1>2, <1>3, <1>b, TakenOnKeeps
     DEF DigitBuffered, ResetTimeout, TakenOn, IvrInv, IvrTypeOK
<1>4. CASE DigitsIgnored(b)
  <2>1. /\ UNCHANGED <<active, current, stack, fetches, playing, up, hungUp>>
        /\ waiting' = TRUE /\ timeout' = "asleep"
    BY <1>1, <1>2, <1>4 DEF DigitsIgnored, Collect, ResetTimeout
  <2>2. buffer' \in Seq(Digits)
    BY <1>4 DEF DigitsIgnored, Collect
  <2>3. TakenOn /\ playing' \in Menus \cup {NoMenu}
    BY <1>1, <2>1, <2>2, Types DEF TakenOn, IvrInv
  <2>. QED  BY <1>1, <1>2, <2>3, TakenOnKeeps
<1>5. CASE DigitsTaken(b)
  <2>. DEFINE c == Target(current, Input(current, b))
  <2>1. c # NoTarget /\ Execute(c, "asleep") /\ playing' = OnLine(playing)
    BY <1>5 DEF DigitsTaken
  <2>2. c \in Targets
    <3>1. current \in Menus
      BY DEF IvrInv, IvrTypeOK
    <3>. QED  BY <2>1, <3>1, IvrAssumption DEF Target, IvrAssumption
  <2>. HIDE DEF c
  <2>3. TakenOn
    <3>1. TakenOn \/ Ignored("asleep")
      BY <1>1, <1>2, <2>1, <2>2, ExecuteTakesOn DEF IvrInv, Times
    <3>2. CASE Ignored("asleep")
      <4>1. /\ timeout' = "asleep" /\ buffer' = <<>>
            /\ UNCHANGED <<active, waiting, current, stack, fetches, up, hungUp>>
        BY <3>2 DEF Ignored
      <4>2. buffer' \in Seq(Digits)
        BY <4>1
      <4>. QED  BY <1>1, <4>1, <4>2, Types DEF TakenOn, IvrInv
    <3>. QED  BY <3>1, <3>2
  <2>. QED  BY <1>1, <1>2, <2>1, <2>3, TakenOnKeeps DEF OnLine, IvrInv, IvrTypeOK
<1>. QED  BY <1>1, <1>3, <1>4, <1>5 DEF HandleDtmf

\* The timeout fires; a paused or closed session has none.
LEMMA TimeoutKeeps ==
    ASSUME IvrInv, HandleTimeout
    PROVE  IvrInv' /\ ~suspended
<1>1. /\ active /\ up /\ ~suspended /\ started /\ timeout = "asleep"
      /\ UNCHANGED <<started, suspended, held, lost, pressed>>
      /\ playing' = OnLine(playing)
  BY DEF HandleTimeout, IvrInv, ClosedIsQuiet, PauseInv, Untouched, IvrTypeOK, pauseVars
<1>2. suspended' = FALSE /\ held' = FALSE /\ current \in Menus
  BY <1>1 DEF IvrInv, PauseInv, IvrTypeOK
<1>3. TakenOn \/ Ignored("running")
  <2>1. CASE Script[current].onTimeout # NoTarget
    <3>1. Script[current].onTimeout \in Targets
      BY <1>2, <2>1, IvrAssumption DEF IvrAssumption
    <3>2. Execute(Script[current].onTimeout, "running")
      BY <2>1 DEF HandleTimeout
    <3>. QED  BY <1>1, <1>2, <3>1, <3>2, ExecuteTakesOn DEF IvrInv, Times
  <2>2. CASE Script[current].onTimeout = NoTarget
    <3>1. Script[current].post \in PostActions
      BY <1>2, IvrAssumption DEF IvrAssumption
    <3>2. PostAction(Script[current].post, "running")
      BY <2>2 DEF HandleTimeout
    <3>. QED  BY <1>1, <1>2, <3>1, <3>2, PostActionTakesOn DEF IvrInv, Times
  <2>. QED  BY <2>1, <2>2
<1>4. CASE TakenOn
  BY <1>1, <1>2, <1>4, TakenOnKeeps DEF OnLine, IvrInv, IvrTypeOK
<1>5. CASE Ignored("running")
  <2>1. /\ timeout' = "none" /\ playing' = playing
        /\ UNCHANGED <<active, waiting, buffer, current, stack, fetches, up, hungUp>>
    BY <1>1, <1>5 DEF Ignored, OnLine
  <2>2. IvrTypeOK' /\ Fetching' = Fetching
    BY <1>1, <2>1 DEF IvrInv, IvrTypeOK, Fetching
  <2>3. Driven'
    BY <1>1, <2>1, <2>2, Names DEF IvrInv, Driven
  <2>. QED
    BY <1>1, <1>2, <2>1, <2>2, <2>3 DEF IvrInv, ClosedIsQuiet, PauseInv, Untouched
<1>. QED  BY <1>1, <1>3, <1>4, <1>5

\* The end of a prompt, delivered now: it takes the session on.
LEMMA DoneTakesOn ==
    ASSUME IvrInv, active, Done, suspended' \in BOOLEAN
    PROVE  TakenOn
<1>1. up /\ current \in Menus /\ timeout \in Times
  BY DEF IvrInv, IvrTypeOK, Times
<1>2. CASE Announces(current) /\ PostAction(Script[current].post, timeout)
  <2>1. Script[current].post \in PostActions
    BY <1>1, IvrAssumption DEF IvrAssumption
  <2>2. CASE Script[current].post.cmd = "nothing" /\ Ignored(timeout)
    <3>1. LeadsNowhere(current)
      BY <1>2, <2>2 DEF LeadsNowhere
    <3>2. /\ timeout' = timeout /\ buffer' = <<>>
          /\ UNCHANGED <<active, waiting, current, stack, fetches, up, hungUp>>
      BY <2>2, Names DEF Ignored, IvrInv, IvrTypeOK
    <3>3. buffer' \in Seq(Digits)
      BY <3>2
    <3>. QED  BY <1>1, <3>1, <3>2, <3>3, Types DEF TakenOn, IvrInv, ClosedIsQuiet
  <2>. QED  BY <1>1, <1>2, <2>1, <2>2, PostActionTakesOn DEF IvrInv
<1>3. CASE /\ waiting
           /\ UNCHANGED <<current, stack, buffer, waiting, active, timeout, fetches,
                          up, hungUp>>
  BY <1>1, <1>3 DEF TakenOn, IvrInv, IvrTypeOK
<1>4. CASE UNCHANGED <<current, stack, active, fetches, up, hungUp>> /\ Collect
  BY <1>1, <1>4 DEF Collect, ResetTimeout, TakenOn, IvrInv, IvrTypeOK
<1>. QED  BY <1>2, <1>3, <1>4 DEF Done

LEMMA PlaybackDoneKeeps ==
    ASSUME IvrInv, PlaybackDone
    PROVE  IvrInv' /\ (suspended => UNCHANGED <<current, stack, hungUp>>)
<1>1. /\ started /\ playing' = NoMenu
      /\ UNCHANGED <<started, pressed, suspended, lost>>
  BY DEF PlaybackDone, IvrInv, Untouched, IvrTypeOK
<1>2. CASE /\ active => suspended
           /\ HoldBack
           /\ UNCHANGED <<current, stack, buffer, waiting, active, timeout, fetches,
                          up, hungUp>>
  <2>1. IvrTypeOK'
    BY <1>1, <1>2 DEF HoldBack, IvrInv, IvrTypeOK
  <2>2. active => held'
    BY <1>2 DEF HoldBack
  <2>3. Driven'
    BY <1>1, <1>2, <2>2 DEF Driven
  <2>. QED
    BY <1>1, <1>2, <2>1, <2>3 DEF HoldBack, IvrInv, ClosedIsQuiet, PauseInv, Untouched
<1>3. CASE active /\ ~suspended /\ held' = held /\ Done
  <2>1. suspended' = FALSE /\ held' = FALSE
    BY <1>1, <1>3 DEF IvrInv, PauseInv, IvrTypeOK
  <2>2. TakenOn
    BY <1>3, <2>1, DoneTakesOn
  <2>3. pressed' \in 0..MaxDigits
    BY <1>1 DEF IvrInv, IvrTypeOK
  <2>. QED  BY <1>1, <1>3, <2>1, <2>2, <2>3, TakenOnKeeps
<1>. QED  BY <1>2, <1>3 DEF PlaybackDone

LEMMA ResumeKeeps ==
    ASSUME IvrInv, Resume
    PROVE  IvrInv'
<1>1. /\ suspended /\ suspended' = FALSE /\ UNCHANGED <<started, pressed, lost>>
      /\ playing' = OnLine(playing) /\ playing' \in Menus \cup {NoMenu}
      /\ pressed' \in 0..MaxDigits
      /\ active => up
  BY DEF Resume, OnLine, IvrInv, IvrTypeOK
<1>2. CASE active /\ held /\ held' = FALSE /\ Done
  <2>1. started
    BY <1>2 DEF IvrInv, Untouched, IvrTypeOK
  <2>2. TakenOn
    BY <1>1, <1>2, DoneTakesOn
  <2>. QED  BY <1>1, <1>2, <2>1, <2>2, TakenOnKeeps
<1>3. CASE /\ active /\ ~held /\ waiting
           /\ UNCHANGED <<current, stack, buffer, waiting, active, fetches, up, hungUp,
                          held>>
           /\ ResetTimeout
  <2>1. started /\ held' = FALSE
    BY <1>3 DEF IvrInv, Untouched, IvrTypeOK
  <2>2. TakenOn
    BY <1>1, <1>3 DEF ResetTimeout, TakenOn, IvrInv, IvrTypeOK
  <2>. QED  BY <1>1, <1>3, <2>1, <2>2, TakenOnKeeps
<1>4. CASE /\ ~active \/ (~held /\ ~waiting)
           /\ UNCHANGED <<current, stack, buffer, waiting, active, timeout, fetches,
                          up, hungUp, held>>
  <2>1. IvrTypeOK'
    BY <1>1, <1>4 DEF IvrInv, IvrTypeOK
  <2>2. active => playing' = playing
    BY <1>1, <1>4 DEF OnLine
  <2>3. Fetching' = Fetching
    BY <1>4 DEF Fetching
  <2>4. playing = NoMenu => playing' = NoMenu
    BY <1>1 DEF OnLine
  <2>. QED
    BY <1>1, <1>4, <2>1, <2>2, <2>3, <2>4
       DEF IvrInv, ClosedIsQuiet, PauseInv, Driven, Untouched, IvrTypeOK
<1>. QED  BY <1>2, <1>3, <1>4 DEF Resume

\* A fetched prompt plays, or failed.
LEMMA PromptKeeps ==
    ASSUME IvrInv, NEW m \in Menus, NEW byTimer \in BOOLEAN,
           PromptPlays(m, byTimer) \/ PromptFails(m, byTimer)
    PROVE  IvrInv' /\ UNCHANGED <<current, stack, hungUp>>
<1>1. /\ Resumed(m, byTimer)
      /\ UNCHANGED <<started, current, stack, pressed, active, suspended, held, up, hungUp>>
      /\ playing' \in Menus \cup {NoMenu} /\ lost' \in BOOLEAN
      /\ lost => lost'
      /\ up /\ ~lost' => playing' = m
  <2>1. Resumed(m, byTimer)
    BY DEF PromptPlays, PromptFails
  <2>2. UNCHANGED <<started, current, stack, pressed, active, suspended, held, up, hungUp>>
    BY <2>1 DEF Resumed, menuVars, pauseVars
  <2>3. CASE PromptPlays(m, byTimer)
    <3>1. lost' = lost /\ playing' = IF up THEN m ELSE NoMenu
      BY <2>2, <2>3 DEF PromptPlays, OnLine
    <3>. QED  BY <2>1, <2>2, <3>1, Types DEF IvrInv
  <2>4. CASE PromptFails(m, byTimer)
    <3>1. lost' = TRUE /\ playing' = playing
      BY <2>4 DEF PromptFails
    <3>. QED  BY <2>1, <2>2, <3>1, Types DEF IvrInv
  <2>. QED  BY <2>3, <2>4
<1>2. started
  BY <1>1, Names DEF Resumed, FetchOver, IvrInv, Untouched, Fetching, IvrTypeOK
<1>3. fetches' \in [Menus -> Nat]
  <2>1. fetches \in [Menus -> Nat] /\ FetchOver(m, byTimer)
    BY <1>1, Types DEF Resumed, IvrInv
  <2>2. CASE fetches' = fetches
    BY <2>1, <2>2
  <2>3. CASE fetches[m] > 0 /\ fetches' = [fetches EXCEPT ![m] = fetches[m] - 1]
    <3>1. fetches[m] - 1 \in Nat
      BY <2>1, <2>3
    <3>. QED  BY <2>1, <2>3, <3>1
  <2>. QED  BY <2>1, <2>2, <2>3 DEF FetchOver
<1>4. /\ waiting' \in BOOLEAN /\ buffer' \in Seq(Digits)
      /\ timeout' \in Menus \cup {"none", "asleep"}
      /\ timeout = "none" /\ (~active \/ suspended) => timeout' = "none"
  <2>1. CASE Script[m].waits /\ timeout' = (IF byTimer THEN "none" ELSE timeout)
             /\ UNCHANGED <<waiting, buffer>>
    BY <2>1 DEF IvrInv, IvrTypeOK
  <2>2. CASE Collect
    BY <1>1, <2>2 DEF Collect, ResetTimeout
  <2>. QED  BY <1>1, <2>1, <2>2 DEF Resumed
<1>5. IvrTypeOK'
  BY <1>1, <1>3, <1>4 DEF IvrInv, IvrTypeOK
<1>6. Driven'
  BY <1>1, <1>2, Names DEF Driven, IvrInv, IvrTypeOK
<1>. QED
  BY <1>1, <1>2, <1>4, <1>5, <1>6
     DEF IvrInv, ClosedIsQuiet, PauseInv, Untouched, IvrTypeOK

\* The steps from outside: audio stopped, a PIN prompt, Assist, the end.
LEMMA OutsideKeeps ==
    ASSUME IvrInv, AudioStopped \/ Suspend \/ Retire \/ CallEnds
    PROVE  IvrInv' /\ UNCHANGED <<current, stack, hungUp>>
<1>. USE DEF menuVars, inputVars, pauseVars
<1>1. CASE AudioStopped
  <2>1. IvrTypeOK' /\ Fetching' = Fetching
    BY <1>1 DEF AudioStopped, IvrInv, IvrTypeOK, Fetching
  <2>. QED
    BY <1>1, <2>1 DEF AudioStopped, IvrInv, ClosedIsQuiet, PauseInv, Driven, Untouched
<1>2. CASE Suspend
  <2>1. IvrTypeOK' /\ Fetching' = Fetching
    BY <1>2 DEF Suspend, TimeoutCancelled, IvrInv, IvrTypeOK, Fetching
  <2>. QED
    BY <1>2, <2>1 DEF Suspend, TimeoutCancelled, IvrInv, ClosedIsQuiet, PauseInv, Driven,
       Untouched
<1>3. CASE Retire \/ CallEnds
  <2>1. IvrTypeOK' /\ Fetching' = Fetching
    BY <1>3 DEF Retire, CallEnds, Close, IvrInv, IvrTypeOK, Fetching
  <2>. QED
    BY <1>3, <2>1 DEF Retire, CallEnds, Close, IvrInv, ClosedIsQuiet, PauseInv, Driven,
       Untouched
<1>. QED  BY <1>1, <1>2, <1>3

\* Every step keeps the invariant, and a paused session where it is.
LEMMA IvrStep ==
    ASSUME IvrInv, [IvrNext]_ivrVars
    PROVE  /\ IvrInv'
           /\ suspended /\ suspended' => UNCHANGED <<current, stack, hungUp>>
<1>1. CASE IvrNext
  <2>1. ASSUME Resume PROVE suspended' = FALSE
    BY <2>1 DEF Resume
  <2>. QED
    BY <1>1, <2>1, StartKeeps, DtmfKeeps, TimeoutKeeps, PlaybackDoneKeeps, ResumeKeeps,
       PromptKeeps, OutsideKeeps DEF IvrNext
<1>2. CASE UNCHANGED ivrVars
  BY <1>2 DEF ivrVars, menuVars, inputVars, pauseVars, IvrInv, IvrTypeOK, ClosedIsQuiet,
     PauseInv, Driven, Untouched, Fetching
<1>. QED  BY <1>1, <1>2

THEOREM IvrInvariant == IvrSpec => []IvrInv
BY IvrInvInit, IvrStep, PTL DEF IvrSpec
-----------------------------------------------------------------------------
(* What follows for a reader *)

\* Whatever the menus are, a session that has the call and lost no prompt listens,
\* or something will take it on, unless it is in an announcement whose post_action
\* is no command.
THEOREM SessionNeverDeaf == IvrSpec => []NeverDeaf
<1>1. IvrInv => NeverDeaf
  BY Names DEF IvrInv, Driven, PauseInv, NeverDeaf, Fetching
<1>. QED  BY <1>1, IvrInvariant, PTL

\* A closed session has no timeout, whichever prompts were being fetched.
THEOREM ClosedSessionQuiet == IvrSpec => []ClosedIsQuiet
BY IvrInvariant, PTL DEF IvrInv

\* Under a PIN prompt the session neither hangs up nor leaves its menu.
THEOREM PauseHolds == IvrSpec => PausedHolds
<1>1. ASSUME IvrInv, [IvrNext]_ivrVars
      PROVE  [suspended /\ suspended' => UNCHANGED <<current, stack, hungUp>>]_ivrVars
  BY <1>1, IvrStep
<1>. QED
  BY <1>1, IvrInvariant, PTL DEF IvrSpec, PausedHolds
=============================================================================
