----------------------------- MODULE IvrSession -----------------------------
(***************************************************************************)
(* One IvrSession (ivr.py) on a connected call: the menus, the input       *)
(* timeout, the prompts, and sip.start_assist pausing or retiring it.      *)
(*                                                                         *)
(* The session is entered by coroutines of four kinds, all on the event    *)
(* loop: start(), handle_dtmf(), the task that on_playback_done() creates, *)
(* and the timeout task.  The only await that lets others run is the one   *)
(* that fetches a prompt (text to speech, or a media URL), so an action is *)
(* what a coroutine does before or after that.  `playing' is the prompt    *)
(* the client transmits: another one replaces it, without on_playback_done.*)
(* Left out: a menu's action (a service call that is not waited for), the  *)
(* wording of prompts, and audio that is not the menu's.                   *)
(***************************************************************************)
EXTENDS Integers, Sequences

CONSTANTS
    Menus,       \* the menus and announcements of the configuration
    NoMenu,
    Root,        \* root_menu
    Digits,      \* the keys of a phone; "#" is one of them
    NoTarget,    \* a missing on_invalid or on_timeout
    Script,      \* the configuration, a record for each menu
    MaxDigits    \* digits the caller presses in the model

\* Menus are not validated: "nothing" is every post_action that is none of the others,
\* a goto without a menu, a word that is no command, or no text.
Commands == {"hangup", "repeat", "back", "goto", "wait", "nothing"}

\* post_action: back goes back n menus (none if n is negative in the configuration);
\* goto to menu m, NoMenu if there is none.
PostActions == [cmd : Commands, n : Nat, m : Menus \cup {NoMenu}]

\* A choice, on_invalid or on_timeout: a bare post_action, a menu, or Assist.
Targets ==
    {c \in [kind : {"post", "menu", "assist"}, post : PostActions, to : Menus \cup {NoMenu}] :
        c.kind = "menu" => c.to \in Menus}

ASSUME IvrAssumption ==
    /\ Root \in Menus /\ Menus \cap {NoMenu, "none", "asleep", "running"} = {}
    /\ NoTarget \notin Targets
    /\ MaxDigits \in Nat
    /\ \A m \in Menus :
         /\ {Script[m].prompt, Script[m].waits, Script[m].pin, Script[m].assist} \subseteq BOOLEAN
         /\ \A key \in DOMAIN Script[m].choices :
              key \in Seq(Digits) /\ Script[m].choices[key] \in Targets
         /\ {Script[m].onInvalid, Script[m].onTimeout} \subseteq Targets \cup {NoTarget}
         /\ Script[m].post \in PostActions

VARIABLES
    started,      \* start() was called
    current,      \* current_menu
    stack,        \* menu_stack
    buffer,       \* digit_buffer
    waiting,      \* waiting_for_dtmf
    active,       \* is_active
    suspended,    \* _suspended
    held,         \* _playback_done_while_suspended
    timeout,      \* timeout_task: "none", "asleep", or the menu whose prompt it
                  \* is itself fetching
    fetches,      \* how many other coroutines are fetching the prompt of a menu
    playing,      \* the prompt on the line
    up,           \* the call
    pressed,      \* digits pressed so far
    hungUp,       \* history: the session has called hangup_fn()
    lost          \* history: a prompt was lost and nothing told the session

menuVars == <<started, current, stack>>
inputVars == <<buffer, waiting, pressed>>
pauseVars == <<suspended, held>>
ivrVars == <<menuVars, inputVars, pauseVars, timeout, active, fetches, playing,
             up, hungUp, lost>>

IvrTypeOK ==
    /\ {started, waiting, active, suspended, held, up, hungUp, lost} \subseteq BOOLEAN
    /\ current \in Menus /\ stack \in Seq(Menus)
    /\ buffer \in Seq(Digits) /\ pressed \in 0..MaxDigits
    /\ timeout \in Menus \cup {"none", "asleep"}
    /\ fetches \in [Menus -> Nat] /\ playing \in Menus \cup {NoMenu}

\* The call was connected with a menu set; start() has not run yet.
IvrInit ==
    /\ started = FALSE /\ current = Root /\ stack = <<>>
    /\ buffer = <<>> /\ waiting = FALSE /\ pressed = 0
    /\ active = TRUE /\ suspended = FALSE /\ held = FALSE
    /\ timeout = "none"
    /\ fetches = [m \in Menus |-> 0] /\ playing = NoMenu
    /\ up = TRUE
    /\ hungUp = FALSE /\ lost = FALSE
-----------------------------------------------------------------------------
(* Building blocks.  t is what timeout_task is when the code gets there, with *)
(* "running" for the timeout task itself.  Every way out of a menu clears the *)
(* buffer here: handle_dtmf() does, and what the others leave in it is not    *)
(* read before _start_dtmf_collection() clears it.                            *)

Announces(m) == DOMAIN Script[m].choices = {}

\* An announcement that nothing follows.
LeadsNowhere(m) == Announces(m) /\ Script[m].post.cmd = "nothing"

\* Mutant: the timeout is armed for a closed session too.
ArmAlways == timeout' = IF suspended' THEN "none" ELSE "asleep"

\* _reset_timeout(): the old task is cancelled, whatever it is doing.
ResetTimeout == timeout' = IF active' /\ ~suspended' THEN "asleep" ELSE "none"

\* _start_dtmf_collection()
Collect ==
    /\ waiting' = TRUE
    /\ buffer' = <<>>
    /\ ResetTimeout

\* close()
Close ==
    /\ active' = FALSE
    /\ waiting' = FALSE
    /\ timeout' = "none"

\* trigger_assist_fn(): is_active is cleared first, so that nothing is armed.
HandOff ==
    /\ active' = FALSE
    /\ ResetTimeout
    /\ buffer' = <<>>
    /\ UNCHANGED <<waiting, fetches>>

\* The coroutine waits for the prompt of m.
Fetch(m, t) ==
    /\ waiting' = FALSE
    /\ IF t = "running"
       THEN timeout' = m /\ UNCHANGED fetches
       ELSE timeout' = t /\ fetches' = [fetches EXCEPT ![m] = @ + 1]
    /\ buffer' = <<>>
    /\ active' = active

\* _enter_menu(m): Assist, a prompt, or input right away.
Enter(m, t) ==
    /\ current' = m
    /\ UNCHANGED <<up, hungUp>>
    /\ \/ Script[m].assist /\ HandOff
       \/ ~Script[m].assist /\ Script[m].prompt /\ Fetch(m, t)
       \/ /\ ~Script[m].assist /\ ~Script[m].prompt
          /\ UNCHANGED <<active, fetches>>
          /\ Collect

\* Mutant: the menus are taken off the stack, and the old one entered again.
BackToItself(n, t) ==
    /\ stack' = SubSeq(stack, 1, IF n <= Len(stack) THEN Len(stack) - n ELSE 0)
    /\ Enter(current, t)

\* "back n" ends in the n-th menu from the top of the stack, or its lowest.
GoBack(n, t) ==
    LET k == IF n <= Len(stack) THEN n ELSE Len(stack)
    IN  /\ stack' = SubSeq(stack, 1, Len(stack) - k)
        /\ Enter(IF k = 0 THEN current ELSE stack[Len(stack) - k + 1], t)

\* hangup_fn() after close(); on_call_ended closes the session again.
HangUpCall ==
    /\ Close
    /\ up' = FALSE /\ hungUp' = TRUE
    /\ buffer' = <<>>
    /\ UNCHANGED <<current, stack, fetches>>

\* No command: the session stays as it was, and the timeout task ends if it was that.
\* The digits of an input are gone (_resolve_input), those before a timeout stay.
Ignored(t) ==
    /\ timeout' = IF t = "running" THEN "none" ELSE t
    /\ buffer' = IF t = "running" THEN buffer ELSE <<>>
    /\ UNCHANGED <<active, waiting, current, stack, fetches, up, hungUp>>

\* _execute_post_action(p)
PostAction(p, t) ==
    /\ active
    /\ \/ p.cmd = "hangup" /\ HangUpCall
       \/ p.cmd = "back" /\ GoBack(p.n, t)
       \/ p.cmd = "repeat" /\ Enter(current, t) /\ UNCHANGED stack
       \/ /\ p.cmd = "goto"
          /\ Enter(IF p.m = NoMenu THEN current ELSE p.m, t)
          /\ UNCHANGED stack
       \/ /\ p.cmd = "wait"
          /\ UNCHANGED <<active, current, stack, fetches, up, hungUp>>
          /\ Collect
       \/ p.cmd = "nothing" /\ Ignored(t)

\* _execute_choice(c)
Execute(c, t) ==
    \/ c.kind = "post" /\ PostAction(c.post, t)
    \/ c.kind = "menu" /\ stack' = Append(stack, current) /\ Enter(c.to, t)
    \/ c.kind = "assist" /\ HandOff /\ UNCHANGED <<current, stack, up, hungUp>>

\* What the client transmits: nothing once the call is over.
OnLine(m) == IF up' THEN m ELSE NoMenu
-----------------------------------------------------------------------------
(* Actions *)

\* start(), once the call is connected.
Start ==
    /\ ~started /\ active
    /\ started' = TRUE
    /\ UNCHANGED <<stack, pressed, pauseVars, lost, playing>>
    /\ Enter(Root, timeout)

\* Whether the digits b are a whole input to the menu m, and which.
Complete(m, b) ==
    \/ ~Script[m].pin
    \/ b[Len(b)] = "#"
    \/ b \in DOMAIN Script[m].choices
    \/ \A key \in DOMAIN Script[m].choices : Len(b) >= Len(key)

Input(m, b) == IF Script[m].pin /\ b[Len(b)] = "#" THEN SubSeq(b, 1, Len(b) - 1) ELSE b

\* What an input leads to, NoTarget when it is to be ignored.
Target(m, key) ==
    IF key \in DOMAIN Script[m].choices THEN Script[m].choices[key] ELSE Script[m].onInvalid

\* handle_dtmf(d): with the digit the buffer is b ...
Pressed ==
    /\ pressed < MaxDigits
    /\ active /\ ~suspended /\ waiting
    /\ pressed' = pressed + 1
    /\ UNCHANGED <<started, pauseVars, lost>>

\* ... and the input goes on, with a new timeout; ...
DigitBuffered(b) ==
    /\ Pressed
    /\ ~Complete(current, b)
    /\ buffer' = b
    /\ UNCHANGED <<active, waiting, current, stack, fetches, playing, up, hungUp>>
    /\ ResetTimeout

\* ... or is nothing the menu has an answer to, and starts again; ...
DigitsIgnored(b) ==
    /\ Pressed
    /\ Complete(current, b) /\ Target(current, Input(current, b)) = NoTarget
    /\ UNCHANGED <<active, current, stack, fetches, playing, up, hungUp>>
    /\ Collect

\* ... or leads on, with the new timeout armed.
DigitsTaken(b) ==
    /\ Pressed
    /\ Complete(current, b) /\ Target(current, Input(current, b)) # NoTarget
    /\ Execute(Target(current, Input(current, b)), "asleep")
    /\ playing' = OnLine(playing)

HandleDtmf(d) ==
    LET b == Append(buffer, d)
    IN  DigitBuffered(b) \/ DigitsIgnored(b) \/ DigitsTaken(b)

\* The timeout task wakes: _handle_timeout().
HandleTimeout ==
    /\ timeout = "asleep"
    /\ UNCHANGED <<started, pressed, pauseVars, lost>>
    /\ IF Script[current].onTimeout # NoTarget
       THEN Execute(Script[current].onTimeout, "running")
       ELSE PostAction(Script[current].post, "running")
    /\ playing' = OnLine(playing)

\* The coroutine that fetches the prompt of m goes on: the timeout task itself
\* or another one.
FetchOver(m, byTimer) ==
    IF byTimer THEN timeout = m /\ UNCHANGED fetches
    ELSE fetches[m] > 0 /\ fetches' = [fetches EXCEPT ![m] = @ - 1]

\* The rest of _enter_menu(m): without wait_for_audio input is collected now.
Resumed(m, byTimer) ==
    /\ UNCHANGED <<menuVars, pressed, active, pauseVars, up, hungUp>>
    /\ FetchOver(m, byTimer)
    /\ \/ /\ Script[m].waits
          /\ timeout' = IF byTimer THEN "none" ELSE timeout
          /\ UNCHANGED <<waiting, buffer>>
       \/ ~Script[m].waits /\ Collect

\* The prompt is fetched; it replaces what is playing.
PromptPlays(m, byTimer) ==
    /\ Resumed(m, byTimer)
    /\ playing' = OnLine(m)
    /\ lost' = lost

\* play_message_fn() and play_audio_file_fn() log a failure and return.
PromptFails(m, byTimer) ==
    /\ Resumed(m, byTimer)
    /\ playing' = playing
    /\ lost' = TRUE

\* on_playback_done() of a session that is active and not paused: an announcement
\* runs its post_action, a menu begins to collect input.  Whose prompt it was is
\* not asked.
Done ==
    /\ active
    /\ \/ Announces(current) /\ PostAction(Script[current].post, timeout)
       \/ /\ ~Announces(current) /\ waiting
          /\ UNCHANGED <<current, stack, buffer, waiting, active, timeout, fetches,
                         up, hungUp>>
       \/ /\ ~Announces(current) /\ ~waiting
          /\ UNCHANGED <<current, stack, active, fetches, up, hungUp>>
          /\ Collect

\* Mutant: what is held back is forgotten.
Forgotten == held' = held

\* The end of a prompt of a live session is kept for resume().
HoldBack == held' = (held \/ active)

\* A prompt has been transmitted, or ffmpeg could not play it: on_playback_done().
PlaybackDone ==
    /\ playing # NoMenu
    /\ playing' = NoMenu
    /\ UNCHANGED <<started, pressed, suspended, lost>>
    /\ \/ /\ active => suspended
          /\ HoldBack
          /\ UNCHANGED <<current, stack, buffer, waiting, active, timeout, fetches,
                         up, hungUp>>
       \/ active /\ ~suspended /\ held' = held /\ Done

\* Somebody stops the audio (client.stop_audio): on_playback_done is not called.
AudioStopped ==
    /\ playing # NoMenu
    /\ playing' = NoMenu
    /\ lost' = TRUE
    /\ UNCHANGED <<menuVars, inputVars, pauseVars, timeout, active, fetches, up,
                   hungUp>>

\* Mutant: the timeout goes on under the PIN prompt.
TimeoutLeft == UNCHANGED timeout

\* suspend() cancels the timeout task, be it asleep or fetching a prompt.
TimeoutCancelled == timeout' = "none"

Suspend ==
    /\ up /\ ~suspended
    /\ suspended' = TRUE
    /\ TimeoutCancelled
    /\ lost' = (lost \/ timeout \in Menus)
    /\ UNCHANGED <<menuVars, inputVars, held, active, fetches, playing, up, hungUp>>

\* resume(), after a wrong PIN, a hangup or no input: deliver what was held back,
\* or collect input again.
Resume ==
    /\ suspended
    /\ suspended' = FALSE
    /\ UNCHANGED <<started, pressed, lost>>
    /\ \/ /\ active /\ held
          /\ held' = FALSE
          /\ Done
       \/ /\ active /\ ~held /\ waiting
          /\ UNCHANGED <<current, stack, buffer, waiting, active, fetches, up,
                         hungUp, held>>
          /\ ResetTimeout
       \/ /\ ~active \/ (~held /\ ~waiting)
          /\ UNCHANGED <<current, stack, buffer, waiting, active, timeout, fetches,
                         up, hungUp, held>>
    /\ playing' = OnLine(playing)

\* sip.start_assist takes the call over, after the right PIN or without one.
Retire ==
    /\ up /\ active
    /\ Close
    /\ UNCHANGED <<menuVars, buffer, pressed, pauseVars, fetches, playing,
                   up, hungUp, lost>>

\* on_call_ended, for any other reason.
CallEnds ==
    /\ up
    /\ up' = FALSE /\ playing' = NoMenu
    /\ Close
    /\ UNCHANGED <<hungUp, menuVars, buffer, pressed, pauseVars, fetches, lost>>

IvrNext ==
    \/ Start \/ \E d \in Digits : HandleDtmf(d)
    \/ HandleTimeout \/ PlaybackDone \/ AudioStopped
    \/ \E m \in Menus, byTimer \in BOOLEAN :
         PromptPlays(m, byTimer) \/ PromptFails(m, byTimer)
    \/ Suspend \/ Resume \/ Retire \/ CallEnds

IvrSpec == IvrInit /\ [][IvrNext]_ivrVars

\* The loop runs what is due: tasks, timers, fetched prompts; a prompt ends; a PIN
\* is entered, refused or timed out.
IvrFairness ==
    /\ WF_ivrVars(Start)
    /\ WF_ivrVars(HandleTimeout)
    /\ \A m \in Menus, byTimer \in BOOLEAN :
         WF_ivrVars(PromptPlays(m, byTimer) \/ PromptFails(m, byTimer))
    /\ WF_ivrVars(PlaybackDone)
    /\ WF_ivrVars(Resume)

FairIvrSpec == IvrSpec /\ IvrFairness
-----------------------------------------------------------------------------
(* Properties *)

\* A session never goes deaf: as long as it has the call, and no prompt was lost
\* without a word, it listens, or something will take it further: the timeout, a
\* prompt that is fetched or played, or a PIN that is collected on top of it
\* (handle_dtmf, on_playback_done, suspend, resume).  Listening is not always
\* under a timeout: resume() after a prompt that did not wait arms none.  Exception: an
\* announcement whose post_action is no command.
NeverDeaf ==
    started /\ active /\ ~lost /\ ~LeadsNowhere(current) =>
        \/ waiting \/ timeout # "none" \/ playing # NoMenu \/ suspended
        \/ \E m \in Menus : fetches[m] > 0

\* A session that is closed, by a hangup, by Assist or by the end of the call,
\* leaves no timeout behind that would act on the next call, whichever prompt was
\* being fetched at the time (close, _reset_timeout).
ClosedIsQuiet == ~active => timeout = "none"

\* "An announcement's post_action (usually hangup) must not fire under a
\* sip.start_assist PIN prompt" (on_playback_done): while a PIN is collected the
\* session neither hangs up nor moves to another menu, whatever was under way.
PausedHolds ==
    [][suspended /\ suspended' => UNCHANGED <<current, stack, hungUp>>]_ivrVars

\* The caller is asked for input again and again, or the session ends, as long as
\* no prompt is lost and nobody starts one PIN prompt after the other: it does not
\* go round in prompts for ever.  Whether that is so depends on the menus too
\* (_execute_choice, _execute_post_action).  Exception: it may rest in an announcement
\* whose post_action is no command.
AsksOrEnds ==
    []~lost /\ <>[]~suspended => []<>(waiting \/ ~active \/ LeadsNowhere(current))
=============================================================================
