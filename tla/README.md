# hass-sip, specified in TLA+

A SIP phone inside Home Assistant: a pure-`asyncio` SIP/RTP client
(`custom_components/sip/sip_client/`), and on top of it an IVR, a voice
assistant bridge, recording and the integration itself
(`custom_components/sip/*.py`). This directory holds TLA+ modules of its
protocol logic, TLC configurations that check them on small instances, and
TLAPS proofs of what matters most.

## 1. Inventory

Everything runs on one `asyncio` event loop, so a step of the system is the
code between two awaits of a coroutine, or one callback. That is also the grain
of the actions. Concurrency comes from what is interleaved at awaits: packets,
timers, tasks, service calls, and the order in which tasks woken in the same
turn of the loop run.

| Component | State it keeps | Operations | What it must get right |
|---|---|---|---|
| Registration loop (`sip_client.py`: `start`, `stop`, `_reconnect`, `_register_*`, `_handle_register_response`) | line state, `registered`, socket, one register timer, REGISTER transaction, back-off, observed address | open the socket, register, refresh, challenge, 423, rejection, reconnect, stop | never forks, never dies, comes back after any failure; status honest; slow after rejections; nothing left after `stop()` |
| Call half (`sip_client.py`: `call`, `answer`, `hangup`, `_handle_invite_response`, `_handle_request`, `_end_call`) | the one dialog: Call-ID, role, INVITE transaction, accepted tag; ring, retransmission, maximum-duration timers | place, answer, hang up; 1xx/2xx/3xx+ answers; INVITE, re-INVITE, UPDATE, ACK, BYE, CANCEL; timers; DND | timers belong to the call they time; role and state agree; one of several forked answers stays; each call is reported as ended, and only when it has |
| The two together | line state, socket, `_closing` | all of the above | neither half takes the line from under the other |
| IVR session (`ivr.py`) | current menu, stack, digits, waiting, timeout task, suspension | DTMF, playback done, timeout, suspend/resume, close, hand-over to Assist | is never deaf, is quiet when closed and still when paused, asks again or ends |
| Media ownership (`_start_media`, `_stop_media_session`, `_sync_media_endpoint`, `_apply_remote_sdp`) | media lock and its waiters, session counter, owner of the socket, remote endpoint and codec | start, stop, move, bounce what another call left | a late stop does not stop the next call's media; what the socket carries is the present call's; nothing outlives a call |
| RTP session (`rtp_session.py`) | latch, watchdog, DTMF de-duplication, transmit buffer, tone queue | receive, send, hold, pause, queue a digit | one key press is one digit; the watchdog is armed exactly when media is due; one datagram does not move what we send; RTP time never runs backwards |
| Codec negotiation (`codecs.py`, `sip_message.py`) | none | choose, keep or choose | answers only what was offered and allowed |
| Audio (`audio.py`, `g711.py`, `g722.py`) | recorder sink, ffmpeg process with its feeder, transmit source | play, replace, stop, drain, kill | each source ends, and is reported once or, if it was stopped, not at all |
| Assist bridge (`assist.py`, `llm.py`) | turn, stage of the pipeline, reply, cue and tone, what is awaited, pending hangup | turn tone, transcription, cue, reply, barge-in, hang-up tool, close | it does not hear itself; it waits only for what comes; it hangs up when it was asked to, after the reply |
| PIN gate (`assist_gate.py`) | one collector slot | collect, time out, call ended | the slot belongs to the present call |
| Recording (`recording.py`) | one recorder slot | start, stop | one recorder per call, closed with it |
| Integration glue (`__init__.py`) | `runtime_data` (caller, times, menu, bridge, PIN and recorder slots), callbacks | services, callbacks, unload | data of one call never describes another; every call is filed as what it was |
| Entities, configuration flow, digest, trace | presentation | - | - |

How they interact: the glue owns one `SipClient` and hands it callbacks
(`on_state`, `on_incoming`, `on_call_ended`, `on_dtmf`, `on_playback_done`,
...). The IVR session, the assistant, the PIN collector and the recorder are
driven by those callbacks and call back into the client (`hangup`,
`play_source`, `stop_audio`). The registration loop and the call half share the
line state (`SipState`), `registered`, the socket and `_closing`: the place
where most of the hard behaviour is.

What is hard about it: UDP (answers lost, late, repeated, in another order);
forked INVITEs; timers that outlive what they time; a decision taken before and
carried out after an await (`_register_tick` -> `_reconnect`, `stop` ->
`_drain_tasks`, prompt fetches of the IVR, `_start_media`, the services); one back-off shared by two rules;
cancellation that arrives while something else is awaited;
callbacks that do not say which call, prompt or session they are about.
`PROJECT.json` lists these hazards at their lines, with the property that covers
each.

## 2. Modules

| Module | Models |
|---|---|
| `SipState` | the variables both halves share |
| `SipRegistration` | the registration loop; the call half is `CallLayer`, an action that may do whatever the call half can do to the shared state |
| `SipDialog` | the call half; the registration half is `RegistrationLayer`, in the same way |
| `SipClient` | both halves together, and that each one is the environment the other was checked against |
| `OneMedia` | what the media half promises: RTP belongs to one call at a time, is not taken from a call that is on, and is given back |
| `MediaSession` | who owns the RTP socket: the tasks that start and stop it, the SDP that moves it, `stop()`; implements `OneMedia` |
| `Codecs` | codec negotiation, as operators on parsed SDP |
| `RtpSession` | the RTP session of a call and the SDP that steers it; uses `Codecs` |
| `AudioSource` | sources that are played into a call, with the ffmpeg process behind each |
| `AssistBridge` | one voice assistant session on a call |
| `CallGlue` | `runtime_data` of an account: calls, menus, bridges, PIN, recorder, history |
| `IvrSession` | one IVR session on a connected call, with the callbacks and the client as far as it sees them |
| `SipRegistration_proof` | theorems about `SipRegistration` |
| `SipClient_proof` | theorems about `SipDialog`, and about `SipClient`, to which it carries those of both halves |
| `IvrSession_proof` | theorems about `IvrSession` |
| `MediaSession_proof` | theorems about `MediaSession` |
| `RtpSession_proof` | theorems about the operators of `Codecs`, and about `RtpSession` |
| `AudioSource_proof` | theorems about `AudioSource` |
| `AssistBridge_proof` | theorems about `AssistBridge` |
| `CallGlue_proof` | theorems about `CallGlue` |
| `MC*` | instances for TLC |

Operators that a comment marks `Mutant:` are no part of any specification.
Each is a plausible bug in the operator that follows it; substituting it shows that
the property it belongs to can fail.

### SipRegistration

* `startup`, `spawned`, `opening` count the coroutines that can take the loop
  further: the start task in `_open_socket()`, `_reconnect()` tasks that were
  created, and those that wait in `_open_socket()`. `regTimer` is
  `_register_handle`, with the seconds it was armed for. Time is otherwise
  abstract: an armed timer may fire at any later moment.
* `_register_tick()` is split by its early returns (`TickInCall`, `TickResends`,
  `TickReconnects`, `TickRefreshes`), `_handle_register_response()` likewise.
  `_reconnect()` and `stop()` are split at their awaits.
* A message is its code, whether its CSeq is that of the latest REGISTER, the
  address it reports, and Min-Expires. Text, digest and DNS are left out; 407 is
  as 401, 500 stands for every other failure.
* `observed` and `contactSent` are the addresses the re-registration of
  `_check_observed_address()` compares.
* Left out: the registrar's clock. That a binding can lapse while `registered`
  stays True (a long call, a smaller Expires granted) is a hazard without a
  property.

### SipDialog

* `dCall`, `outbound`, `incoming`, `acceptedTo`, `awaiting`, `inviteSeq` are the
  dialog variables of the code; `retxTimer`, `ringTimer`, `maxTimer` its timers. The
  last two carry the call that armed them, because a call which the line leaves without
  `_end_call()` leaves them armed; `orphanRing` are ring timers whose handle the next
  `call()` overwrote.
* `invited`, `verdict`, `calling`, `answered`, `acked`, `byed`, `took`, `ended`,
  `dropped` (calls that the line left without `_end_call()`) and `cutShort` (calls that
  the ring timer of another one hung up) are history: what is on the wire, what the peers made known, and
  what the integration was told. They restrict peers to what a peer of a real
  call can send (`Sendable`, `CanBye`, ...), and carry the properties.
* Each call is placed once; a peer's messages may come again at any later time,
  also when the next call is on.
* SDP is reduced to "no body", "fits", "does not fit". INFO, OPTIONS and
  `send_dtmf` change no state of the dialog.

### SipClient

Conjoins the two: a step is one of the registration (which leaves the dialog
alone but may take the line from it: `Drops`), `stop()` (which cancels two of the
call's timers), or one of the call half.

### IvrSession

* An action is what a coroutine (`start()`, `handle_dtmf()`, the task of
  `on_playback_done()`, the timeout task) does before or after the one await
  that suspends it, the fetch of a prompt. `fetches` counts the coroutines that
  wait there; `timeout` is the timeout task: none, asleep, or itself fetching.
* The configuration is a constant, `Script`: for each menu its prompt, choices,
  targets and post_action. Menus are not validated, so a post_action may be any
  text: the command `"nothing"` stands for a goto without a menu, a word that is no
  command, and what is no text at all, all of which the code passes over
  (`ivr.py:340-354`). An announcement with such a post_action ends and leaves the
  session deaf (`LeadsNowhere`), which `NeverDeaf` and `AsksOrEnds` name as their
  exception. Other fields are taken to be of their documented type.
* `playing` is what the client transmits. A prompt that replaces another leaves
  no `on_playback_done` of it.
* `lost` records the three ways in which a prompt goes without anybody telling
  the session: it could not be fetched (`__init__.py:633`), `suspend()` cancelled
  the task that fetched it, or a service stopped the audio. Then nothing but the
  caller hanging up ends the silence; the code has no answer to it, and
  `NeverDeaf` and `AsksOrEnds` say so.

### MediaSession

* `asyncio.Lock` is fair, so the tasks that hold and await `_media_lock` are a
  sequence, `tasks`, whose head runs. Its `phase` is the await it is in: the
  sender task of what it bounces, the bind, the close of what came too late.
* A task carries the session it was created in; `taken` is the local `session`
  that `_start_media()` reads once it has the lock. `stray` remembers a start that
  read another session than its own, or ran once `stop()` was called: after it the
  code itself cannot tell whose RTP it is.
* Call states are reduced to what media asks of them; every SDP body is an
  endpoint, or none, and a codec. The body of an ACK is applied in every state, also
  when its call is over (`sip_client.py:1668`). `on_connect_source` (line 1223) is left out: no
  caller passes it.

### Codecs, RtpSession

* `Choose` and `KeepOrChoose` are `choose()` and `keep_or_choose()`; `Acceptable`
  is what either must return, stated without them: an allowed codec, under a payload
  type that the body offers and that is this codec's own, by its static number or by an
  rtpmap of the body. `Unassigned` is the one exception of `keep_or_choose()`: a payload
  type below 96 that an rtpmap gave to a codec with another number is kept by its
  number alone, whatever the new body makes of it.
* A scenario, chosen at the start, says what may happen to the call; scenarios add
  up where the product of everything would be too large to check. `left` is
  what is left of it.
* Time is counted in frames of 20 ms by the sender (`Frame`); the watchdog is a
  flag that may fire whenever it is set.
* `stop()` has two halves, before and after it awaits the sender task
  (`rtp_session.py:304-321`); a packet between them arms the watchdog again. Then it
  outlives its RTP and lapses: it does nothing without a transport (`522`), and the
  next `start()` begins with a `stop()` that cancels it.
* `mangled` is history: a doubled packet with the marker bit, packets of two
  presses in the wrong order (RFC 2833 gives the receiver no way to tell these from
  a press more), or packets of a press that was heard and that are still on their way
  when RTP starts for the next call (`start()` forgets which press it heard).

### AudioSource

* Cancelling a task sets `asked`; what that does depends on where the task waits
  (`phase`): it unwinds through the `finally` of `run()`, or is swallowed by
  `await feeder` (`audio.py:401`), which `swallowed` remembers. A feeder catches broken
  pipes only (`443-462`); anything else it raises comes out of that await, in place of
  the cancellation, and past the kill (`misfed`).
* ffmpeg is external: its output ends and its process exits, in this order, at any
  time or never. `EverySourceEnds` assumes nothing of it.

### AssistBridge

* The bridge is one record, and a method is an operator from the bridge before to
  the bridge after, because methods call each other within one step.
* The pipeline is Home Assistant's: its events come in the order of its stages, an
  error or an exception at any of them. `media` is what the client transmits, and
  `SourceEnds` is its `on_playback_done`, which does not say what ended.
* `hasty`, `silenced`, `raised` and `cut` are history that names the known
  exceptions of the properties.
* Voice detection is a choice (`BargeIn` may happen whenever the code would listen
  for it); the epoch of replies is left out because cancelling their task does the
  same.

### CallGlue

* Attempts at a call are numbered; what is of a call carries its number. A service
  is a coroutine with one action before and one after each await; the callbacks of
  the client are one action each.
* The client is reduced to its line and to `invited`, the placed call whose INVITE it
  still hears answers for. That call may end a second time (`EndsAgain`, the 487 that
  answers our CANCEL) or ring again (`RingsAgain`, a late 180), and any call may be lost
  without a callback (`CallIsLost`, a reconnect or a 423).
* `disturbed`, `refused`, `lost`, `overlapped`, `outlived`, `orphans` and `belated` are
  history that names the known ways in which the shared data come to describe another
  call. All are sets of calls, services or tapes, so that an exception excuses only
  the one it happened to.

## 3. Runs

| Run | Instance | Shows |
|---|---|---|
| `registration` | retry 10/40/90 s, two addresses, Min-Expires 0 or 600; 30 k states | `OneDriver`, `LoopAlive`, `StatusHonest`, `StoppedIsClosed`, `RejectionsSlowDown`; live: `Recovers` |
| `dialog` | one call each way, one phone, one retransmission; 482 k states | `RoleMatchesState`, `TimersBelongToCall`, `EveryCallReported` |
| `dialog_fork` | one placed call, two phones, one with no codec in common; 57 k states | `ForkedAnswersClosed`, `ConnectsOnce`; live: `RingTimeoutEnds` |
| `dialog_next` | two placed calls, alike until placed (symmetry), `dnd` left out of the state by a view because nothing reads it without an incoming call (nor `byed` and `ended`, which no property of this run reads), one phone, no retransmission; 230 k states | `TimersBelongToCall` when late answers and timers of one call, its maximum duration included, meet the next; the first may have been lost to a reconnect, with its timers armed |
| `client_out` | the whole client with a placed call; 150 k states | `SocketUnderCall`, `NoOtherDrops`, and the client implements `Spec` and `CallSpec` |
| `media` | three sessions, two endpoints, two codecs of different rates, tasks added while at most three hold or await the lock; 228 k states | `MediaOfThisCall`, `EndedCallIsSilent`, and it implements `OneMedia`; live: `EstablishedGetsMedia` |
| `source` | a source that ffmpeg fetches and one that is fed to it, two calls, a feeder that may raise; 101 k states | `OneCompletion`; live: `EverySourceEnds` |
| `rtp` | six scenarios: codecs, hold, the latch, keys with and without marker, what we send, keys over two calls; 1.9 M states | `WatchdogGuardsCall`, `OneDigitPerPress`, `AnswerIsAcceptable`, `LatchNeedsRun`, `SentInOrder` |
| `assist` | four sets of options, three turns, one sound of somebody else; 102 k states | `HearsNoEcho`, `WaitIsOwed`, `HangupAfterReply`; live: `HangupKept` |
| `glue` | three attempts at a call, two uses of each service, six scenarios of what is used together; 4.0 M states | `SessionsAreOfThisCall`, `PinIsPrivate`, `HangupClosesFile`, `EveryCallIsFiled` |
| `ivr` | seven menus that use every field and post_action, four digits; 30 k states | `NeverDeaf`, `ClosedIsQuiet`, `PausedHolds`; live: `AsksOrEnds` |
| `ivr_invalid` | the menus of `docs/examples.md` | finds `AsksOrEnds` violated |

Type invariants are stated in every module but `RtpSession`; those of
`SipRegistration`, `SipDialog`, `AssistBridge`, `CallGlue` and `IvrSession` are theorems. `BindingHasSocket` and
`SocketMatchesOwner` are theorems too and in no run.

**Bounds.** Back-off: the code's 10 s, x2 to 300 s and x3 to 1800 s are kept as
ratios with caps of 40 and 90 s, so that both caps are reached and mixed;
`AuthFailureBound` stops counting rejections at the cap, or (0, in the client
runs) counts none. `regSent` counts REGISTERs to two, because the code only asks
whether an answer is to the latest. One call in each direction, and two
placed ones, are what it takes for a late message or timer of one to meet the
other; a second received call meets a busy line as the first meets a placed one. Two tags are the least that fork.
`MaxRetx` 1 (the code: 6) makes the timer fire and give up; the client runs need
none. The whole client is checked with one call at a time and a constant
back-off, whose value no call looks at, and one address; the theorems of
`SipClient_proof` hold for any number of each, received calls among them. Seven menus are one of each kind; four
digits are enough to go down two levels, fill a PIN and press one key
more. `media`: three sessions are the call that ended, the one that is on and
one more, so that a task can be late by two; three waiting tasks are a start, the stop of its
call and the start of the next. `rtp`: sequence numbers modulo 5 with a gap of 2 (the code:
2^16, 64) wrap within a scenario and keep "follows" different from "precedes";
two frames of tone, two end packets and a buffer of one frame are the least that make each
loop of the sender go round; four SDP bodies in a row hold, resume and hold again; eleven
bodies have static, dynamic and other payload types, and none, and three in a row keep, change
and lose a codec; two SDPs move the peer while the latch counts.
`source`: the second source replaces the first and meets its clean-up, the second call
meets the stop of the first. `assist`: three turns, two silent ones and two errors reach
every limit separately; the four sets of options have every feature with and
without the ones it meets. `glue`: three attempts are a call, one that is refused
during it and one after; two services at a time are what can collide over a slot.
Every bound sits in a constant; none cuts off a state the code could be
in, except the number of digits, calls, turns, packets and counted rejections.

**Deadlock** is not checked: a stopped client, a call that is over and a closed
session do stop. What must go on is stated as `LoopAlive`, `NeverDeaf` and the
liveness properties.

**Fairness.** Weak fairness of timers, tasks and fetches is the event loop: what
is due runs. `Recovers` further assumes that a socket that is tried again and
again opens in the end, and that a registrar that is asked again and again
accepts in the end, while a REGISTER waits for its answer (strong fairness,
because each try is a single moment); without them no code could register.
`RingTimeoutEnds` assumes nothing of peers or users. `AsksOrEnds`
assumes that fetched prompts are played or fail, that a prompt ends, and that a PIN
collection ends (it has a timeout of its own); nothing of the caller, and its
antecedent sets aside lost prompts and PIN prompts started one after the other
without end. `EstablishedGetsMedia` assumes that the holder of the media lock goes on
(binding a local port does not block) and nothing of calls or SDP.
`EverySourceEnds` assumes that the task of a source runs when it can, and nothing of
ffmpeg, which may hang. `HangupKept` assumes that the session task goes on,
that a run of the pipeline proceeds through its stages (Home Assistant gives it timeouts) and
that what the client transmits ends. The safety runs `rtp` and `glue` assume
nothing.

## 4. What the runs found

`ivr_invalid`: `repeat` in an on_invalid announcement repeats the announcement, for
ever (`ivr.py:339`).

Seen on the way. The properties allow for these, each by name (a history
variable, or a guard of the model), so that what they say holds of everything else:

*Registration and calls.*
* 180 and 401 do not look at the line state; after a hangup they bring the call
  back (`sip_client.py:1180`, `1142`), against the comment at `1198`. The same missing
  test lets a 180 after the 200 turn an established call into a ringing one:
  it is then cancelled instead of ended, and its maximum duration is spent unseen.
* The ring timer and the maximum duration are cancelled only in `_end_call()`. A call
  that is lost to a reconnect (`546`) or a 423 (`841`) leaves them armed, the
  `ring_timeout` of the next `call()` overwrites the handle (`985`), and the timer of the
  first call then hangs up the second, early, against `docs/services.md:13`
  (`orphanRing`, `cutShort`).
* The 487 that answers our own CANCEL ends the call a second time (`1236`), in any
  state. `on_call_ended` then files and clears whatever data are there: those
  of a new call if `dial` waits for the contacts (`__init__.py:943-950`), which is
  later not filed (`EndsAgain`, `disturbed`).
* An INVITE refused by DND reports the end of the call that is up (`1587`).
* A reconnect decided just before a call began closes the socket under it (`546`).
* A 423 during a call overwrites its state (`841`).
* An answer that belongs to an earlier call is never acknowledged (`1115`); the BYE
  of a forked phone that was turned down ends the call with the accepted one,
  because only Call-IDs are compared (`1547`); a call that nobody answers is not
  given up unless `ring_timeout` was passed (`1011`).
* Rejections and other failures share one back-off, and a 500 after many 403s
  shortens it to 300 s (`902`, which is why `RejectionsSlowDown` is capped at
  `RetryMax`).

*Media.*
* A start that gets the lock after its call ended reads the session counter of the
  next one, and opens RTP for a call that does not exist yet (`sip_client.py:1971`;
  `stray`).
* `run()` of an ffmpeg source takes a cancellation for that of its feeder
  (`audio.py:401`): a stopped source then goes on and reports its end, against the
  comment at `sip_client.py:1300`, "CancelledError skips the normal
  on_playback_done". A codec change during the clean-up of a source that has ended
  reports it a second time (`swallowed`, `belated`).
* A feeder that raises something other than a broken pipe ends `run()` with that, past the
  kill and the wait for ffmpeg (`audio.py:398-414`); if the source was being stopped, the
  exception takes the place of the cancellation and is reported as a playback error
  (`sip_client.py:2082`; `misfed`).
* A packet that comes while `stop()` awaits the sender arms the watchdog again
  (`rtp_session.py:308`, `515`). Harmless: it lapses (`524`).
* A codec that an rtpmap put under a payload type below 96 is kept by that number when the
  next body lists the number, though there it may be another codec (`codecs.py:194`;
  `Unassigned`).
* `keep_or_choose()` keeps or falls back to a codec for a body whose audio line
  lists only telephone-event or comfort noise, as if it had no audio line
  (`codecs.py:136`).
* Hold in the middle of an event's end packets leaves the RTP timestamp where the
  event began until transmission resumes (`rtp_session.py:344`).
* The end of a key press that was heard in one call is a press more if it arrives when
  RTP has started for the next one (`rtp_session.py:282`, `320`; `mangled`). No run had
  two calls with keys until the proof of `OneDigitPerPress` asked for it.

*Assistant.*
* The event a turn tone is awaited with is cleared before the wait for other
  media to end (`assist.py:846`, `856`); their end sets it, and the microphone opens
  while the tone is transmitted, against "wait until it finishes" (`834`; `hasty`).
* If the pipeline raises while a reply is played, the cue is left looping and a
  hang-up that is due cuts the reply (`raised`).

*Glue.*
* `dial` overwrites the data of the call that is on before the client refuses it;
  the menu of a refused dial runs in the next call (`__init__.py:918`; `disturbed`,
  `refused`).
* Two PIN prompts at once share one slot: the first to end makes the digits of the
  other public (`1199`; `overlapped`).
* A PIN that is right in the same turn of the loop in which the call ends starts a
  bridge without a call (`1213`; `outlived`).
* Two recordings started at once leave one that nobody closes, and one started
  without a call records the next (`1110`; `orphans`). One whose call ends while its path is
  checked opens all the same, with nobody to close it but the next call
  (`1097-1118`; `belated`).
* A call that is lost without `on_call_ended` leaves its menu, bridge and recorder
  to the next one (`lost`).
* A late 180 revives a call whose data are gone; its end is not filed
  (`sip_client.py:1180`; `disturbed`).

*IVR.*
* The input timeout is running while the next prompt plays (`ivr.py:157`); the end
  of an old prompt counts as that of a new one whose audio is still being fetched
  (`244`); `resume()` arms no timeout when the held-back end of a prompt meets a
  menu that already listens (`415`).
* A post_action that is no command, or a goto without a menu, is passed over without a
  word (`340-354`); after an announcement nothing takes the session on, where the
  documented `wait` at least logs a warning and listens (`LeadsNowhere`).

## 5. Proofs

All for every value of the constants, from the named assumptions on them
(`RegistrationAssumption`: the back-offs are ordered and positive; `IvrAssumption`:
keys are digits and targets are menus, Assist or a post_action, which may be any text; `MediaAssumption`: `NoSession` is no number, the
fallback is a codec; `RtpAssumption`: the bodies are what `parse_sdp()` can return and the
orders what a user can select; `AssistAssumption`: some
set of options and limits of at least 1; `DialogAssumption`, `GlueAssumption`,
`SourceAssumption`: the names for "none" are no calls, tags, services, tapes or sources, calls
placed and received are different ones, bounds are numbers).

**`SipRegistration_proof`.** `TypeOK` is inductive, the other invariants are not:
that an answer which arms the register timer finds no other driver needs to know that
an open socket excludes everybody who is still opening one, and that nothing is left
to open one after `stop()`. `SocketExcludesOpeners` says so, and `LoopInv` is it
with the invariants: `Init => LoopInv` (`LoopInit`), one step per action
(`LoopStep`), and then `TypeCorrect`, `NeverForks`, `NeverDies`, `HonestStatus`,
`ReachableBinding` and `StopIsFinal`. `WrongPasswordSlows` is the one about a number that
grows without bound: a step multiplies the wait and the bound alike, by 3, or cuts the wait to
`RetryMax` or more. What it needs of powers, that `Power3` is a function with
`Power3[n + 1] = 3 * Power3[n]` (`PowerOf3`), is an induction; the provers cannot apply the
library's rule, but a set of numbers has a least element (`LeastNumber`), and
there is no least counterexample.

**`SipClient_proof`.** The whole client implements both halves
(`ClientImplementsRegistration`, `ClientImplementsCalls`). A step of the call half is a
step of `CallLayer` because whatever moves the line has a socket; a step of the
registration half is one of `RegistrationLayer` because a line without a socket is
idle and waits for no answer. `ClientInv` adds these two facts
(`SocketUnderCall`, `NoSocketIsIdle`) to `LoopInv`. So the theorems about the loop hold
in the client (`ClientLoop`, with `RejectionsSlowDown`), and so do `CallsHaveSocket` and `OnlyKnownDrops`: a
reconnect decided before the call began, a 423 during it, and `stop()` are the only
ways to lose a call unreported.

**`IvrSession_proof`.** `NeverDeaf` is not inductive: `resume()` may find neither a
held-back end of a prompt nor a menu that listens. `Driven` counts the held-back end
where `NeverDeaf` counts the pause, and a timeout only while it fetches a prompt
itself, since `suspend()` cancels one that sleeps. With `Untouched` (nothing
happens before `start()`) and `PauseInv` it makes `IvrInv`, and `SessionNeverDeaf`,
`ClosedSessionQuiet` and `PauseHolds` follow, for every configuration that
`IvrAssumption` describes. `LeadsNowhere` is an exception of `Driven` that lasts: what
leaves such an announcement is driven again, because only `_enter_menu()` leaves it.

**`MediaSession_proof`.** Every step maps to one of `OneMedia` or a stutter
(`MediaImplementsSafety`). That a start never takes RTP from a call that is on rests
on what each wait of the head of the queue has done before it: `PhaseInv`. That a stop
only closes what has ended rests on what is queued: `QueueInv` says that a queued stop
is of a call that is over, and that `stop()` has been called when one of its own is queued.
With `OwnerInv` (RTP belongs to nobody in a later session) they make `MediaInv`,
which also gives `RecordsAgree`. The number of calls, queued tasks and endpoints is free.

`MediaOfItsCall` and `EndedCallsFallSilent` need to know in addition what is still to
come. `SilenceInv` has four parts. `OrderInv`: tasks are queued in the order of their
sessions, the stop of a session last. `HolderInv`: of whoever has RTP, or is about to,
the stops of all earlier sessions are done, and once its call is over its own
is queued; so when nothing is queued nobody is left. `SourceInv` says the same of what plays, and
`SdpInv` that RTP of the present call follows its SDP from the bind on. They hold
until a start has run outside its session (`stray`).

**`RtpSession_proof`** shows of `choose()` and `keep_or_choose()` that what they return is
`Acceptable` (`ChooseAcceptable`, `KeepOrChooseAcceptable`) and can be carried by RTP. It
has an invariant for each group of variables that does not look at the others. `CodecInv`
and these lemmas give `CodecAcceptable`, whose exception (`Unassigned`) is that of
`KeepOrChooseAcceptable`: the codec kept is compared with the new body by its number. `WatchInv` adds to
`WatchdogGuardsCall` that RTP is current only in a call that is up. The watchdog is not tied to an open socket, since the
first half of `stop()` leaves one that a packet can arm. `LatchInv` relates the candidate of `_maybe_latch()`, which
remembers one packet and a number, to the packets themselves: the last `count` of them are of its address
and stream and in sequence. `LatchNeedsRun`, which looks at the packets, follows
because a count that reaches `LearnCount` then stands for that many packets.
`KeyInv` is about the network as much as about the receiver: packets are on their way in the
order of the presses, and one of a press that arrived already is of the press heard
last (`InOrder`), so that comparing timestamps is enough; `PressesHeardOnce` follows. `SendInv`
says that whatever is sent next has the sender's timestamp, an event that is under way
included, and that what was sent last is before it; `SendsInOrder` compares it
across one step.

**The call half**, in `SipClient_proof` too, for any number of calls in both directions, phones and
retransmissions, and any behaviour of the registration half that `RegistrationLayer` allows.
`RoleMatchesState`, `TimersBelongToCall`, `EveryCallReported` and `ForkedAnswersClosed`
are inductive only together, and with two facts that no property states:
`TransactionInv` (the transaction of a dialog that we placed is that of the last INVITE
on the wire, so what a late answer is compared with is right) and `AcceptedInv` (the
tag that was accepted is that of the phone that took the call, or that phone was sent a
BYE; while nobody is accepted nobody took it). `CallsInv` is their conjunction, proved one
action at a time. `ConnectsAtMostOnce` is an action property: by `AcceptedInv` a 200
connects only a call that nobody took. Because the client implements `CallSpec`,
`ClientCalls` and `ClientConnectsOnce` hold beside registration, reconnects and `stop()`.
`TimersOfTheirCall` excuses a timer only if the very call that armed it was lost, and an early
hangup only if one was lost before: it says of the two ways to lose a call (`546`, `841`) that
nothing else orphans a timer.

**`CallGlue_proof`**, for any number of attempts, services at once, PINs and tapes.
`SessionsAreOfThisCall` compares what a session was started with to the call that is on; what
is between the two are the services that wait. `AssistInv` says
of a PIN that is waited for, and of one that was right, that it was asked for in the call that is
on and its caller checked there (`AskedInCall`), because the end of a call ends the
collector; `DataInv` that the data a service checks are those of the call
unless `disturbed` or `lost`; `Numbered` that the call that is on and the one being dialled
differ. `PinInv` adds that the PIN which is waited for has the slot. `GlueInv` is
the conjunction, and gives `SessionsOfTheCall`, `PinsStayPrivate`, `HangupsCloseFiles` and
`EveryCallFiled`.

**`AudioSource_proof`**, for any number of sources and calls. `OneCompletion` counts
reports; `TaskInv` says who may still make one: the source that is current and has made
none, one whose cancellation was swallowed, or one whose feeder raised. Every other live source has been asked to stop
and unwinds without a report.

**`AssistBridge_proof`**, for every set of options, and any number of turns and of other sources. None
of the three properties is inductive: each speaks of one kind of place in which the session waits.
`Sound` speaks of all of them. `Counts`: a turn is counted at most once as silent or failed, so
the counters stay within `max_turns`. `Plays`: a reply is fetched or played only while the bridge speaks, a
cue belongs to the run that started it, and a tone is over when the microphone opens unless `hasty`. `Owes`:
while the bridge speaks and the end of its reply is not reported, the reply is fetched, or played
by somebody who will report it. `Speaks`: which flags go with which place. Each method has a lemma, which
says what it makes of a bridge that is `Sound`, or is between two turns (`Rests`, `Begun`);
then `NoEchoHeard`, `WaitsAreOwed` and `HangsUpAfterReply` follow.

**Only model-checked.** Liveness (`Recovers`, `RingTimeoutEnds`,
`EstablishedGetsMedia`, `EverySourceEnds`, `HangupKept`, `AsksOrEnds`, and in
`ImplementsOneMedia` that RTP is given back) is beyond the
prover, as is ENABLED. Every invariant that a run checks is a theorem.

## 6. Not modelled

* Audio processing (`g711.py`, `g722.py`, levels and resampling in `audio.py`): numbers
  on sample streams, with no control flow that depends on them.
* Text: building and parsing of messages, digest, trace, policy of recording paths,
  wording of prompts. Where a decision depends on parsed text, the model takes
  the parsed value.
* INFO, OPTIONS and `send_dtmf` of the call half, which change no state of the dialog
  (a digit that arrives is `Digit` in `CallGlue`, one that is sent `QueueDigit` in
  `RtpSession`).
* Setting up, reloading and unloading the integration, which Home Assistant orders;
  services that only pass their call on.
* Entities, configuration flow: presentation, and forms that run before any client
  exists.
* The wrap of RTP timestamps at 2^32: they are only compared for equality.
* A bound on `ANSWERING` when the ACK to an offerless INVITE is lost: the code has none, since
  RTP and its watchdog start with that ACK.
* The registrar's clock: that a binding can lapse while `registered` stays True is a
  hazard without a property.

## 7. Plan

1. A composition of `AssistBridge` and `IvrSession` with `AudioSource`, whose
   completions they share.
2. Loading and unloading of the entry in `CallGlue`.
3. Proofs: that what `AudioSource` reports is what `IvrSession` and `AssistBridge` take
   for granted (an end of each source, at most once).
