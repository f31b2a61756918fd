------------------------------ MODULE CallGlue ------------------------------
(***************************************************************************)
(* What the integration keeps for the one call of an account               *)
(* (__init__.py): the caller's data, the slots of the IVR session, of the  *)
(* assistant, of the PIN collector and of the recorder.  Services are      *)
(* coroutines that change them on both sides of an await; the callbacks    *)
(* of the client change them in one go and do not say which call they are  *)
(* about.  The client is reduced to its line; what a session does inside   *)
(* is in IvrSession and AssistBridge.                                      *)
(*                                                                         *)
(* Calls, incoming or dialled, also in vain, are numbered as they come;    *)
(* 0 is no call.  What is of a call carries its number.                    *)
(***************************************************************************)
EXTENDS Integers, FiniteSets

CONSTANTS
    MaxCalls,   \* attempts at a call in the model
    Asks,       \* uses of start_assist, each once
    Tapes,      \* uses of start_recording, each once
    Scenarios,  \* what is used together in the model, see ScenarioOK
    None        \* an empty slot

ScenarioOK == [dials : BOOLEAN, dnd : BOOLEAN, asks : SUBSET Asks, tapes : SUBSET Tapes]

ASSUME GlueAssumption ==
    MaxCalls \in Nat /\ None \notin Asks \cup Tapes /\ Scenarios \subseteq ScenarioOK

VARIABLES
    scenario,
    line,        \* the state of the client, see LineOK
    call,        \* the call that is on
    invited,     \* the placed call whose INVITE answers are heard for: _outbound and
                 \* _d_call_id, until the next call in either direction
    placed,      \* attempts so far
    dialling,    \* the dial service waits for the contacts: its attempt, or 0
    number,      \* whose caller and times runtime_data holds
    connected,   \* call_connect_time is set
    ivr,         \* ivr_session: whose it is, and whether it was started
    ask,         \* the start_assist coroutines, see AskOK
    collector,   \* runtime_data["pin_collector"]
    assist,      \* assist_bridge
    tape,        \* the recorders and the coroutines that start them, see TapeOK
    recorder,    \* runtime_data["recorder"]
    filed,       \* history: for each call, what the history of calls says of it
    refused,     \* history: attempts to dial that the client refused
    disturbed,   \* history: calls whose data another attempt overwrote or took
    lost,        \* history: calls the client dropped without on_call_ended()
    overlapped,  \* history: uses of start_assist that asked for a PIN at once
    outlived,    \* history: uses of start_assist whose call ended after the PIN was right
    betrayed,    \* history: those that waited for a PIN when a digit was made public
    orphans,     \* history: recorders that another one took the slot from
    belated      \* history: recorders that opened when their call was over

clientVars == <<line, call, invited, placed, lost, scenario>>
sessionVars == <<ivr, ask, collector, assist>>
tapeVars == <<tape, recorder, orphans, belated>>
dataVars == <<dialling, number, connected, filed, refused, disturbed>>
pinHistory == <<overlapped, outlived, betrayed>>
glueVars == <<clientVars, dataVars, sessionVars, tapeVars, pinHistory>>

CallOrNone == 0..MaxCalls
LineOK == {"idle", "invites", "rings", "answers", "up"}
AskOK == [at : {"none", "pin", "right", "wrong", "gone"},
          during : CallOrNone, checked : CallOrNone]
TapeOK == [at : {"none", "checks", "waits", "open", "closed", "done", "refused"},
           of : CallOrNone, old : Tapes \cup {None}]
NoMenu == [of |-> 0, started |-> FALSE]
NoAssist == [ask |-> None, of |-> 0]

GlueTypeOK ==
    /\ scenario \in Scenarios /\ line \in LineOK
    /\ {call, invited, placed, dialling, number} \subseteq CallOrNone
    /\ connected \in BOOLEAN /\ ivr \in {None} \cup [of : CallOrNone, started : BOOLEAN]
    /\ ask \in [Asks -> AskOK] /\ collector \in Asks \cup {None}
    /\ assist \in [ask : Asks \cup {None}, of : CallOrNone]
    /\ tape \in [Tapes -> TapeOK] /\ recorder \in Tapes \cup {None}
    /\ filed \in [1..MaxCalls -> {"nothing", "answered", "unanswered", "another"}]

GlueInit ==
    /\ scenario \in Scenarios
    /\ line = "idle" /\ call = 0 /\ invited = 0 /\ placed = 0 /\ lost = {} /\ dialling = 0
    /\ number = 0 /\ connected = FALSE /\ ivr = None
    /\ ask = [a \in Asks |-> [at |-> "none", during |-> 0, checked |-> 0]]
    /\ collector = None /\ assist = NoAssist
    /\ tape = [t \in Tapes |-> [at |-> "none", of |-> 0, old |-> None]] /\ recorder = None
    /\ filed = [c \in 1..MaxCalls |-> "nothing"]
    /\ refused = {} /\ disturbed = {} /\ overlapped = {} /\ outlived = {} /\ betrayed = {}
    /\ orphans = {} /\ belated = {}
-----------------------------------------------------------------------------
(* Callbacks of the client. *)

\* on_incoming_call(): the data of attempt c replace those of the call that is on.
Tracked(c) ==
    /\ number' = c
    /\ disturbed' = disturbed \cup {d \in {call, number} : d # 0 /\ d # c}

\* What on_call_ended() adds to the history of calls, and of which call.
Entry(c, of, answered) ==
    IF of = 0 THEN "nothing" ELSE IF of # c THEN "another"
    ELSE IF answered THEN "answered" ELSE "unanswered"

Waiting(a) == ask[a].at = "pin"

\* Mutant: the slot is emptied, and the collector waits on.
SlotEmptied == collector' = None /\ UNCHANGED ask

\* collector.fail() for the one in the slot
CollectorFails ==
    /\ ask' = [a \in Asks |-> IF a = collector /\ Waiting(a) THEN [ask[a] EXCEPT !.at = "wrong"]
                              ELSE ask[a]]
    /\ collector' = None

\* Mutant: the session of the call that is over stays.
KeepsMenu == UNCHANGED ivr

MenuCloses == ivr' = None

\* Mutant: the file stays open.
KeepsRecorder == UNCHANGED tapeVars

\* close_recorder_slot()
RecorderCloses ==
    /\ tape' = IF recorder = None THEN tape ELSE [tape EXCEPT ![recorder].at = "closed"]
    /\ recorder' = None
    /\ UNCHANGED <<orphans, belated>>

\* on_call_ended(), for the call that ended, for one that ended before or, with DND, for
\* one that was refused
OnCallEnded ==
    /\ CollectorFails /\ MenuCloses /\ RecorderCloses
    /\ assist' = NoAssist
    /\ number' = 0
    /\ outlived' = outlived \cup {a \in Asks : ask[a].at = "right"}

\* The time is cleared with the other data, if there are any.
TimeFiled == connected' = (connected /\ number = 0)

\* The call ends, whoever ends it.
CallEnds ==
    /\ line # "idle"
    /\ line' = "idle" /\ call' = 0
    /\ OnCallEnded /\ TimeFiled
    /\ filed' = [filed EXCEPT ![call] = Entry(call, number, connected)]
    /\ disturbed' = disturbed \cup ({number} \ {0, call})
    /\ UNCHANGED <<invited, placed, lost, scenario, dialling, refused, overlapped, betrayed>>

\* The INVITE of a placed call that is over is refused: the 487 that answers our CANCEL,
\* or a final answer again.  It ends for a second time, with the data that are there.
EndsAgain ==
    /\ invited # 0 /\ line = "idle"
    /\ OnCallEnded /\ TimeFiled
    /\ filed' = IF number = 0 THEN filed
                ELSE [filed EXCEPT ![number] = Entry(number, number, connected)]
    /\ disturbed' = disturbed \cup ({number} \ {0})
    /\ UNCHANGED <<clientVars, dialling, refused, overlapped, betrayed>>

\* A 180 comes late: the placed call that is up, or that is over, without its data then,
\* rings again.
RingsAgain ==
    /\ invited # 0 /\ line \in {"idle", "up"}
    /\ line' = "invites" /\ call' = invited
    /\ disturbed' = disturbed \cup {invited}
    /\ UNCHANGED <<invited, placed, lost, scenario, dialling, number, connected, filed, refused,
                   sessionVars, tapeVars, pinHistory>>

\* _reconnect(), and _do_register() after a 423: the line goes on without the call, and
\* nobody is told.
CallIsLost ==
    /\ line # "idle"
    /\ line' = "idle" /\ call' = 0 /\ lost' = lost \cup {call}
    /\ UNCHANGED <<invited, placed, scenario, dataVars, sessionVars, tapeVars, pinHistory>>

\* Mutant: the time of the last answer stays.
KeepsTime(auto) == connected \/ auto

\* call_connect_time of an incoming call: a contact may be answered at once.
ConnectTime(auto) == auto

\* An INVITE while the line is idle
IncomingCall ==
    /\ line = "idle" /\ placed < MaxCalls
    /\ placed' = placed + 1 /\ call' = placed + 1 /\ invited' = 0
    /\ Tracked(placed + 1)
    /\ \E auto \in BOOLEAN :
         /\ line' = IF auto THEN "up" ELSE "rings"
         /\ connected' = ConnectTime(auto)
         /\ ivr' = IF auto /\ ivr # None THEN [ivr EXCEPT !.started = TRUE] ELSE ivr
    /\ UNCHANGED <<lost, scenario, dialling, filed, refused, ask, collector, assist, tapeVars,
                   pinHistory>>

\* Do Not Disturb: reported, and reported as ended.
IncomingRefused ==
    /\ scenario.dnd /\ placed < MaxCalls
    /\ placed' = placed + 1
    /\ OnCallEnded /\ connected' = FALSE
    /\ disturbed' = disturbed \cup ({call, number} \ {0})
    /\ filed' = [filed EXCEPT ![placed + 1] = "unanswered"]
    /\ UNCHANGED <<line, call, invited, lost, scenario, dialling, refused, overlapped, betrayed>>

\* on_call_connected()
CallConnected ==
    /\ line \in {"invites", "answers"}
    /\ line' = "up"
    /\ connected' = TRUE
    /\ disturbed' = disturbed \cup ({number} \ {0, call})
    /\ ivr' = IF ivr = None THEN None ELSE [ivr EXCEPT !.started = TRUE]
    /\ UNCHANGED <<call, invited, placed, lost, scenario, dialling, number, filed, refused, ask,
                   collector, assist, tapeVars, pinHistory>>

\* on_dtmf(): the PIN collector takes the digit, right or wrong, or it is public.
Digit ==
    /\ line = "up"
    /\ IF collector = None
       THEN /\ betrayed' = betrayed \cup {a \in Asks : Waiting(a)}
            /\ UNCHANGED ask
       ELSE /\ \E result \in {"right", "wrong"} :
                 ask' = [ask EXCEPT ![collector].at = IF @ = "pin" THEN result ELSE @]
            /\ UNCHANGED betrayed
    /\ UNCHANGED <<clientVars, dataVars, ivr, collector, assist, tapeVars, overlapped, outlived>>

ClientCallback ==
    \/ CallEnds \/ EndsAgain \/ RingsAgain \/ CallIsLost
    \/ IncomingCall \/ IncomingRefused \/ CallConnected \/ Digit
-----------------------------------------------------------------------------
(* The services dial and answer, and the answer button. *)

\* handle_dial() up to the contacts.
DialBegins ==
    /\ scenario.dials /\ dialling = 0 /\ placed < MaxCalls
    /\ placed' = placed + 1 /\ dialling' = placed + 1
    /\ Tracked(placed + 1)
    /\ connected' = FALSE
    /\ UNCHANGED <<line, call, invited, lost, scenario, filed, refused, sessionVars, tapeVars,
                   pinHistory>>

\* A session if there is a menu or a message.
SetIvr(of) == ivr' \in {None, [of |-> of, started |-> FALSE]}

\* The rest of it; the client may not be registered.
DialGoesOn ==
    /\ dialling # 0
    /\ dialling' = 0
    /\ SetIvr(dialling)
    /\ \/ /\ line = "idle" /\ line' = "invites" /\ call' = dialling /\ invited' = dialling
          /\ UNCHANGED refused
       \/ refused' = refused \cup {dialling} /\ UNCHANGED <<line, call, invited>>
    /\ UNCHANGED <<placed, lost, scenario, number, connected, filed, disturbed, ask, collector,
                   assist, tapeVars, pinHistory>>

\* handle_answer(), which is heard of in any state.
Answer ==
    /\ SetIvr(call)
    /\ line' = IF line = "rings" THEN "answers" ELSE line
    /\ UNCHANGED <<call, invited, placed, lost, scenario, dataVars, ask, collector, assist,
                   tapeVars, pinHistory>>

AnswerButton ==
    /\ line = "rings" /\ line' = "answers"
    /\ UNCHANGED <<call, invited, placed, lost, scenario, dataVars, sessionVars, tapeVars,
                   pinHistory>>

DialService == DialBegins \/ DialGoesOn \/ Answer \/ AnswerButton
-----------------------------------------------------------------------------
(* The service start_assist. *)

\* trigger_assist_internal(), after the session of the menu was retired
AssistStarts(a) ==
    /\ ivr' = None
    /\ assist' = [ask |-> a, of |-> call]

\* The caller is checked, by the number that runtime_data holds.
StartAssist(a) ==
    /\ a \in scenario.asks /\ ask[a].at = "none"
    /\ ask' = [ask EXCEPT ![a] = [at |-> "gone", during |-> call, checked |-> number]]
    /\ AssistStarts(a)
    /\ UNCHANGED <<clientVars, dataVars, collector, tapeVars, pinHistory>>

\* Those that are not done with their PIN yet.
InHand == {o \in Asks : ask[o].at \in {"pin", "right", "wrong"}}

\* ... and a PIN is asked for.
AskPin(a) ==
    /\ a \in scenario.asks /\ ask[a].at = "none"
    /\ ask' = [ask EXCEPT ![a] = [at |-> "pin", during |-> call, checked |-> number]]
    /\ collector' = a
    /\ overlapped' = overlapped \cup (IF InHand = {} THEN {} ELSE InHand \cup {a})
    /\ UNCHANGED <<clientVars, dataVars, ivr, assist, tapeVars, outlived, betrayed>>

PinTimeout(a) ==
    /\ Waiting(a)
    /\ ask' = [ask EXCEPT ![a].at = "wrong"]
    /\ UNCHANGED <<clientVars, dataVars, ivr, collector, assist, tapeVars, pinHistory>>

\* `finally', whosever collector is in the slot.
ClearsSlot == collector' = None

PinRight(a) ==
    /\ ask[a].at = "right"
    /\ ask' = [ask EXCEPT ![a].at = "gone"]
    /\ ClearsSlot
    /\ AssistStarts(a)
    /\ UNCHANGED <<clientVars, dataVars, tapeVars, pinHistory>>

PinWrong(a) ==
    /\ ask[a].at = "wrong"
    /\ ask' = [ask EXCEPT ![a].at = "gone"]
    /\ ClearsSlot
    /\ UNCHANGED <<clientVars, dataVars, ivr, assist, tapeVars, pinHistory>>

\* on_assist_done(), of the bridge in the slot; it may hang up, which is CallEnds.
AssistEnds ==
    /\ assist.ask # None
    /\ assist' = NoAssist
    /\ UNCHANGED <<clientVars, dataVars, ivr, ask, collector, tapeVars, pinHistory>>

AssistService ==
    \/ \E a \in Asks : StartAssist(a) \/ AskPin(a) \/ PinTimeout(a) \/ PinRight(a) \/ PinWrong(a)
    \/ AssistEnds
-----------------------------------------------------------------------------
(* The services start_recording and stop_recording, and the threads that     *)
(* write.                                                                    *)

StartRecording(t) ==
    /\ t \in scenario.tapes /\ tape[t].at = "none"
    /\ tape' = [tape EXCEPT ![t].at = "checks", ![t].of = call]
    /\ UNCHANGED <<clientVars, dataVars, sessionVars, recorder, orphans, belated, pinHistory>>

\* The recorder starts, and takes the slot.
Opens(t, tapes) ==
    /\ tape' = [tapes EXCEPT ![t].at = "open"]
    /\ recorder' = t
    /\ orphans' = orphans \cup {o \in Tapes : tapes[o].at = "open"}
    /\ belated' = IF tape[t].of = call THEN belated ELSE belated \cup {t}
    /\ UNCHANGED <<clientVars, dataVars, sessionVars, pinHistory>>

PathRefused(t) ==
    /\ tape[t].at = "checks"
    /\ tape' = [tape EXCEPT ![t].at = "refused"]
    /\ UNCHANGED <<clientVars, dataVars, sessionVars, recorder, orphans, belated, pinHistory>>

\* The path is checked; the recorder in the slot, if any, is closed and waited for.
PathChecked(t) ==
    /\ tape[t].at = "checks"
    /\ IF recorder = None THEN Opens(t, tape)
       ELSE /\ tape' = [tape EXCEPT ![t].at = "waits", ![t].old = recorder,
                                   ![recorder].at = "closed"]
            /\ recorder' = None
            /\ UNCHANGED <<clientVars, dataVars, sessionVars, orphans, belated, pinHistory>>

\* Its file is written, or ten seconds have passed.
OldWaited(t) == tape[t].at = "waits" /\ Opens(t, tape)

StopRecording ==
    /\ recorder # None
    /\ RecorderCloses
    /\ UNCHANGED <<clientVars, dataVars, sessionVars, pinHistory>>

\* The thread of a closed recorder writes the rest and ends.
Written(t) ==
    /\ tape[t].at = "closed"
    /\ tape' = [tape EXCEPT ![t].at = "done"]
    /\ UNCHANGED <<clientVars, dataVars, sessionVars, recorder, orphans, belated, pinHistory>>

RecordingService ==
    \/ \E t \in Tapes :
          StartRecording(t) \/ PathRefused(t) \/ PathChecked(t) \/ OldWaited(t) \/ Written(t)
    \/ StopRecording

GlueNext == ClientCallback \/ DialService \/ AssistService \/ RecordingService

GlueSpec == GlueInit /\ [][GlueNext]_glueVars
-----------------------------------------------------------------------------
\* The menu that is running is the one that the dial or answer service gave for this
\* call (on_call_connected()).  Exceptions: one left by a dial that the client refused,
\* by an answer when there was nothing to answer, or by a call that was lost.
MenuIsForThisCall ==
    ivr # None => (ivr.started => ivr.of \in {0, call} \cup refused \cup lost)

\* The assistant that is on talks to the caller that start_assist checked, in the call
\* it was asked for.  Exceptions: calls whose data were overwritten or that were lost, a
\* PIN that was right when its call ended, and the service called without a call.
AssistIsForThisCall ==
    assist.ask # None =>
       \/ assist.of = call /\ ask[assist.ask].checked = call
       \/ ask[assist.ask].during \in {0} \cup lost
       \/ call \in disturbed \/ assist.ask \in outlived

\* Sessions do not outlive their call into the next one.
SessionsAreOfThisCall == MenuIsForThisCall /\ AssistIsForThisCall

\* While a PIN is collected, no digit is public ("While the PIN is collected, digits
\* are not logged and `sip_dtmf_digit` is not fired", docs/services.md), unless another
\* one was asked for before it was done with.
PinIsPrivate == betrayed \subseteq overlapped

\* A call that ends goes into the history of calls as what it was, unless another
\* attempt, the second end of the call before or a late 180 that has it ring again
\* (disturbed) took its data, or it was lost (on_call_ended()).
EveryCallIsFiled ==
    [][line # "idle" /\ line' = "idle" =>
          \/ filed'[call] = IF line = "up" THEN "answered" ELSE "unanswered"
          \/ call \in disturbed' \cup lost']_glueVars

\* "Hangup closes the file" (docs/services.md): what is recorded is the call in which
\* it was asked for.  Exceptions: two recordings started at once, one that opens when
\* its call is over, one asked for when no call is on, and a call that was lost.
HangupClosesFile ==
    \A t \in Tapes :
       tape[t].at = "open" =>
          \/ t \in orphans \cup belated
          \/ t = recorder /\ tape[t].of \in {0, call} \cup lost
=============================================================================
