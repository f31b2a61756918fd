--------------------------- MODULE CallGlue_proof ---------------------------
(***************************************************************************)
(* Proofs about CallGlue for any number of calls, uses of the services and *)
(* ways in which they are used together.                                   *)
(***************************************************************************)
EXTENDS CallGlue, TLAPS

(* The types, by the part that keeps them. *)

LineTyped ==
    /\ scenario \in Scenarios /\ line \in LineOK
    /\ placed \in CallOrNone /\ call \in CallOrNone /\ invited \in CallOrNone
    /\ dialling \in CallOrNone /\ number \in CallOrNone
    /\ connected \in BOOLEAN

FiledTyped == filed \in [1..MaxCalls -> {"nothing", "answered", "unanswered", "another"}]

MenuTyped == ivr \in {None} \cup [of : CallOrNone, started : BOOLEAN]

AsksTyped == ask \in [Asks -> AskOK]

SlotsTyped ==
    /\ collector \in Asks \cup {None}
    /\ assist \in [ask : Asks \cup {None}, of : CallOrNone]

TapesTyped == tape \in [Tapes -> TapeOK] /\ recorder \in Tapes \cup {None}

Typed ==
    LineTyped /\ FiledTyped /\ MenuTyped /\ AsksTyped /\ SlotsTyped /\ TapesTyped

\* Attempts are numbered as they come; the line is idle exactly without a call, what is
\* being dialled is not a call yet, and a call is not on while answers are heard for
\* another.
Numbered ==
    /\ {call, invited, number, dialling} \subseteq 0..placed
    /\ line = "idle" <=> call = 0
    /\ line # "idle" /\ invited # 0 => invited = call
    /\ dialling # 0 => dialling \notin {call, invited}

\* The data of the call that is on, and of the one being dialled, are in place, or
\* another attempt overwrote them; then the times tell what became of the call.
DataInv ==
    /\ call # 0 => number = call \/ call \in disturbed
    /\ dialling # 0 => number = dialling \/ dialling \in disturbed
    /\ line # "idle" /\ call \notin disturbed => (connected <=> line = "up")
    /\ dialling # 0 /\ dialling \notin disturbed => ~connected

\* A session of the menu was given for the call that is on, started or not, or it is
\* one of the exceptions.
MenuInv == ivr # None => ivr.of \in {0, call} \cup refused \cup lost

\* Ask a was made in the call that is on, in one that was lost or without one, and its
\* caller was checked as far as the data were in place.
AskedInCall(a) ==
    \/ ask[a].during \in {0} \cup lost
    \/ ask[a].during = call /\ (ask[a].checked = call \/ call \in disturbed)

\* The collector in the slot, a PIN that was right and the assistant that is on are of
\* this call, unless it ended when the PIN was already right.
AssistInv ==
    /\ collector # None => ask[collector].at # "none" /\
         (Waiting(collector) => AskedInCall(collector))
    /\ \A a \in Asks : ask[a].at = "right" => AskedInCall(a) \/ a \in outlived
    /\ assist.ask # None =>
         /\ ask[assist.ask].at # "none"
         /\ \/ ask[assist.ask].during \in {0} \cup lost \/ assist.ask \in outlived
            \/ AskedInCall(assist.ask) /\ assist.of = call

\* Who did not ask for a PIN while another one was at it is alone, and has the slot
\* while the PIN is waited for.
PinInv ==
    /\ PinIsPrivate
    /\ \A a \in InHand \ overlapped :
         /\ InHand = {a}
         /\ Waiting(a) => a = collector

GlueInv ==
    /\ Typed
    /\ Numbered /\ DataInv /\ MenuInv /\ AssistInv /\ PinInv /\ HangupClosesFile

LEMMA TypedIsTypeOK == Typed <=> GlueTypeOK
BY DEF Typed, LineTyped, FiledTyped, MenuTyped, AsksTyped, SlotsTyped, TapesTyped,
   GlueTypeOK

LEMMA GlueInvInit == GlueInit => GlueInv
<1>. SUFFICES ASSUME GlueInit PROVE GlueInv
  OBVIOUS
<1>. USE GlueAssumption DEF GlueAssumption, GlueInit, CallOrNone, NoAssist
<1>1. LineTyped
  <2>1. 0 \in CallOrNone
    OBVIOUS
  <2>. QED  BY <2>1 DEF LineTyped, LineOK
<1>7. FiledTyped /\ MenuTyped
  BY DEF FiledTyped, MenuTyped
<1>2. AsksTyped /\ SlotsTyped
  BY DEF AsksTyped, SlotsTyped, AskOK
<1>3. TapesTyped
  BY DEF TapesTyped, TapeOK
<1>4. Numbered /\ DataInv /\ MenuInv
  BY DEF Numbered, DataInv, MenuInv
<1>5. AssistInv /\ PinInv
  BY DEF AssistInv, PinInv, PinIsPrivate, InHand, Waiting
<1>6. HangupClosesFile
  BY DEF HangupClosesFile
<1>. QED  BY <1>1, <1>2, <1>3, <1>4, <1>5, <1>6, <1>7 DEF GlueInv, Typed
-----------------------------------------------------------------------------
(* What the helpers on the uses of the services keep. *)

\* A use of start_assist goes on: nothing else of it changes, nor of another.
LEMMA AskAt ==
    ASSUME AsksTyped, NEW a \in Asks,
           NEW at \in {"none", "pin", "right", "wrong", "gone"}
    PROVE  LET new == [ask EXCEPT ![a].at = at]
           IN  /\ new \in [Asks -> AskOK]
               /\ \A b \in Asks : new[b].at = (IF b = a THEN at ELSE ask[b].at)
               /\ \A b \in Asks : /\ new[b].during = ask[b].during
                                  /\ new[b].checked = ask[b].checked
BY DEF AsksTyped, AskOK

LEMMA TapeAt ==
    ASSUME NEW tapes \in [Tapes -> TapeOK], NEW t \in Tapes,
           NEW at \in {"none", "checks", "waits", "open", "closed", "done", "refused"}
    PROVE  LET new == [tapes EXCEPT ![t].at = at]
           IN  /\ new \in [Tapes -> TapeOK]
               /\ \A o \in Tapes : new[o].at = (IF o = t THEN at ELSE tapes[o].at)
               /\ \A o \in Tapes : new[o].of = tapes[o].of
BY DEF TapeOK

\* fail() ends the wait of the collector in the slot, and touches nothing else.
LEMMA FailedAsks ==
    ASSUME AsksTyped, CollectorFails
    PROVE  /\ ask' \in [Asks -> AskOK]
           /\ \A b \in Asks :
                /\ ask'[b].at = (IF b = collector /\ Waiting(b) THEN "wrong" ELSE ask[b].at)
                /\ ask'[b].during = ask[b].during /\ ask'[b].checked = ask[b].checked
<1>1. \A a \in Asks : [ask[a] EXCEPT !.at = "wrong"] \in AskOK
  BY DEF AsksTyped, AskOK
<1>2. ask' \in [Asks -> AskOK]
  BY <1>1 DEF AsksTyped, CollectorFails
<1>3. ASSUME NEW b \in Asks
      PROVE  /\ ask'[b].at = (IF b = collector /\ Waiting(b) THEN "wrong" ELSE ask[b].at)
             /\ ask'[b].during = ask[b].during /\ ask'[b].checked = ask[b].checked
  <2>1. ask'[b] = IF b = collector /\ Waiting(b) THEN [ask[b] EXCEPT !.at = "wrong"]
                  ELSE ask[b]
    BY DEF CollectorFails
  <2>. QED  BY <2>1 DEF AsksTyped, AskOK
<1>. QED  BY <1>2, <1>3

\* The digit that the collector takes decides about its PIN.
LEMMA DigitTaken ==
    ASSUME AsksTyped, SlotsTyped, None \notin Asks, Digit
    PROVE  /\ ask' \in [Asks -> AskOK]
           /\ \A b \in Asks :
                /\ \/ ask'[b].at = ask[b].at
                   \/ b = collector /\ Waiting(b) /\ ask'[b].at \in {"right", "wrong"}
                /\ ask'[b].during = ask[b].during /\ ask'[b].checked = ask[b].checked
<1>1. CASE collector = None
  <2>1. ask' = ask
    BY <1>1 DEF Digit
  <2>. QED  BY <2>1 DEF AsksTyped
<1>2. CASE collector # None
  <2>1. PICK result \in {"right", "wrong"} :
          ask' = [ask EXCEPT ![collector].at = IF @ = "pin" THEN result ELSE @]
    BY <1>2 DEF Digit
  <2>2. collector \in Asks
    BY <1>2 DEF SlotsTyped
  <2>. DEFINE at == IF ask[collector].at = "pin" THEN result ELSE ask[collector].at
  <2>3. at \in {"none", "pin", "right", "wrong", "gone"}
    BY <2>1, <2>2 DEF AsksTyped, AskOK
  <2>4. ask' = [ask EXCEPT ![collector].at = at]
    BY <2>1, <2>2 DEF AsksTyped, AskOK
  <2>5. \/ at = ask[collector].at
        \/ Waiting(collector) /\ at \in {"right", "wrong"}
    BY <2>1 DEF Waiting
  <2>. HIDE DEF at
  <2>6. /\ ask' \in [Asks -> AskOK]
        /\ \A b \in Asks :
             /\ ask'[b].at = (IF b = collector THEN at ELSE ask[b].at)
             /\ ask'[b].during = ask[b].during /\ ask'[b].checked = ask[b].checked
    BY <2>2, <2>3, <2>4 DEF AsksTyped, AskOK
  <2>. QED  BY <2>2, <2>5, <2>6
<1>. QED  BY <1>1, <1>2

\* What the services leave alone.
LEMMA RecordingFrame ==
    ASSUME RecordingService
    PROVE  UNCHANGED <<clientVars, dataVars, sessionVars, pinHistory>>
BY DEF RecordingService, StartRecording, PathRefused, PathChecked, OldWaited, Opens,
   StopRecording, Written, clientVars, dataVars, sessionVars, pinHistory

LEMMA AssistFrame ==
    ASSUME AssistService
    PROVE  /\ UNCHANGED <<clientVars, dataVars, tapeVars>>
           /\ ivr' \in {None, ivr}
BY DEF AssistService, StartAssist, AssistStarts, AskPin, PinTimeout, PinRight, PinWrong,
   AssistEnds, clientVars, dataVars, sessionVars, tapeVars

LEMMA DialFrame ==
    ASSUME DialService
    PROVE  /\ UNCHANGED <<filed, lost, ask, collector, assist, tapeVars, pinHistory>>
           /\ call' = call \/ line = "idle"
BY DEF DialService, DialBegins, DialGoesOn, Answer, AnswerButton, Tracked, dataVars,
   clientVars, sessionVars, tapeVars, pinHistory
-----------------------------------------------------------------------------
\* The numbers of the calls stay in order, whatever comes in while a dial waits.
LEMMA LineKept ==
    ASSUME GlueInv, [GlueNext]_glueVars
    PROVE  LineTyped' /\ Numbered'
<1>. USE GlueAssumption
     DEF GlueAssumption, clientVars, sessionVars, tapeVars, dataVars, pinHistory,
         CallOrNone, LineTyped, LineOK, Numbered
<1>0. LineTyped /\ Numbered
  BY DEF GlueInv, Typed
<1>1. CASE CallEnds
  BY <1>0, <1>1 DEF CallEnds, TimeFiled, OnCallEnded, CollectorFails, MenuCloses, RecorderCloses
<1>21. CASE EndsAgain
  BY <1>0, <1>21 DEF EndsAgain, TimeFiled, OnCallEnded, CollectorFails, MenuCloses, RecorderCloses
<1>22. CASE RingsAgain
  BY <1>0, <1>22 DEF RingsAgain
<1>23. CASE CallIsLost
  BY <1>0, <1>23 DEF CallIsLost
<1>2. CASE IncomingCall
  BY <1>0, <1>2 DEF IncomingCall, Tracked, ConnectTime
<1>3. CASE IncomingRefused
  <2>1. /\ placed < MaxCalls /\ placed' = placed + 1 /\ number' = 0 /\ connected' = FALSE
        /\ UNCHANGED <<scenario, line, call, invited, dialling>>
    BY <1>3 DEF IncomingRefused, OnCallEnded
  <2>2. LineTyped'
    <3>1. placed' \in CallOrNone /\ number' \in CallOrNone
      BY <1>0, <2>1
    <3>. QED  BY <1>0, <2>1, <3>1
  <2>3. Numbered'
    BY <1>0, <2>1
  <2>. QED  BY <2>2, <2>3
<1>4. CASE CallConnected
  BY <1>0, <1>4 DEF CallConnected
<1>5. CASE Digit
  BY <1>0, <1>5 DEF Digit
<1>6. CASE DialBegins
  <2>1. LineTyped'
    <3>1. placed + 1 \in CallOrNone
      BY <1>0, <1>6 DEF DialBegins
    <3>. QED  BY <1>0, <3>1, <1>6 DEF DialBegins, Tracked
  <2>2. Numbered'
    BY <1>0, <1>6 DEF DialBegins, Tracked
  <2>. QED  BY <2>1, <2>2
<1>7. CASE DialGoesOn
  BY <1>0, <1>7 DEF DialGoesOn, SetIvr
<1>8. CASE Answer
  BY <1>0, <1>8 DEF Answer, SetIvr
<1>9. CASE AnswerButton
  BY <1>0, <1>9 DEF AnswerButton
<1>10. CASE AssistService
  BY <1>0, <1>10, AssistFrame
<1>11. CASE RecordingService
  BY <1>0, <1>11, RecordingFrame
<1>12. CASE UNCHANGED glueVars
  BY <1>0, <1>12 DEF glueVars
<1>. QED
  BY <1>1, <1>2, <1>3, <1>4, <1>5, <1>6, <1>7, <1>8, <1>9, <1>10, <1>11, <1>12,
     <1>21, <1>22, <1>23
     DEF GlueNext, ClientCallback, DialService

\* The history of calls has one entry for each attempt.
LEMMA FiledKept ==
    ASSUME GlueInv, [GlueNext]_glueVars
    PROVE  FiledTyped'
<1>. USE GlueAssumption
     DEF GlueAssumption, clientVars, sessionVars, tapeVars, dataVars, pinHistory,
         CallOrNone, LineTyped, FiledTyped, Numbered, Entry
<1>0. LineTyped /\ Numbered /\ FiledTyped
  BY DEF GlueInv, Typed
<1>1. CASE CallEnds
  BY <1>0, <1>1 DEF CallEnds, TimeFiled, OnCallEnded, CollectorFails, MenuCloses, RecorderCloses
<1>21. CASE EndsAgain
  BY <1>0, <1>21 DEF EndsAgain, TimeFiled, OnCallEnded, CollectorFails, MenuCloses, RecorderCloses
<1>22. CASE RingsAgain
  BY <1>0, <1>22 DEF RingsAgain
<1>23. CASE CallIsLost
  BY <1>0, <1>23 DEF CallIsLost
<1>2. CASE IncomingCall
  BY <1>0, <1>2 DEF IncomingCall, Tracked, ConnectTime
<1>3. CASE IncomingRefused
  BY <1>0, <1>3 DEF IncomingRefused, OnCallEnded, CollectorFails, MenuCloses, RecorderCloses
<1>4. CASE CallConnected
  BY <1>0, <1>4 DEF CallConnected
<1>5. CASE Digit
  BY <1>0, <1>5 DEF Digit
<1>6. CASE DialService
  BY <1>0, <1>6, DialFrame
<1>7. CASE AssistService
  BY <1>0, <1>7, AssistFrame
<1>8. CASE RecordingService
  BY <1>0, <1>8, RecordingFrame
<1>9. CASE UNCHANGED glueVars
  BY <1>0, <1>9 DEF glueVars
<1>. QED
  BY <1>1, <1>2, <1>3, <1>4, <1>5, <1>6, <1>7, <1>8, <1>9,
     <1>21, <1>22, <1>23
     DEF GlueNext, ClientCallback

LEMMA MenuTypeKept ==
    ASSUME GlueInv, [GlueNext]_glueVars
    PROVE  MenuTyped'
<1>. USE GlueAssumption
     DEF GlueAssumption, clientVars, sessionVars, tapeVars, dataVars, pinHistory,
         CallOrNone, LineTyped, MenuTyped
<1>0. LineTyped /\ MenuTyped
  BY DEF GlueInv, Typed
<1>1. CASE CallEnds
  BY <1>0, <1>1 DEF CallEnds, TimeFiled, OnCallEnded, CollectorFails, MenuCloses, RecorderCloses
<1>21. CASE EndsAgain
  BY <1>0, <1>21 DEF EndsAgain, TimeFiled, OnCallEnded, CollectorFails, MenuCloses, RecorderCloses
<1>22. CASE RingsAgain
  BY <1>0, <1>22 DEF RingsAgain
<1>23. CASE CallIsLost
  BY <1>0, <1>23 DEF CallIsLost
<1>2. CASE IncomingCall
  BY <1>0, <1>2 DEF IncomingCall, Tracked, ConnectTime
<1>3. CASE IncomingRefused
  BY <1>0, <1>3 DEF IncomingRefused, OnCallEnded, CollectorFails, MenuCloses, RecorderCloses
<1>4. CASE CallConnected
  BY <1>0, <1>4 DEF CallConnected
<1>5. CASE Digit
  BY <1>0, <1>5 DEF Digit
<1>6. CASE DialBegins
  BY <1>0, <1>6 DEF DialBegins, Tracked
<1>7. CASE DialGoesOn
  <2>1. [of |-> dialling, started |-> FALSE] \in [of : CallOrNone, started : BOOLEAN]
    BY <1>0
  <2>. QED  BY <2>1, <1>7 DEF DialGoesOn, SetIvr
<1>8. CASE Answer
  <2>1. [of |-> call, started |-> FALSE] \in [of : CallOrNone, started : BOOLEAN]
    BY <1>0
  <2>. QED  BY <2>1, <1>8 DEF Answer, SetIvr
<1>9. CASE AnswerButton
  BY <1>0, <1>9 DEF AnswerButton
<1>10. CASE AssistService
  BY <1>0, <1>10, AssistFrame
<1>11. CASE RecordingService
  BY <1>0, <1>11, RecordingFrame
<1>12. CASE UNCHANGED glueVars
  BY <1>0, <1>12 DEF glueVars
<1>. QED
  BY <1>1, <1>2, <1>3, <1>4, <1>5, <1>6, <1>7, <1>8, <1>9, <1>10, <1>11, <1>12,
     <1>21, <1>22, <1>23
     DEF GlueNext, ClientCallback, DialService

\* A session of the menu is replaced or closed with its call.
LEMMA MenuKept ==
    ASSUME GlueInv, [GlueNext]_glueVars
    PROVE  MenuInv'
<1>. USE GlueAssumption
     DEF GlueAssumption, clientVars, sessionVars, tapeVars, dataVars, pinHistory,
         CallOrNone, LineTyped, MenuTyped, Numbered, MenuInv
<1>0. LineTyped /\ Numbered /\ MenuTyped /\ MenuInv
  BY DEF GlueInv, Typed
<1>1. CASE CallEnds
  BY <1>0, <1>1 DEF CallEnds, TimeFiled, OnCallEnded, CollectorFails, MenuCloses, RecorderCloses
<1>21. CASE EndsAgain
  BY <1>0, <1>21 DEF EndsAgain, TimeFiled, OnCallEnded, CollectorFails, MenuCloses, RecorderCloses
<1>22. CASE RingsAgain
  BY <1>0, <1>22 DEF RingsAgain
<1>23. CASE CallIsLost
  BY <1>0, <1>23 DEF CallIsLost
<1>2. CASE IncomingCall
  BY <1>0, <1>2 DEF IncomingCall, Tracked, ConnectTime
<1>3. CASE IncomingRefused
  BY <1>0, <1>3 DEF IncomingRefused, OnCallEnded, CollectorFails, MenuCloses, RecorderCloses
<1>4. CASE CallConnected
  BY <1>0, <1>4 DEF CallConnected
<1>5. CASE Digit
  BY <1>0, <1>5 DEF Digit
<1>6. CASE DialBegins
  BY <1>0, <1>6 DEF DialBegins, Tracked
<1>7. CASE DialGoesOn
  BY <1>0, <1>7 DEF DialGoesOn, SetIvr
<1>8. CASE Answer
  BY <1>0, <1>8 DEF Answer, SetIvr
<1>9. CASE AnswerButton
  BY <1>0, <1>9 DEF AnswerButton
<1>10. CASE AssistService
  BY <1>0, <1>10, AssistFrame
<1>11. CASE RecordingService
  BY <1>0, <1>11, RecordingFrame
<1>12. CASE UNCHANGED glueVars
  BY <1>0, <1>12 DEF glueVars
<1>. QED
  BY <1>1, <1>2, <1>3, <1>4, <1>5, <1>6, <1>7, <1>8, <1>9, <1>10, <1>11, <1>12,
     <1>21, <1>22, <1>23
     DEF GlueNext, ClientCallback, DialService

LEMMA AsksKept ==
    ASSUME GlueInv, [GlueNext]_glueVars
    PROVE  AsksTyped'
<1>. USE GlueAssumption
     DEF GlueAssumption, clientVars, sessionVars, tapeVars, dataVars, pinHistory,
         CallOrNone, AsksTyped
<1>0. LineTyped /\ AsksTyped /\ SlotsTyped
  BY DEF GlueInv, Typed
<1>1. CASE CallEnds
  BY <1>0, <1>1, FailedAsks DEF CallEnds, TimeFiled, OnCallEnded
<1>21. CASE EndsAgain
  BY <1>0, <1>21, FailedAsks DEF EndsAgain, TimeFiled, OnCallEnded
<1>22. CASE RingsAgain
  BY <1>0, <1>22 DEF RingsAgain
<1>23. CASE CallIsLost
  BY <1>0, <1>23 DEF CallIsLost
<1>2. CASE IncomingCall
  BY <1>0, <1>2 DEF IncomingCall, Tracked, ConnectTime
<1>3. CASE IncomingRefused
  BY <1>0, <1>3, FailedAsks DEF IncomingRefused, OnCallEnded
<1>4. CASE CallConnected
  BY <1>0, <1>4 DEF CallConnected
<1>5. CASE Digit
  BY <1>0, <1>5, DigitTaken
<1>6. CASE DialService
  BY <1>0, <1>6, DialFrame
<1>7. ASSUME NEW a \in Asks, StartAssist(a)
      PROVE  AsksTyped'
  BY <1>0, <1>7 DEF StartAssist, AskOK, LineTyped
<1>8. ASSUME NEW a \in Asks, AskPin(a)
      PROVE  AsksTyped'
  BY <1>0, <1>8 DEF AskPin, AskOK, LineTyped
<1>9. ASSUME NEW a \in Asks, PinTimeout(a)
      PROVE  AsksTyped'
  BY <1>0, <1>9, AskAt DEF PinTimeout
<1>10. ASSUME NEW a \in Asks, PinRight(a)
      PROVE  AsksTyped'
  BY <1>0, <1>10, AskAt DEF PinRight
<1>11. ASSUME NEW a \in Asks, PinWrong(a)
      PROVE  AsksTyped'
  BY <1>0, <1>11, AskAt DEF PinWrong
<1>12. CASE AssistEnds
  BY <1>0, <1>12 DEF AssistEnds
<1>13. CASE RecordingService
  BY <1>0, <1>13, RecordingFrame
<1>14. CASE UNCHANGED glueVars
  BY <1>0, <1>14 DEF glueVars
<1>. QED
  BY <1>1, <1>2, <1>3, <1>4, <1>5, <1>6, <1>7, <1>8, <1>9, <1>10, <1>11, <1>12, <1>13, <1>14,
     <1>21, <1>22, <1>23
     DEF GlueNext, ClientCallback, AssistService

LEMMA SlotsKept ==
    ASSUME GlueInv, [GlueNext]_glueVars
    PROVE  SlotsTyped'
<1>. USE GlueAssumption
     DEF GlueAssumption, clientVars, sessionVars, tapeVars, dataVars, pinHistory,
         CallOrNone, SlotsTyped, LineTyped, NoAssist
<1>0. LineTyped /\ SlotsTyped
  BY DEF GlueInv, Typed
<1>1. CASE CallEnds
  BY <1>0, <1>1 DEF CallEnds, TimeFiled, OnCallEnded, CollectorFails, MenuCloses, RecorderCloses
<1>21. CASE EndsAgain
  BY <1>0, <1>21 DEF EndsAgain, TimeFiled, OnCallEnded, CollectorFails, MenuCloses, RecorderCloses
<1>22. CASE RingsAgain
  BY <1>0, <1>22 DEF RingsAgain
<1>23. CASE CallIsLost
  BY <1>0, <1>23 DEF CallIsLost
<1>2. CASE IncomingCall
  BY <1>0, <1>2 DEF IncomingCall, Tracked, ConnectTime
<1>3. CASE IncomingRefused
  BY <1>0, <1>3 DEF IncomingRefused, OnCallEnded, CollectorFails, MenuCloses, RecorderCloses
<1>4. CASE CallConnected
  BY <1>0, <1>4 DEF CallConnected
<1>5. CASE Digit
  BY <1>0, <1>5 DEF Digit
<1>6. CASE DialService
  BY <1>0, <1>6, DialFrame
<1>7. ASSUME NEW a \in Asks, StartAssist(a)
      PROVE  SlotsTyped'
  BY <1>0, <1>7 DEF StartAssist, AssistStarts
<1>8. ASSUME NEW a \in Asks, AskPin(a)
      PROVE  SlotsTyped'
  BY <1>0, <1>8 DEF AskPin
<1>9. ASSUME NEW a \in Asks, PinTimeout(a)
      PROVE  SlotsTyped'
  BY <1>0, <1>9 DEF PinTimeout
<1>10. ASSUME NEW a \in Asks, PinRight(a)
      PROVE  SlotsTyped'
  BY <1>0, <1>10 DEF PinRight, ClearsSlot, AssistStarts
<1>11. ASSUME NEW a \in Asks, PinWrong(a)
      PROVE  SlotsTyped'
  BY <1>0, <1>11 DEF PinWrong, ClearsSlot
<1>12. CASE AssistEnds
  BY <1>0, <1>12 DEF AssistEnds
<1>13. CASE RecordingService
  BY <1>0, <1>13, RecordingFrame
<1>14. CASE UNCHANGED glueVars
  BY <1>0, <1>14 DEF glueVars
<1>. QED
  BY <1>1, <1>2, <1>3, <1>4, <1>5, <1>6, <1>7, <1>8, <1>9, <1>10, <1>11, <1>12, <1>13, <1>14,
     <1>21, <1>22, <1>23
     DEF GlueNext, ClientCallback, AssistService

LEMMA TapeTypesKept ==
    ASSUME GlueInv, [GlueNext]_glueVars
    PROVE  TapesTyped'
<1>. USE GlueAssumption
     DEF GlueAssumption, clientVars, sessionVars, tapeVars, dataVars, pinHistory,
         CallOrNone, TapesTyped
<1>0. LineTyped /\ TapesTyped
  BY DEF GlueInv, Typed
<1>1. CASE CallEnds
  BY <1>0, <1>1, TapeAt DEF CallEnds, TimeFiled, OnCallEnded, RecorderCloses
<1>21. CASE EndsAgain
  BY <1>0, <1>21, TapeAt DEF EndsAgain, TimeFiled, OnCallEnded, RecorderCloses
<1>22. CASE RingsAgain
  BY <1>0, <1>22 DEF RingsAgain
<1>23. CASE CallIsLost
  BY <1>0, <1>23 DEF CallIsLost
<1>2. CASE IncomingCall
  BY <1>0, <1>2 DEF IncomingCall, Tracked, ConnectTime
<1>3. CASE IncomingRefused
  BY <1>0, <1>3, TapeAt DEF IncomingRefused, OnCallEnded, RecorderCloses
<1>4. CASE CallConnected
  BY <1>0, <1>4 DEF CallConnected
<1>5. CASE Digit
  BY <1>0, <1>5 DEF Digit
<1>6. CASE DialService
  BY <1>0, <1>6, DialFrame
<1>7. CASE AssistService
  BY <1>0, <1>7, AssistFrame
<1>8. ASSUME NEW t \in Tapes, StartRecording(t)
      PROVE  TapesTyped'
  <2>1. tape' = [tape EXCEPT ![t].at = "checks", ![t].of = call] /\ recorder' = recorder
    BY <1>8 DEF StartRecording
  <2>2. [tape[t] EXCEPT !.at = "checks", !.of = call] \in TapeOK
    BY <1>0 DEF TapeOK, LineTyped
  <2>. QED  BY <1>0, <2>1, <2>2
<1>9. ASSUME NEW t \in Tapes, PathRefused(t)
      PROVE  TapesTyped'
  BY <1>0, <1>9, TapeAt DEF PathRefused
<1>10. ASSUME NEW t \in Tapes, PathChecked(t)
      PROVE  TapesTyped'
  BY <1>0, <1>10 DEF PathChecked, Opens, TapeOK, LineTyped
<1>11. ASSUME NEW t \in Tapes, OldWaited(t)
      PROVE  TapesTyped'
  BY <1>0, <1>11 DEF OldWaited, Opens, TapeOK, LineTyped
<1>12. CASE StopRecording
  BY <1>0, <1>12, TapeAt DEF StopRecording, RecorderCloses
<1>13. ASSUME NEW t \in Tapes, Written(t)
      PROVE  TapesTyped'
  BY <1>0, <1>13, TapeAt DEF Written
<1>14. CASE UNCHANGED glueVars
  BY <1>0, <1>14 DEF glueVars
<1>. QED
  BY <1>1, <1>2, <1>3, <1>4, <1>5, <1>6, <1>7, <1>8, <1>9, <1>10, <1>11, <1>12, <1>13, <1>14,
     <1>21, <1>22, <1>23
     DEF GlueNext, ClientCallback, RecordingService

\* Whoever takes the slot of an open recorder leaves an orphan; who closes the call
\* closes the one in the slot.
LEMMA FilesKept ==
    ASSUME GlueInv, [GlueNext]_glueVars
    PROVE  HangupClosesFile'
<1>. USE GlueAssumption
     DEF GlueAssumption, clientVars, sessionVars, tapeVars, dataVars, pinHistory,
         CallOrNone, LineTyped, TapesTyped, TapeOK, Numbered, HangupClosesFile
<1>0. LineTyped /\ Numbered /\ TapesTyped /\ HangupClosesFile
  BY DEF GlueInv, Typed
<1>1. CASE CallEnds
  BY <1>0, <1>1 DEF CallEnds, TimeFiled, OnCallEnded, CollectorFails, MenuCloses, RecorderCloses
<1>21. CASE EndsAgain
  BY <1>0, <1>21 DEF EndsAgain, TimeFiled, OnCallEnded, CollectorFails, MenuCloses, RecorderCloses
<1>22. CASE RingsAgain
  BY <1>0, <1>22 DEF RingsAgain
<1>23. CASE CallIsLost
  BY <1>0, <1>23 DEF CallIsLost
<1>2. CASE IncomingCall
  BY <1>0, <1>2 DEF IncomingCall, Tracked, ConnectTime
<1>3. CASE IncomingRefused
  BY <1>0, <1>3 DEF IncomingRefused, OnCallEnded, CollectorFails, MenuCloses, RecorderCloses
<1>4. CASE CallConnected
  BY <1>0, <1>4 DEF CallConnected
<1>5. CASE Digit
  BY <1>0, <1>5 DEF Digit
<1>6. CASE DialService
  BY <1>0, <1>6, DialFrame
<1>7. CASE AssistService
  BY <1>0, <1>7, AssistFrame
<1>8. ASSUME NEW t \in Tapes, StartRecording(t)
      PROVE  HangupClosesFile'
  BY <1>0, <1>8 DEF StartRecording
<1>9. ASSUME NEW t \in Tapes, PathRefused(t)
      PROVE  HangupClosesFile'
  BY <1>0, <1>9 DEF PathRefused
<1>10. ASSUME NEW t \in Tapes, PathChecked(t)
      PROVE  HangupClosesFile'
  BY <1>0, <1>10 DEF PathChecked, Opens
<1>11. ASSUME NEW t \in Tapes, OldWaited(t)
      PROVE  HangupClosesFile'
  BY <1>0, <1>11 DEF OldWaited, Opens
<1>12. CASE StopRecording
  BY <1>0, <1>12 DEF StopRecording, RecorderCloses
<1>13. ASSUME NEW t \in Tapes, Written(t)
      PROVE  HangupClosesFile'
  BY <1>0, <1>13 DEF Written
<1>14. CASE UNCHANGED glueVars
  BY <1>0, <1>14 DEF glueVars
<1>. QED
  BY <1>1, <1>2, <1>3, <1>4, <1>5, <1>6, <1>7, <1>8, <1>9, <1>10, <1>11, <1>12, <1>13, <1>14,
     <1>21, <1>22, <1>23
     DEF GlueNext, ClientCallback, RecordingService

\* The data of a call are overwritten only by an attempt that is seen to disturb it.
LEMMA DataKept ==
    ASSUME GlueInv, [GlueNext]_glueVars
    PROVE  DataInv'
<1>. USE GlueAssumption
     DEF GlueAssumption, clientVars, sessionVars, tapeVars, dataVars, pinHistory,
         CallOrNone, LineTyped, Numbered, DataInv
<1>0. LineTyped /\ Numbered /\ DataInv
  BY DEF GlueInv, Typed
<1>1. CASE CallEnds
  BY <1>0, <1>1 DEF CallEnds, TimeFiled, OnCallEnded, CollectorFails, MenuCloses, RecorderCloses
<1>21. CASE EndsAgain
  BY <1>0, <1>21 DEF EndsAgain, TimeFiled, OnCallEnded, CollectorFails, MenuCloses, RecorderCloses
<1>22. CASE RingsAgain
  BY <1>0, <1>22 DEF RingsAgain
<1>23. CASE CallIsLost
  BY <1>0, <1>23 DEF CallIsLost
<1>2. CASE IncomingCall
  BY <1>0, <1>2 DEF IncomingCall, Tracked, ConnectTime
<1>3. CASE IncomingRefused
  BY <1>0, <1>3 DEF IncomingRefused, OnCallEnded, CollectorFails, MenuCloses, RecorderCloses
<1>4. CASE CallConnected
  BY <1>0, <1>4 DEF CallConnected
<1>5. CASE Digit
  BY <1>0, <1>5 DEF Digit
<1>6. CASE DialBegins
  BY <1>0, <1>6 DEF DialBegins, Tracked
<1>7. CASE DialGoesOn
  BY <1>0, <1>7 DEF DialGoesOn, SetIvr
<1>8. CASE Answer
  BY <1>0, <1>8 DEF Answer, SetIvr
<1>9. CASE AnswerButton
  BY <1>0, <1>9 DEF AnswerButton
<1>10. CASE AssistService
  BY <1>0, <1>10, AssistFrame
<1>11. CASE RecordingService
  BY <1>0, <1>11, RecordingFrame
<1>12. CASE UNCHANGED glueVars
  BY <1>0, <1>12 DEF glueVars
<1>. QED
  BY <1>1, <1>2, <1>3, <1>4, <1>5, <1>6, <1>7, <1>8, <1>9, <1>10, <1>11, <1>12,
     <1>21, <1>22, <1>23
     DEF GlueNext, ClientCallback, DialService

\* The assistant, the collector and a PIN that was right are of the call that is on.
LEMMA AssistKept ==
    ASSUME GlueInv, [GlueNext]_glueVars
    PROVE  AssistInv'
<1>. USE GlueAssumption
     DEF GlueAssumption, clientVars, sessionVars, tapeVars, dataVars, pinHistory,
         CallOrNone, LineTyped, AsksTyped, AskOK, SlotsTyped, Numbered, DataInv,
         AssistInv, NoAssist, Waiting, AskedInCall
<1>0. LineTyped /\ AsksTyped /\ SlotsTyped /\ Numbered /\ DataInv /\ AssistInv
  BY DEF GlueInv, Typed
<1>1. CASE CallEnds
  BY <1>0, <1>1 DEF CallEnds, TimeFiled, OnCallEnded, CollectorFails, MenuCloses, RecorderCloses
<1>21. CASE EndsAgain
  BY <1>0, <1>21 DEF EndsAgain, TimeFiled, OnCallEnded, CollectorFails, MenuCloses, RecorderCloses
<1>22. CASE RingsAgain
  BY <1>0, <1>22 DEF RingsAgain
<1>23. CASE CallIsLost
  BY <1>0, <1>23 DEF CallIsLost
<1>2. CASE IncomingCall
  BY <1>0, <1>2 DEF IncomingCall, Tracked, ConnectTime
<1>3. CASE IncomingRefused
  BY <1>0, <1>3 DEF IncomingRefused, OnCallEnded, CollectorFails, MenuCloses, RecorderCloses
<1>4. CASE CallConnected
  BY <1>0, <1>4 DEF CallConnected
<1>5. CASE Digit
  BY <1>0, <1>5 DEF Digit
<1>6. CASE DialBegins
  BY <1>0, <1>6 DEF DialBegins, Tracked
<1>7. CASE DialGoesOn
  BY <1>0, <1>7 DEF DialGoesOn, SetIvr
<1>8. CASE Answer
  BY <1>0, <1>8 DEF Answer, SetIvr
<1>9. CASE AnswerButton
  BY <1>0, <1>9 DEF AnswerButton
<1>10. ASSUME NEW a \in Asks, StartAssist(a)
      PROVE  AssistInv'
  BY <1>0, <1>10 DEF StartAssist, AssistStarts
<1>11. ASSUME NEW a \in Asks, AskPin(a)
      PROVE  AssistInv'
  BY <1>0, <1>11 DEF AskPin
<1>12. ASSUME NEW a \in Asks, PinTimeout(a)
      PROVE  AssistInv'
  BY <1>0, <1>12 DEF PinTimeout
<1>13. ASSUME NEW a \in Asks, PinRight(a)
      PROVE  AssistInv'
  BY <1>0, <1>13 DEF PinRight, ClearsSlot, AssistStarts
<1>14. ASSUME NEW a \in Asks, PinWrong(a)
      PROVE  AssistInv'
  BY <1>0, <1>14 DEF PinWrong, ClearsSlot
<1>15. CASE AssistEnds
  BY <1>0, <1>15 DEF AssistEnds
<1>16. CASE RecordingService
  BY <1>0, <1>16, RecordingFrame
<1>17. CASE UNCHANGED glueVars
  BY <1>0, <1>17 DEF glueVars
<1>. QED
  BY <1>1, <1>2, <1>3, <1>4, <1>5, <1>6, <1>7, <1>8, <1>9, <1>10, <1>11, <1>12, <1>13,
     <1>14, <1>15, <1>16, <1>17,
     <1>21, <1>22, <1>23
     DEF GlueNext, ClientCallback, DialService, AssistService

\* Without a second PIN at once nobody empties the slot of one that is waited for.
LEMMA PinKept ==
    ASSUME GlueInv, [GlueNext]_glueVars
    PROVE  PinInv'
<1>. USE GlueAssumption
     DEF GlueAssumption, clientVars, sessionVars, tapeVars, dataVars, pinHistory,
         CallOrNone, AsksTyped, AskOK, SlotsTyped, PinInv, PinIsPrivate, Waiting, InHand
<1>0. AsksTyped /\ SlotsTyped /\ PinInv
  BY DEF GlueInv, Typed
<1>1. CASE CallEnds
  BY <1>0, <1>1 DEF CallEnds, TimeFiled, OnCallEnded, CollectorFails, MenuCloses, RecorderCloses
<1>21. CASE EndsAgain
  BY <1>0, <1>21 DEF EndsAgain, TimeFiled, OnCallEnded, CollectorFails, MenuCloses, RecorderCloses
<1>22. CASE RingsAgain
  BY <1>0, <1>22 DEF RingsAgain
<1>23. CASE CallIsLost
  BY <1>0, <1>23 DEF CallIsLost
<1>2. CASE IncomingCall
  BY <1>0, <1>2 DEF IncomingCall, Tracked, ConnectTime
<1>3. CASE IncomingRefused
  BY <1>0, <1>3 DEF IncomingRefused, OnCallEnded, CollectorFails, MenuCloses, RecorderCloses
<1>4. CASE CallConnected
  BY <1>0, <1>4 DEF CallConnected
<1>5. CASE Digit
  <2>0. /\ ask' \in [Asks -> AskOK]
        /\ \A b \in Asks :
             \/ ask'[b].at = ask[b].at
             \/ b = collector /\ Waiting(b) /\ ask'[b].at \in {"right", "wrong"}
    BY <1>0, <1>5, DigitTaken
  <2>1. UNCHANGED <<collector, overlapped>>
    BY <1>5 DEF Digit
  <2>2. \/ betrayed' = betrayed
        \/ collector = None /\ betrayed' = betrayed \cup {a \in Asks : ask[a].at = "pin"}
    BY <1>5 DEF Digit
  <2>3. betrayed' \subseteq overlapped'
    <3>1. collector = None => \A a \in Asks : ask[a].at = "pin" => a \in overlapped
      BY <1>0
    <3>. QED  BY <1>0, <2>1, <2>2, <3>1
  <2>4. ASSUME NEW a \in Asks, ask'[a].at \in {"pin", "right", "wrong"}, a \notin overlapped'
        PROVE  /\ \A b \in Asks : ask'[b].at \in {"pin", "right", "wrong"} => b = a
               /\ ask'[a].at = "pin" => a = collector'
    <3>1. ask[a].at \in {"pin", "right", "wrong"} /\ (ask'[a].at = "pin" => ask[a].at = "pin")
      BY <2>0, <2>4
    <3>2. \A b \in Asks : ask'[b].at \in {"pin", "right", "wrong"}
                          => ask[b].at \in {"pin", "right", "wrong"}
      BY <2>0
    <3>. QED  BY <1>0, <2>1, <2>4, <3>1, <3>2
  <2>. QED  BY <2>1, <2>3, <2>4
<1>6. CASE DialService
  BY <1>0, <1>6, DialFrame
<1>7. ASSUME NEW a \in Asks, StartAssist(a)
      PROVE  PinInv'
  BY <1>0, <1>7 DEF StartAssist, AssistStarts
<1>8. ASSUME NEW a \in Asks, AskPin(a)
      PROVE  PinInv'
  BY <1>0, <1>8 DEF AskPin
<1>9. ASSUME NEW a \in Asks, PinTimeout(a)
      PROVE  PinInv'
  BY <1>0, <1>9 DEF PinTimeout
<1>10. ASSUME NEW a \in Asks, PinRight(a)
      PROVE  PinInv'
  BY <1>0, <1>10 DEF PinRight, ClearsSlot, AssistStarts
<1>11. ASSUME NEW a \in Asks, PinWrong(a)
      PROVE  PinInv'
  BY <1>0, <1>11 DEF PinWrong, ClearsSlot
<1>12. CASE AssistEnds
  BY <1>0, <1>12 DEF AssistEnds
<1>13. CASE RecordingService
  BY <1>0, <1>13, RecordingFrame
<1>14. CASE UNCHANGED glueVars
  BY <1>0, <1>14 DEF glueVars
<1>. QED
  BY <1>1, <1>2, <1>3, <1>4, <1>5, <1>6, <1>7, <1>8, <1>9, <1>10, <1>11, <1>12, <1>13, <1>14,
     <1>21, <1>22, <1>23
     DEF GlueNext, ClientCallback, AssistService

LEMMA GlueStep == GlueInv /\ [GlueNext]_glueVars => GlueInv'
BY LineKept, FiledKept, MenuTypeKept, MenuKept, AsksKept, SlotsKept, TapeTypesKept,
   FilesKept, DataKept, AssistKept, PinKept
   DEF GlueInv, Typed

LEMMA GlueInvariant == GlueSpec => []GlueInv
BY GlueInvInit, GlueStep, PTL DEF GlueSpec
-----------------------------------------------------------------------------
\* Every slot of runtime_data holds what it is for, and attempts at a call are numbered
\* within the bound (__init__.py, SipRuntimeData and the services).
THEOREM TypesCorrect == GlueSpec => []GlueTypeOK
<1>1. GlueInv => GlueTypeOK
  BY TypedIsTypeOK DEF GlueInv
<1>. QED  BY <1>1, GlueInvariant, PTL

\* A menu that runs and an assistant that talks are of the call that is on, and the
\* assistant talks to the caller that was checked; the exceptions are those the
\* property names (on_call_connected, on_call_ended, start_assist).
THEOREM SessionsOfTheCall == GlueSpec => []SessionsAreOfThisCall
<1>1. GlueInv => SessionsAreOfThisCall
  BY DEF GlueInv, MenuInv, AssistInv, AskedInCall, SessionsAreOfThisCall, MenuIsForThisCall,
     AssistIsForThisCall
<1>. QED  BY <1>1, GlueInvariant, PTL

\* No digit of a PIN becomes public, unless two PINs were asked for at once (on_dtmf,
\* and the `finally' that empties the slot).
THEOREM PinsStayPrivate == GlueSpec => []PinIsPrivate
<1>1. GlueInv => PinIsPrivate
  BY DEF GlueInv, PinInv
<1>. QED  BY <1>1, GlueInvariant, PTL

\* A recording that runs is of the call in which it was started, with the exceptions the
\* property names (on_call_ended, close_recorder_slot, start_recording).
THEOREM HangupsCloseFiles == GlueSpec => []HangupClosesFile
<1>1. GlueInv => HangupClosesFile
  BY DEF GlueInv
<1>. QED  BY <1>1, GlueInvariant, PTL

\* A call that ends is entered into the history of calls as what it was, answered or
\* not, unless the data of another attempt had taken their place (on_call_ended).
LEMMA FilingStep ==
    ASSUME GlueInv, [GlueNext]_glueVars, line # "idle", line' = "idle"
    PROVE  \/ filed'[call] = IF line = "up" THEN "answered" ELSE "unanswered"
           \/ call \in disturbed' \cup lost'
<1>1. CallEnds \/ CallIsLost
  BY DEF GlueNext, ClientCallback, EndsAgain, RingsAgain, IncomingCall, IncomingRefused, CallConnected, Digit,
     DialService, DialBegins, DialGoesOn, Answer, AnswerButton, AssistService, StartAssist,
     AskPin, PinTimeout, PinRight, PinWrong, AssistEnds, RecordingService, StartRecording,
     PathRefused, PathChecked, Opens, OldWaited, StopRecording, Written, clientVars,
     glueVars
<1>2. /\ call \in 1..MaxCalls
      /\ number = call \/ call \in disturbed
      /\ call \notin disturbed => (connected <=> line = "up")
      /\ FiledTyped
  BY GlueAssumption
     DEF GlueAssumption, GlueInv, Typed, LineTyped, Numbered, DataInv, CallOrNone
<1>3. CASE CallIsLost
  BY <1>3 DEF CallIsLost
<1>5. CASE CallEnds /\ call \in disturbed
  BY <1>5 DEF CallEnds
<1>4. CASE CallEnds /\ call \notin disturbed
  <2>1. filed'[call] = Entry(call, number, connected)
    BY <1>2, <1>4 DEF CallEnds, FiledTyped
  <2>2. number = call /\ call # 0 /\ (connected <=> line = "up")
    BY <1>2, <1>4
  <2>. QED  BY <2>1, <2>2 DEF Entry
<1>. QED  BY <1>1, <1>3, <1>4, <1>5

THEOREM EveryCallFiled == GlueSpec => EveryCallIsFiled
<1>1. GlueInv /\ [GlueNext]_glueVars
        => [line # "idle" /\ line' = "idle" =>
              \/ filed'[call] = IF line = "up" THEN "answered" ELSE "unanswered"
              \/ call \in disturbed' \cup lost']_glueVars
  BY FilingStep
<1>. QED  BY <1>1, GlueInvariant, PTL DEF GlueSpec, EveryCallIsFiled
=============================================================================
