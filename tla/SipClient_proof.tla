-------------------------- MODULE SipClient_proof --------------------------
(***************************************************************************)
(* Proofs about the call half of the client, for any number of calls in    *)
(* both directions, phones and retransmissions, beside any behaviour of    *)
(* the registration half; and about the whole client, SipClient.           *)
(*                                                                         *)
(* The client implements the specification of each of its halves, so what  *)
(* is proved of one holds in the client as well.  A step of the call half  *)
(* is one of CallLayer because a call has its socket; a step of the        *)
(* registration is one of RegistrationLayer because a line without a       *)
(* socket is idle and waits for no answer.                                 *)
(***************************************************************************)
EXTENDS SipClient, SipRegistration_proof

(* The types in three parts, because each needs other facts. *)

LineTyped ==
    /\ state \in LineStates /\ sock \in {"none", "open"}
    /\ dCall \in Calls \cup {NoCall} /\ incoming \in Calls \cup {NoCall}
    /\ inviteSeq \in 0..2 /\ invited \in [OutCalls -> 0..2]
    /\ acceptedTo \in Tags \cup {NoTag} /\ took \in [OutCalls -> Tags \cup {NoTag}]
    /\ retxCount \in 0..MaxRetx
    /\ ringTimer \in Calls \cup {NoCall} /\ maxTimer \in Calls \cup {NoCall}

RecordsTyped ==
    /\ verdict \in [OutCalls -> {"open", "answered", "rejected"}]
    /\ calling \subseteq InCalls /\ answered \subseteq Calls
    /\ acked \subseteq OutCalls \X Tags
    /\ byed \subseteq Calls \X (Tags \cup {NoTag})
    /\ ended \subseteq Calls /\ dropped \subseteq Calls
    /\ orphanRing \subseteq Calls /\ cutShort \subseteq Calls

FlagsTyped ==
    /\ dnd \in BOOLEAN /\ outbound \in BOOLEAN /\ awaiting \in BOOLEAN
    /\ authTried \in BOOLEAN /\ retxTimer \in BOOLEAN
    /\ registered \in BOOLEAN /\ closing \in BOOLEAN

Typed == LineTyped /\ RecordsTyped /\ FlagsTyped

\* The INVITE transaction of a call that we placed is that of its last INVITE, and
\* only a challenge gives it a second one.
TransactionInv ==
    /\ outbound => dCall \in OutCalls /\ inviteSeq = invited[dCall]
    /\ ~authTried => inviteSeq \in 0..1
    /\ state \in DialogStates => dCall # NoCall

\* The phone that was accepted has the call, or was sent a BYE; while nobody is
\* accepted, nobody has the call.
AcceptedInv ==
    /\ outbound =>
          IF acceptedTo = NoTag THEN took[dCall] = NoTag
          ELSE acceptedTo = took[dCall] \/ <<dCall, acceptedTo>> \in byed
    /\ \A c \in OutCalls : invited[c] = 0 => took[c] = NoTag

CallsInv ==
    /\ TransactionInv /\ RoleMatchesState
    /\ TimersBelongToCall
    /\ EveryCallReported
    /\ AcceptedInv /\ ForkedAnswersClosed

DialogInv == Typed /\ CallsInv

LEMMA TypedIsTypeOK == Typed <=> SharedTypeOK /\ DialogTypeOK
BY DEF Typed, LineTyped, RecordsTyped, FlagsTyped, SharedTypeOK, DialogTypeOK
-----------------------------------------------------------------------------
LEMMA AnswerTypes ==
    ASSUME NEW m \in InviteResponses
    PROVE  /\ m.call \in OutCalls /\ m.call \in Calls /\ m.seq \in 1..2
           /\ m.code = 200 => m.tag \in Tags /\ m.tag # NoTag
BY DialogAssumption DEF InviteResponses, Calls, DialogAssumption

LEMMA DialogInvInit == CallInit => DialogInv
<1>. SUFFICES ASSUME CallInit PROVE DialogInv
  OBVIOUS
<1>. USE DialogAssumption DEF CallInit, SharedInit, DialogInit, DialogAssumption
<1>1. LineTyped
  BY DEF LineTyped, LineStates
<1>2. RecordsTyped
  BY DEF RecordsTyped
<1>3. FlagsTyped
  BY DEF FlagsTyped
<1>4. TransactionInv
  BY DEF TransactionInv, DialogStates
<1>5. RoleMatchesState /\ TimersBelongToCall /\ EveryCallReported
  BY DEF RoleMatchesState, TimersBelongToCall, EveryCallReported, Dialling
<1>6. AcceptedInv /\ ForkedAnswersClosed
  BY DEF AcceptedInv, ForkedAnswersClosed
<1>. QED  BY <1>1, <1>2, <1>3, <1>4, <1>5, <1>6 DEF DialogInv, Typed, CallsInv

\* The actions of the call half.
LEMMA CallSteps ==
    ASSUME CallStep
    PROVE  /\ UNCHANGED <<closing, dropped>>
           /\ \/ \E c \in OutCalls, ring \in BOOLEAN : Call(c, ring)
              \/ Answer \/ HangUp \/ SetDnd
              \/ RetransmitInvite \/ RingTimeout \/ RingTimeoutIgnored \/ MaxDurationIgnored
              \/ \E m \in InviteResponses : HandleInviteResponse(m)
              \/ \E c \in Calls : HandleRequest(c)
BY DEF CallStep, UserStep, TimerStep, PacketStep, MaxDuration, MediaTimeout
-----------------------------------------------------------------------------
\* Every step of the call half keeps the types; the numbers need that a second
\* INVITE comes only of the one challenge.
LEMMA TypesKept ==
    ASSUME DialogInv, CallStep
    PROVE  Typed'
<1>. USE DialogAssumption
     DEF DialogAssumption, Calls, sharedVars, txVars, timerVars, strayVars, roleVars, peerVars,
         wireVars
<1>0. /\ LineTyped /\ RecordsTyped /\ FlagsTyped
      /\ TransactionInv /\ RoleMatchesState
      /\ UNCHANGED <<closing, dropped>>
  BY CallSteps DEF DialogInv, Typed, CallsInv
<1>1. ASSUME NEW c \in OutCalls, NEW ring \in BOOLEAN, Call(c, ring)
      PROVE  Typed'
  <2>1. LineTyped'
    BY <1>0, <1>1 DEF Call, LostTimer, StartRetx, LineTyped, LineStates, DialogStates
  <2>2. RecordsTyped'
    BY <1>0, <1>1 DEF Call, LostTimer, StartRetx, LineTyped, RecordsTyped
  <2>3. FlagsTyped'
    BY <1>0, <1>1 DEF Call, LostTimer, StartRetx, FlagsTyped
  <2>. QED  BY <2>1, <2>2, <2>3 DEF Typed
<1>2. CASE Answer
  <2>1. LineTyped'
    BY <1>0, <1>2 DEF Answer, LineTyped, LineStates, DialogStates
  <2>2. RecordsTyped'
    BY <1>0, <1>2 DEF Answer, LineTyped, RecordsTyped
  <2>3. FlagsTyped'
    BY <1>0, <1>2 DEF Answer, FlagsTyped
  <2>. QED  BY <2>1, <2>2, <2>3 DEF Typed
<1>3. CASE HangUp
  <2>1. LineTyped'
    BY <1>0, <1>3
       DEF HangUp, SendBye, EndCall, CallTimersOver, AfterCall, Resting, Report,
           LineTyped, LineStates
  <2>2. RecordsTyped'
    BY <1>0, <1>3
       DEF HangUp, SendBye, EndCall, CallTimersOver, AfterCall, Resting, Report,
           LineTyped, RecordsTyped, TransactionInv, DialogStates, RoleMatchesState,
           Established, Dialling
  <2>3. FlagsTyped'
    BY <1>0, <1>3
       DEF HangUp, SendBye, EndCall, CallTimersOver, AfterCall, Resting, Report, FlagsTyped
  <2>. QED  BY <2>1, <2>2, <2>3 DEF Typed
<1>4. CASE SetDnd
  <2>1. LineTyped'
    BY <1>0, <1>4 DEF SetDnd, LineTyped
  <2>2. RecordsTyped'
    BY <1>0, <1>4 DEF SetDnd, LineTyped, RecordsTyped
  <2>3. FlagsTyped'
    BY <1>0, <1>4 DEF SetDnd, FlagsTyped
  <2>. QED  BY <2>1, <2>2, <2>3 DEF Typed
<1>5. CASE RetransmitInvite
  <2>1. LineTyped'
    BY <1>0, <1>5 DEF RetransmitInvite, MayRetransmit, LineTyped
  <2>2. RecordsTyped'
    BY <1>0, <1>5 DEF RetransmitInvite, MayRetransmit, LineTyped, RecordsTyped
  <2>3. FlagsTyped'
    BY <1>0, <1>5 DEF RetransmitInvite, MayRetransmit, FlagsTyped
  <2>. QED  BY <2>1, <2>2, <2>3 DEF Typed
<1>6. CASE RingTimeout
  <2>1. LineTyped'
    BY <1>0, <1>6
       DEF RingTimeout, RingTimerFires, LostTimer, StillRings, EndCall, CallTimersOver, AfterCall,
           Resting, Report, LineTyped, LineStates
  <2>2. RecordsTyped'
    BY <1>0, <1>6
       DEF RingTimeout, RingTimerFires, LostTimer, StillRings, EndCall, CallTimersOver, AfterCall,
           Resting, Report, LineTyped, RecordsTyped, RoleMatchesState
  <2>3. FlagsTyped'
    BY <1>0, <1>6
       DEF RingTimeout, RingTimerFires, LostTimer, StillRings, EndCall, CallTimersOver, AfterCall,
           Resting, Report, FlagsTyped
  <2>. QED  BY <2>1, <2>2, <2>3 DEF Typed
<1>7. CASE RingTimeoutIgnored
  <2>1. LineTyped'
    BY <1>0, <1>7 DEF RingTimeoutIgnored, RingTimerFires, LostTimer, LineTyped
  <2>2. RecordsTyped'
    BY <1>0, <1>7 DEF RingTimeoutIgnored, RingTimerFires, LostTimer, LineTyped, RecordsTyped
  <2>3. FlagsTyped'
    BY <1>0, <1>7 DEF RingTimeoutIgnored, RingTimerFires, LostTimer, FlagsTyped
  <2>. QED  BY <2>1, <2>2, <2>3 DEF Typed
<1>8. CASE MaxDurationIgnored
  <2>1. LineTyped'
    BY <1>0, <1>8 DEF MaxDurationIgnored, LineTyped
  <2>2. RecordsTyped'
    BY <1>0, <1>8 DEF MaxDurationIgnored, LineTyped, RecordsTyped
  <2>3. FlagsTyped'
    BY <1>0, <1>8 DEF MaxDurationIgnored, FlagsTyped
  <2>. QED  BY <2>1, <2>2, <2>3 DEF Typed
<1>9. ASSUME NEW m \in InviteResponses, HandleInviteResponse(m)
      PROVE  Typed'
  <2>. USE DEF OwnAnswer
  <2>0. /\ m.call \in OutCalls /\ m.call \in Calls /\ m.seq \in 1..2
        /\ m.code = 200 => m.tag \in Tags /\ m.tag # NoTag
    BY AnswerTypes
  <2>1. CASE StrayAnswer(m)
    <3>1. LineTyped'
      BY <1>0, <2>0, <2>1 DEF StrayAnswer, LineTyped
    <3>2. RecordsTyped'
      BY <1>0, <2>0, <2>1 DEF StrayAnswer, LineTyped, RecordsTyped
    <3>3. FlagsTyped'
      BY <1>0, <2>0, <2>1 DEF StrayAnswer, FlagsTyped
    <3>. QED  BY <3>1, <3>2, <3>3 DEF Typed
  <2>2. CASE InviteChallenged(m)
    <3>1. LineTyped'
      BY <1>0, <2>0, <2>2 DEF InviteChallenged, StartRetx, LineTyped, TransactionInv
    <3>2. RecordsTyped'
      BY <1>0, <2>0, <2>2 DEF InviteChallenged, StartRetx, LineTyped, RecordsTyped
    <3>3. FlagsTyped'
      BY <1>0, <2>0, <2>2 DEF InviteChallenged, StartRetx, FlagsTyped
    <3>. QED  BY <3>1, <3>2, <3>3 DEF Typed
  <2>3. CASE InviteProgress(m)
    <3>1. LineTyped'
      BY <1>0, <2>0, <2>3 DEF InviteProgress, LineTyped, LineStates, DialogStates
    <3>2. RecordsTyped'
      BY <1>0, <2>0, <2>3 DEF InviteProgress, LineTyped, RecordsTyped
    <3>3. FlagsTyped'
      BY <1>0, <2>0, <2>3 DEF InviteProgress, FlagsTyped
    <3>. QED  BY <3>1, <3>2, <3>3 DEF Typed
  <2>4. CASE AnswerRepeated(m)
    <3>1. LineTyped'
      BY <1>0, <2>0, <2>4 DEF AnswerRepeated, InviteAnswered, LineTyped
    <3>2. RecordsTyped'
      BY <1>0, <2>0, <2>4 DEF AnswerRepeated, InviteAnswered, LineTyped, RecordsTyped
    <3>3. FlagsTyped'
      BY <1>0, <2>0, <2>4 DEF AnswerRepeated, InviteAnswered, FlagsTyped
    <3>. QED  BY <3>1, <3>2, <3>3 DEF Typed
  <2>5. CASE AnswerUnwanted(m)
    <3>1. LineTyped'
      BY <1>0, <2>0, <2>5 DEF AnswerUnwanted, InviteAnswered, LineTyped
    <3>2. RecordsTyped'
      BY <1>0, <2>0, <2>5 DEF AnswerUnwanted, InviteAnswered, LineTyped, RecordsTyped
    <3>3. FlagsTyped'
      BY <1>0, <2>0, <2>5 DEF AnswerUnwanted, InviteAnswered, FlagsTyped
    <3>. QED  BY <3>1, <3>2, <3>3 DEF Typed
  <2>6. CASE CallConnected(m)
    <3>1. LineTyped'
      BY <1>0, <2>0, <2>6
         DEF CallConnected, AnswerWanted, InviteAnswered, ArmMaxDuration, LineTyped,
             LineStates, DialogStates
    <3>2. RecordsTyped'
      BY <1>0, <2>0, <2>6
         DEF CallConnected, AnswerWanted, InviteAnswered, ArmMaxDuration, LineTyped,
             RecordsTyped
    <3>3. FlagsTyped'
      BY <1>0, <2>0, <2>6
         DEF CallConnected, AnswerWanted, InviteAnswered, ArmMaxDuration, FlagsTyped
    <3>. QED  BY <3>1, <3>2, <3>3 DEF Typed
  <2>7. CASE AnswerMisfits(m)
    <3>1. LineTyped'
      BY <1>0, <2>0, <2>7
         DEF AnswerMisfits, AnswerWanted, InviteAnswered, AfterCall, Resting, Report,
             LineTyped, LineStates, DialogStates
    <3>2. RecordsTyped'
      BY <1>0, <2>0, <2>7
         DEF AnswerMisfits, AnswerWanted, InviteAnswered, AfterCall, Resting, Report,
             LineTyped, RecordsTyped
    <3>3. FlagsTyped'
      BY <1>0, <2>0, <2>7
         DEF AnswerMisfits, AnswerWanted, InviteAnswered, AfterCall, Resting, Report,
             FlagsTyped
    <3>. QED  BY <3>1, <3>2, <3>3 DEF Typed
  <2>8. CASE InviteRejected(m)
    <3>1. LineTyped'
      BY <1>0, <2>0, <2>8
         DEF InviteRejected, EndCall, CallTimersOver, AfterCall, Resting, Report,
             LineTyped, LineStates, DialogStates
    <3>2. RecordsTyped'
      BY <1>0, <2>0, <2>8
         DEF InviteRejected, EndCall, CallTimersOver, AfterCall, Resting, Report,
             LineTyped, RecordsTyped
    <3>3. FlagsTyped'
      BY <1>0, <2>0, <2>8
         DEF InviteRejected, EndCall, CallTimersOver, AfterCall, Resting, Report, FlagsTyped
    <3>. QED  BY <3>1, <3>2, <3>3 DEF Typed
  <2>. QED  BY <1>9, <2>1, <2>2, <2>3, <2>4, <2>5, <2>6, <2>7, <2>8 DEF HandleInviteResponse
<1>10. ASSUME NEW c \in Calls, HandleRequest(c)
       PROVE  Typed'
  <2>. USE DEF InviteArrives, CanInvite, InDialogFrame, AckArrives
  <2>1. ASSUME NEW initial \in BOOLEAN, InviteReplayed(c, initial)
        PROVE  Typed'
    <3>1. LineTyped'
      BY <1>0, <2>1 DEF InviteReplayed, LineTyped
    <3>2. RecordsTyped'
      BY <1>0, <2>1 DEF InviteReplayed, LineTyped, RecordsTyped
    <3>3. FlagsTyped'
      BY <1>0, <2>1 DEF InviteReplayed, FlagsTyped
    <3>. QED  BY <3>1, <3>2, <3>3 DEF Typed
  <2>2. ASSUME NEW body \in Bodies, Reinvited(c, body)
        PROVE  Typed'
    <3>1. LineTyped'
      BY <1>0, <2>2 DEF Reinvited, LineTyped
    <3>2. RecordsTyped'
      BY <1>0, <2>2 DEF Reinvited, LineTyped, RecordsTyped
    <3>3. FlagsTyped'
      BY <1>0, <2>2 DEF Reinvited, FlagsTyped
    <3>. QED  BY <3>1, <3>2, <3>3 DEF Typed
  <2>3. ASSUME NEW initial \in BOOLEAN, InviteBusy(c, initial)
        PROVE  Typed'
    <3>1. LineTyped'
      BY <1>0, <2>3 DEF InviteBusy, LineTyped
    <3>2. RecordsTyped'
      BY <1>0, <2>3 DEF InviteBusy, LineTyped, RecordsTyped
    <3>3. FlagsTyped'
      BY <1>0, <2>3 DEF InviteBusy, FlagsTyped
    <3>. QED  BY <3>1, <3>2, <3>3 DEF Typed
  <2>4. ASSUME NEW initial \in BOOLEAN, CallMisfits(c, initial)
        PROVE  Typed'
    <3>1. LineTyped'
      BY <1>0, <2>4 DEF CallMisfits, LineTyped
    <3>2. RecordsTyped'
      BY <1>0, <2>4 DEF CallMisfits, LineTyped, RecordsTyped
    <3>3. FlagsTyped'
      BY <1>0, <2>4 DEF CallMisfits, FlagsTyped
    <3>. QED  BY <3>1, <3>2, <3>3 DEF Typed
  <2>5. ASSUME NEW initial \in BOOLEAN, NEW body \in Bodies, CallRings(c, initial, body)
        PROVE  Typed'
    <3>1. LineTyped'
      BY <1>0, <2>5 DEF CallRings, NewCall, Called, LineTyped, LineStates, DialogStates
    <3>2. RecordsTyped'
      BY <1>0, <2>5 DEF CallRings, NewCall, Called, LineTyped, RecordsTyped
    <3>3. FlagsTyped'
      BY <1>0, <2>5 DEF CallRings, NewCall, Called, FlagsTyped
    <3>. QED  BY <3>1, <3>2, <3>3 DEF Typed
  <2>6. ASSUME NEW initial \in BOOLEAN, NEW body \in Bodies, CallAutoAnswered(c, initial, body)
        PROVE  Typed'
    <3>1. LineTyped'
      BY <1>0, <2>6
         DEF CallAutoAnswered, NewCall, Called, ArmMaxDuration, LineTyped, LineStates,
             DialogStates
    <3>2. RecordsTyped'
      BY <1>0, <2>6
         DEF CallAutoAnswered, NewCall, Called, ArmMaxDuration, LineTyped, RecordsTyped
    <3>3. FlagsTyped'
      BY <1>0, <2>6 DEF CallAutoAnswered, NewCall, Called, ArmMaxDuration, FlagsTyped
    <3>. QED  BY <3>1, <3>2, <3>3 DEF Typed
  <2>7. ASSUME NEW body \in Bodies, AckConnects(c, body)
        PROVE  Typed'
    <3>1. LineTyped'
      BY <1>0, <2>7 DEF AckConnects, ArmMaxDuration, LineTyped, LineStates, DialogStates
    <3>2. RecordsTyped'
      BY <1>0, <2>7 DEF AckConnects, ArmMaxDuration, LineTyped, RecordsTyped
    <3>3. FlagsTyped'
      BY <1>0, <2>7 DEF AckConnects, ArmMaxDuration, FlagsTyped
    <3>. QED  BY <3>1, <3>2, <3>3 DEF Typed
  <2>8. ASSUME NEW body \in Bodies, AckOnly(c, body)
        PROVE  Typed'
    <3>1. LineTyped'
      BY <1>0, <2>8 DEF AckOnly, LineTyped
    <3>2. RecordsTyped'
      BY <1>0, <2>8 DEF AckOnly, LineTyped, RecordsTyped
    <3>3. FlagsTyped'
      BY <1>0, <2>8 DEF AckOnly, FlagsTyped
    <3>. QED  BY <3>1, <3>2, <3>3 DEF Typed
  <2>9. CASE AckEndsCall(c)
    <3>1. LineTyped'
      BY <1>0, <2>9
         DEF AckEndsCall, SendBye, EndCall, CallTimersOver, AfterCall, Resting, Report,
             LineTyped, LineStates
    <3>2. RecordsTyped'
      BY <1>0, <2>9
         DEF AckEndsCall, SendBye, EndCall, CallTimersOver, AfterCall, Resting, Report,
             LineTyped, RecordsTyped, TransactionInv, DialogStates, Established
    <3>3. FlagsTyped'
      BY <1>0, <2>9
         DEF AckEndsCall, SendBye, EndCall, CallTimersOver, AfterCall, Resting, Report,
             FlagsTyped
    <3>. QED  BY <3>1, <3>2, <3>3 DEF Typed
  <2>10. CASE Cancel(c)
    <3>1. LineTyped'
      BY <1>0, <2>10
         DEF Cancel, EndCall, CallTimersOver, AfterCall, Resting, Report, LineTyped,
             LineStates
    <3>2. RecordsTyped'
      BY <1>0, <2>10
         DEF Cancel, EndCall, CallTimersOver, AfterCall, Resting, Report, LineTyped,
             RecordsTyped, TransactionInv, DialogStates
    <3>3. FlagsTyped'
      BY <1>0, <2>10
         DEF Cancel, EndCall, CallTimersOver, AfterCall, Resting, Report, FlagsTyped
    <3>. QED  BY <3>1, <3>2, <3>3 DEF Typed
  <2>11. CASE Update(c)
    <3>1. LineTyped'
      BY <1>0, <2>11 DEF Update, LineTyped
    <3>2. RecordsTyped'
      BY <1>0, <2>11 DEF Update, LineTyped, RecordsTyped
    <3>3. FlagsTyped'
      BY <1>0, <2>11 DEF Update, FlagsTyped
    <3>. QED  BY <3>1, <3>2, <3>3 DEF Typed
  <2>12. ASSUME NEW t \in Tags \cup {NoTag}, Bye(c, t)
        PROVE  Typed'
    <3>1. LineTyped'
      BY <1>0, <2>12
         DEF Bye, EndCall, CallTimersOver, AfterCall, Resting, Report, LineTyped,
             LineStates, DialogStates
    <3>2. RecordsTyped'
      BY <1>0, <2>12
         DEF Bye, EndCall, CallTimersOver, AfterCall, Resting, Report, LineTyped,
             RecordsTyped
    <3>3. FlagsTyped'
      BY <1>0, <2>12
         DEF Bye, EndCall, CallTimersOver, AfterCall, Resting, Report, FlagsTyped
    <3>. QED  BY <3>1, <3>2, <3>3 DEF Typed
  <2>. QED
    BY <1>10, <2>1, <2>2, <2>3, <2>4, <2>5, <2>6, <2>7, <2>8, <2>9, <2>10, <2>11, <2>12
       DEF HandleRequest, HandleInvite
<1>. QED  BY <1>1, <1>2, <1>3, <1>4, <1>5, <1>6, <1>7, <1>8, <1>9, <1>10, CallSteps

\* Every step of the call half keeps what ties the dialog, its transaction, its
\* timers and the phones together.
LEMMA CallsKept ==
    ASSUME DialogInv, CallStep
    PROVE  CallsInv'
<1>. USE DialogAssumption
     DEF DialogAssumption, sharedVars, txVars, timerVars, strayVars, roleVars, peerVars, wireVars,
         EndCall, CallTimersOver, AfterCall, Resting, Report, ArmMaxDuration,
         DialogStates, Established, Dialling, LineTyped, CallsInv, TransactionInv,
         RoleMatchesState, TimersBelongToCall, EveryCallReported, AcceptedInv,
         ForkedAnswersClosed
<1>0. LineTyped /\ CallsInv /\ UNCHANGED <<closing, dropped>>
  BY CallSteps DEF DialogInv, Typed
<1>1. ASSUME NEW c \in OutCalls, NEW ring \in BOOLEAN, Call(c, ring)
      PROVE  CallsInv'
  <2>1. TransactionInv'
    BY <1>0, <1>1 DEF Call, LostTimer
  <2>2. RoleMatchesState'
    BY <1>0, <1>1 DEF Call, LostTimer
  <2>3. TimersBelongToCall'
    BY <1>0, <1>1 DEF Call, LostTimer
  <2>4. EveryCallReported'
    BY <1>0, <1>1 DEF Call, LostTimer
  <2>5. AcceptedInv' /\ ForkedAnswersClosed'
    BY <1>0, <1>1 DEF Call, LostTimer
  <2>. QED  BY <2>1, <2>2, <2>3, <2>4, <2>5 DEF CallsInv
<1>2. CASE Answer \/ HangUp \/ SetDnd
  BY <1>0, <1>2 DEF Answer, HangUp, SetDnd, SendBye
<1>3. CASE RetransmitInvite
  BY <1>0, <1>3 DEF RetransmitInvite
<1>4. CASE RingTimeout
  <2>0. PICK c \in Calls :
          /\ RingTimerFires(c)
          /\ cutShort' = IF c = dCall THEN cutShort ELSE cutShort \cup {dCall}
    BY <1>4 DEF RingTimeout
  <2>1. TransactionInv' /\ RoleMatchesState'
    BY <1>0, <1>4 DEF RingTimeout
  <2>2. TimersBelongToCall'
    <3>1. ringTimer' = NoCall /\ maxTimer' = NoCall /\ state' \in {"registered", "idle"}
      BY <1>4 DEF RingTimeout
    <3>2. c # NoCall /\ cutShort \subseteq cutShort' /\ (c # dCall => dCall \in cutShort')
      BY <2>0 DEF Calls
    <3>3. c \in dropped \cup cutShort \/ c = dCall
      BY <1>0, <2>0, <3>2 DEF RingTimerFires
    <3>4. cutShort' # {} => dropped # {}
      BY <1>0, <2>0, <3>3
    <3>5. orphanRing' \subseteq dropped \cup cutShort'
      <4>1. CASE orphanRing' = orphanRing
        BY <1>0, <3>2, <4>1
      <4>2. CASE c \in orphanRing /\ orphanRing' = (orphanRing \ {c}) \cup LostTimer
        <5>1. \A t \in LostTimer : t \in dropped \/ t = dCall
          BY <1>0 DEF LostTimer
        <5>2. dCall \in dropped \cup cutShort'
          BY <1>0, <3>2, <4>2
        <5>. QED  BY <1>0, <3>2, <4>2, <5>1, <5>2
      <4>. QED  BY <2>0, <4>1, <4>2 DEF RingTimerFires
    <3>. QED  BY <1>0, <1>4, <3>1, <3>4, <3>5 DEF RingTimeout
  <2>3. EveryCallReported'
    BY <1>0, <1>4 DEF RingTimeout
  <2>4. AcceptedInv' /\ ForkedAnswersClosed'
    BY <1>0, <1>4 DEF RingTimeout
  <2>. QED  BY <2>1, <2>2, <2>3, <2>4 DEF CallsInv
<1>5. CASE RingTimeoutIgnored \/ MaxDurationIgnored
  BY <1>0, <1>5 DEF RingTimeoutIgnored, MaxDurationIgnored, RingTimerFires, LostTimer, StillRings
<1>6. ASSUME NEW m \in InviteResponses, HandleInviteResponse(m)
      PROVE  CallsInv'
  <2>. USE DEF OwnAnswer
  <2>0. /\ m.call \in OutCalls /\ m.call \in Calls /\ m.seq \in 1..2
        /\ m.code = 200 => m.tag \in Tags /\ m.tag # NoTag
    BY AnswerTypes
  <2>1. CASE StrayAnswer(m)
    BY <1>0, <2>1 DEF StrayAnswer
  <2>2. CASE InviteChallenged(m)
    BY <1>0, <2>0, <2>2 DEF InviteChallenged
  <2>3. CASE InviteProgress(m)
    BY <1>0, <2>0, <2>3 DEF InviteProgress
  <2>4. CASE AnswerRepeated(m) \/ AnswerUnwanted(m)
    BY <1>0, <2>0, <2>4 DEF AnswerRepeated, AnswerUnwanted, InviteAnswered, SeenBefore
  <2>5. CASE CallConnected(m)
    BY <1>0, <2>0, <2>5 DEF CallConnected, AnswerWanted, InviteAnswered, Unaccepted
  <2>6. CASE AnswerMisfits(m)
    BY <1>0, <2>0, <2>6 DEF AnswerMisfits, AnswerWanted, InviteAnswered, Unaccepted
  <2>7. CASE InviteRejected(m)
    BY <1>0, <2>0, <2>7 DEF InviteRejected
  <2>. QED  BY <1>6, <2>1, <2>2, <2>3, <2>4, <2>5, <2>6, <2>7 DEF HandleInviteResponse
<1>7. ASSUME NEW c \in Calls, HandleRequest(c)
      PROVE  CallsInv'
  <2>. USE DEF InviteArrives, InDialogFrame, AckArrives
  <2>1. ASSUME NEW initial \in BOOLEAN, NEW body \in Bodies,
               InviteReplayed(c, initial) \/ Reinvited(c, body)
                 \/ InviteBusy(c, initial) \/ CallMisfits(c, initial)
        PROVE  CallsInv'
    BY <1>0, <2>1 DEF InviteReplayed, Reinvited, InviteBusy, CallMisfits
  <2>2. ASSUME NEW initial \in BOOLEAN, NEW body \in Bodies,
               CallRings(c, initial, body) \/ CallAutoAnswered(c, initial, body)
        PROVE  CallsInv'
    BY <1>0, <2>2 DEF CallRings, CallAutoAnswered, NewCall, Called, Calls
  <2>3. ASSUME NEW body \in Bodies, AckConnects(c, body) \/ AckOnly(c, body)
        PROVE  CallsInv'
    BY <1>0, <2>3 DEF AckConnects, AckOnly
  <2>4. CASE AckEndsCall(c) \/ Cancel(c) \/ Update(c)
    BY <1>0, <2>4 DEF AckEndsCall, SendBye, Cancel, Update
  <2>5. ASSUME NEW t \in Tags \cup {NoTag}, Bye(c, t)
        PROVE  CallsInv'
    BY <1>0, <2>5 DEF Bye
  <2>. QED  BY <1>7, <2>1, <2>2, <2>3, <2>4, <2>5 DEF HandleRequest, HandleInvite
<1>. QED  BY <1>1, <1>2, <1>3, <1>4, <1>5, <1>6, <1>7, CallSteps

\* ... and so does whatever the registration half does to the line.
LEMMA RegistrationKept ==
    ASSUME DialogInv, RegistrationLayer
    PROVE  DialogInv'
<1>. USE DEF RegistrationLayer, Drops, strayVars, roleVars, peerVars, wireVars
<1>0. Typed /\ CallsInv
  BY DEF DialogInv
<1>1. LineTyped'
  BY <1>0 DEF Typed, LineTyped, LineStates
<1>2. RecordsTyped'
  BY <1>0 DEF Typed, LineTyped, RecordsTyped, CallsInv, TransactionInv
<1>3. FlagsTyped'
  BY <1>0 DEF Typed, FlagsTyped
<1>4. CallsInv'
  <2>1. TransactionInv'
    BY <1>0 DEF CallsInv, DialogStates, TransactionInv
  <2>2. RoleMatchesState'
    BY <1>0 DEF CallsInv, DialogStates, RoleMatchesState, TransactionInv, Dialling
  <2>3. TimersBelongToCall'
    BY <1>0
       DEF CallsInv, DialogStates, TimersBelongToCall, TransactionInv, RoleMatchesState,
           Dialling
  <2>4. EveryCallReported'
    BY <1>0 DEF CallsInv, DialogStates, EveryCallReported, TransactionInv
  <2>5. AcceptedInv' /\ ForkedAnswersClosed'
    BY <1>0 DEF CallsInv, DialogStates, AcceptedInv, ForkedAnswersClosed, TransactionInv
  <2>. QED  BY <2>1, <2>2, <2>3, <2>4, <2>5 DEF CallsInv
<1>. QED  BY <1>1, <1>2, <1>3, <1>4 DEF DialogInv, Typed

LEMMA DialogStep == DialogInv /\ [CallNext]_callVars => DialogInv'
<1>1. ASSUME DialogInv, UNCHANGED callVars
      PROVE  DialogInv'
  BY <1>1
     DEF callVars, dialogVars, sharedVars, txVars, timerVars, strayVars, roleVars, peerVars, wireVars,
         DialogInv, Typed, LineTyped, RecordsTyped, FlagsTyped, CallsInv, TransactionInv,
         RoleMatchesState, TimersBelongToCall, EveryCallReported, AcceptedInv,
         ForkedAnswersClosed
<1>. QED  BY <1>1, TypesKept, CallsKept, RegistrationKept DEF CallNext, DialogInv
-----------------------------------------------------------------------------
LEMMA DialogInvariant == CallSpec => []DialogInv
BY DialogInvInit, DialogStep, PTL DEF CallSpec

\* Every variable of the call half keeps its type; of an INVITE there are at most
\* the first and the one with credentials (_handle_invite_response, 401 and 407).
THEOREM TypesCorrect == CallSpec => [](SharedTypeOK /\ DialogTypeOK)
<1>1. DialogInv => SharedTypeOK /\ DialogTypeOK
  BY TypedIsTypeOK DEF DialogInv
<1>. QED  BY <1>1, DialogInvariant, PTL

\* The roles of the dialog variables fit the line state, whatever late answer,
\* re-INVITE or deregistration came in: hangup() addresses the right peer in the
\* right way (call, answer, hangup, _handle_request).
THEOREM RolesMatch == CallSpec => []RoleMatchesState
<1>1. DialogInv => RoleMatchesState
  BY DEF DialogInv, CallsInv
<1>. QED  BY <1>1, DialogInvariant, PTL

\* The ring timer and the maximum duration are armed only for the call that is on, in
\* the states they time, and a connected call has the latter; but for the timers of
\* calls that the line left without _end_call(), and of those that such a timer hung
\* up (_end_call, call, _set_state, _handle_ring_timeout, _on_max_duration).
THEOREM TimersOfTheirCall == CallSpec => []TimersBelongToCall
<1>1. DialogInv => TimersBelongToCall
  BY DEF DialogInv, CallsInv
<1>. QED  BY <1>1, DialogInvariant, PTL

\* Every call that was placed, and every dialog that was given up, was reported with
\* on_call_ended before the line was at rest or took another call (_end_call).
THEOREM CallsReported == CallSpec => []EveryCallReported
<1>1. DialogInv => EveryCallReported
  BY DEF DialogInv, CallsInv
<1>. QED  BY <1>1, DialogInvariant, PTL

\* Of the phones that answered a forked INVITE all but the one that has the call got
\* a BYE (_handle_invite_response, _end_forked_dialog).
THEOREM ForksClosed == CallSpec => []ForkedAnswersClosed
<1>1. DialogInv => ForkedAnswersClosed
  BY DEF DialogInv, CallsInv
<1>. QED  BY <1>1, DialogInvariant, PTL

\* No step connects a call a second time: the phone that has it is never replaced,
\* and a call we placed gets media only if no phone took it before
\* (_handle_invite_response).
LEMMA ConnectStep ==
    ASSUME DialogInv, [CallNext]_callVars
    PROVE  /\ \A c \in OutCalls : took[c] # NoTag => took'[c] = took[c]
           /\ state # "in_call" /\ state' = "in_call" /\ outbound' => took[dCall] = NoTag
<1>. DEFINE Once ==
       /\ \A c \in OutCalls : took[c] # NoTag => took'[c] = took[c]
       /\ state # "in_call" /\ state' = "in_call" /\ outbound' => took[dCall] = NoTag
<1>. USE DEF sharedVars, txVars, timerVars, strayVars, roleVars, peerVars, wireVars, EndCall,
             AfterCall, Resting
<1>0. LineTyped /\ TransactionInv /\ RoleMatchesState /\ AcceptedInv
  BY DEF DialogInv, Typed, CallsInv
<1>1. ASSUME NEW c \in OutCalls, NEW ring \in BOOLEAN, Call(c, ring)
      PROVE  Once
  BY <1>1 DEF Call
<1>2. CASE Answer \/ HangUp \/ SetDnd
  BY <1>2 DEF Answer, HangUp, SetDnd
<1>3. CASE RetransmitInvite \/ RingTimeout \/ RingTimeoutIgnored \/ MaxDurationIgnored
  BY <1>3 DEF RetransmitInvite, RingTimeout, RingTimeoutIgnored, MaxDurationIgnored
<1>4. ASSUME NEW m \in InviteResponses, HandleInviteResponse(m)
      PROVE  Once
  <2>. USE DEF OwnAnswer
  <2>1. CASE StrayAnswer(m) \/ InviteChallenged(m) \/ InviteProgress(m) \/ InviteRejected(m)
    BY <2>1 DEF StrayAnswer, InviteChallenged, InviteProgress, InviteRejected
  <2>2. CASE AnswerRepeated(m) \/ AnswerUnwanted(m) \/ AnswerMisfits(m)
    BY <2>2 DEF AnswerRepeated, AnswerUnwanted, AnswerMisfits, AnswerWanted
  <2>3. CASE CallConnected(m)
    BY <1>0, <2>3, AnswerTypes
       DEF CallConnected, AnswerWanted, InviteAnswered, Unaccepted, AcceptedInv, LineTyped
  <2>. QED  BY <1>4, <2>1, <2>2, <2>3 DEF HandleInviteResponse
<1>5. ASSUME NEW c \in Calls, HandleRequest(c)
      PROVE  Once
  <2>. USE DEF InviteArrives, InDialogFrame, AckArrives
  <2>1. ASSUME NEW initial \in BOOLEAN, NEW body \in Bodies,
               InviteReplayed(c, initial) \/ Reinvited(c, body)
                 \/ InviteBusy(c, initial) \/ CallMisfits(c, initial)
        PROVE  Once
    BY <2>1 DEF InviteReplayed, Reinvited, InviteBusy, CallMisfits
  <2>2. ASSUME NEW initial \in BOOLEAN, NEW body \in Bodies,
               CallRings(c, initial, body) \/ CallAutoAnswered(c, initial, body)
        PROVE  Once
    BY <2>2 DEF CallRings, CallAutoAnswered, NewCall, Called
  <2>3. ASSUME NEW body \in Bodies, AckConnects(c, body) \/ AckOnly(c, body)
        PROVE  Once
    BY <1>0, <2>3 DEF AckConnects, AckOnly, RoleMatchesState
  <2>4. CASE AckEndsCall(c) \/ Cancel(c) \/ Update(c)
    BY <2>4 DEF AckEndsCall, Cancel, Update
  <2>5. ASSUME NEW t \in Tags \cup {NoTag}, Bye(c, t)
        PROVE  Once
    BY <2>5 DEF Bye
  <2>. QED  BY <1>5, <2>1, <2>2, <2>3, <2>4, <2>5 DEF HandleRequest, HandleInvite
<1>6. CASE RegistrationLayer
  BY <1>6 DEF RegistrationLayer
<1>7. CASE UNCHANGED callVars
  BY <1>7 DEF callVars, dialogVars
<1>. QED  BY <1>1, <1>2, <1>3, <1>4, <1>5, <1>6, <1>7, CallSteps DEF CallNext

THEOREM ConnectsAtMostOnce == CallSpec => ConnectsOnce
<1>1. DialogInv /\ [CallNext]_callVars
        => [/\ \A c \in OutCalls : took[c] # NoTag => took'[c] = took[c]
            /\ state # "in_call" /\ state' = "in_call" /\ outbound' => took[dCall] = NoTag
           ]_callVars
  BY ConnectStep
<1>. QED  BY <1>1, DialogInvariant, PTL DEF CallSpec, ConnectsOnce
-----------------------------------------------------------------------------
(* The whole client. *)

NoSocketIsIdle ==
    sock = "none" => state = "idle" /\ (~stopped => ~regPending)

ClientInv ==
    /\ LoopInv
    /\ SocketUnderCall
    /\ NoSocketIsIdle
-----------------------------------------------------------------------------
\* What a step of the call half does to the line: a call begins, moves or
\* ends, or nothing happens to it (_end_call leaves it at rest).
LEMMA CallMoves ==
    ASSUME UserStep \/ TimerStep \/ PacketStep
    PROVE  /\ UNCHANGED <<registered, sock>>
           /\ state' \in DialogStates \cup {Resting, state}
           /\ state' = state \/ state \in DialogStates \cup {"registered"} \/ PacketStep
<1>. USE DEF EndCall, AfterCall, sharedVars
<1>1. ASSUME HangUp
      PROVE  /\ UNCHANGED <<registered, sock>>
             /\ state' = Resting /\ state \in DialogStates
  BY <1>1 DEF HangUp, Established, Dialling, DialogStates
<1>2. CASE UserStep
  BY <1>2, <1>1 DEF UserStep, Call, Answer, SetDnd, DialogStates
<1>3. CASE TimerStep
  <2>1. CASE RingTimeout
    BY <2>1 DEF RingTimeout, StillRings, Dialling, DialogStates
  <2>2. CASE MaxDuration \/ MediaTimeout
    BY <2>2, <1>1 DEF MaxDuration, MediaTimeout
  <2>3. CASE RetransmitInvite \/ RingTimeoutIgnored \/ MaxDurationIgnored
    BY <2>3 DEF RetransmitInvite, RingTimeoutIgnored, MaxDurationIgnored
  <2>. QED  BY <1>3, <2>1, <2>2, <2>3 DEF TimerStep
<1>4. CASE PacketStep
  <2>1. ASSUME NEW m \in InviteResponses, HandleInviteResponse(m)
        PROVE  /\ UNCHANGED <<registered, sock>>
               /\ state' \in DialogStates \cup {Resting, state}
    <3>. USE <2>1 DEF OwnAnswer, InviteAnswered, AnswerWanted, DialogStates
    <3>1. CASE StrayAnswer(m) \/ InviteChallenged(m) \/ InviteProgress(m)
      BY <3>1 DEF StrayAnswer, InviteChallenged, InviteProgress
    <3>2. CASE AnswerRepeated(m) \/ AnswerUnwanted(m)
      BY <3>2 DEF AnswerRepeated, AnswerUnwanted
    <3>3. CASE CallConnected(m) \/ AnswerMisfits(m) \/ InviteRejected(m)
      BY <3>3 DEF CallConnected, AnswerMisfits, InviteRejected
    <3>. QED  BY <3>1, <3>2, <3>3 DEF HandleInviteResponse
  <2>2. ASSUME NEW c \in Calls, HandleRequest(c)
        PROVE  /\ UNCHANGED <<registered, sock>>
               /\ state' \in DialogStates \cup {Resting, state}
    <3>. USE DEF DialogStates, InDialogFrame, AckArrives
    <3>1. CASE HandleInvite(c)
      <4>1. PICK initial \in BOOLEAN, body \in Bodies :
              \/ InviteReplayed(c, initial) \/ Reinvited(c, body)
              \/ InviteBusy(c, initial) \/ CallMisfits(c, initial)
              \/ CallRings(c, initial, body) \/ CallAutoAnswered(c, initial, body)
        BY <3>1 DEF HandleInvite
      <4>. QED
        BY <4>1 DEF InviteReplayed, Reinvited, InviteBusy, CallMisfits, CallRings,
           CallAutoAnswered, NewCall, InviteArrives
    <3>2. CASE AckEndsCall(c) \/ \E body \in Bodies : AckConnects(c, body) \/ AckOnly(c, body)
      BY <3>2 DEF AckEndsCall, AckConnects, AckOnly
    <3>3. CASE Cancel(c) \/ Update(c) \/ \E t \in Tags \cup {NoTag} : Bye(c, t)
      BY <3>3 DEF Cancel, Update, Bye
    <3>. QED  BY <2>2, <3>1, <3>2, <3>3 DEF HandleRequest
  <2>. QED  BY <1>4, <2>1, <2>2 DEF PacketStep
<1>. QED  BY <1>2, <1>3, <1>4

\* A step of the call half is CallLayer, or nothing to the registration half.
LEMMA CallingIsCallLayer ==
    ASSUME ClientInv, Calling
    PROVE  CallLayer \/ UNCHANGED vars
<1>. USE DEF Calling
<1>a. AnswerShowsAddress => PacketStep
  BY DEF AnswerShowsAddress, PacketStep
<1>1. /\ UNCHANGED <<registered, sock>>
      /\ state' \in DialogStates \cup {Resting, state}
      /\ state' = state \/ state \in DialogStates \cup {"registered"} \/ PacketStep
  BY <1>a, CallMoves
<1>2. UNCHANGED <<lifeVars, taskVars, regTimer, txnVars, policyVars>>
  OBVIOUS
<1>3. CASE PacketStep
  <2>1. sock = "open"
    BY <1>3 DEF PacketStep
  <2>2. observed' \in Addresses
    BY <1>3 DEF ClientInv, LoopInv, TypeOK, AnswerShowsAddress
  <2>. QED  BY <1>1, <1>2, <2>1, <2>2 DEF CallLayer
<1>4. CASE ~PacketStep
  <2>1. observed' = observed
    BY <1>4, <1>a
  <2>2. CASE state' = state
    BY <1>1, <1>2, <2>1, <2>2 DEF vars, sharedVars, regVars
  <2>3. CASE state' # state
    <3>1. sock = "open"
      BY <1>1, <1>4, <2>3 DEF ClientInv, LoopInv, SocketUnderCall, StatusHonest,
         BindingHasSocket, SocketExcludesOpeners, TypeOK, SharedTypeOK, NoSocketIsIdle
    <3>2. observed' \in Addresses
      BY <2>1 DEF ClientInv, LoopInv, TypeOK
    <3>. QED  BY <1>1, <1>2, <3>1, <3>2 DEF CallLayer
  <2>. QED  BY <2>2, <2>3
<1>. QED  BY <1>3, <1>4

\* Every step of the client is one of the registration loop.
LEMMA StepOfRegistration ==
    ASSUME ClientInv, [ClientNext]_clientVars
    PROVE  [Next]_vars
<1>1. CASE Registration
  BY <1>1 DEF Registration, Next
<1>2. CASE Stops
  BY <1>2 DEF Stops, Next
<1>3. CASE Calling
  BY <1>3, CallingIsCallLayer DEF Next
<1>4. CASE UNCHANGED clientVars
  BY <1>4 DEF clientVars
<1>. QED  BY <1>1, <1>2, <1>3, <1>4 DEF ClientNext
-----------------------------------------------------------------------------
LEMMA ClientInvInit == ClientInit => ClientInv
<1>. SUFFICES ASSUME ClientInit PROVE ClientInv
  OBVIOUS
<1>1. LoopInv
  BY LoopInit DEF ClientInit
<1>. QED
  BY <1>1 DEF ClientInit, Init, SharedInit, ClientInv, SocketUnderCall, NoSocketIsIdle,
     DialogStates, DialogInit

\* What a step of the registration half does to a line with a socket, and to
\* one without.
LEMMA RegistrationMoves ==
    ASSUME ClientInv, RegistrationStep
    PROVE  /\ state' \in {state, "idle", "registering", "registered"}
           /\ state \in DialogStates => state' # "registered"
           /\ state \in DialogStates /\ state' # state =>
                ReconnectBegins \/ \E m \in RegisterResponses : IntervalRaised(m)
           /\ sock' \in {"none", "open"} /\ registered' \in BOOLEAN
           /\ UNCHANGED closing
           /\ sock' = "none" => state' = "idle" /\ (~stopped' => ~regPending')
<1>. DEFINE Goal ==
       /\ state' \in {state, "idle", "registering", "registered"}
       /\ state \in DialogStates => state' # "registered"
       /\ state \in DialogStates /\ state' # state =>
            ReconnectBegins \/ \E m \in RegisterResponses : IntervalRaised(m)
       /\ sock' \in {"none", "open"} /\ registered' \in BOOLEAN
       /\ UNCHANGED closing
       /\ sock' = "none" => state' = "idle" /\ (~stopped' => ~regPending')
<1>i. /\ sock \in {"none", "open"} /\ registered \in BOOLEAN
      /\ state \in DialogStates => sock = "open"
      /\ sock = "none" => state = "idle" /\ (~stopped => ~regPending)
      /\ sock = "open" => ~startup /\ opening = 0
      /\ stopped => closing
      /\ "registered" \notin DialogStates
  BY DEF ClientInv, LoopInv, SocketUnderCall, NoSocketIsIdle, SocketExcludesOpeners,
     TypeOK, SharedTypeOK, DialogStates
<1>. USE DEF sharedVars, lifeVars, taskVars, txnVars, DoRegister
<1>1. CASE StartOpened \/ StartFailed
  BY <1>1, <1>i DEF StartOpened, StartFailed
<1>2. CASE TimerAfterStop \/ TickInCall
  BY <1>2, <1>i DEF TimerAfterStop, TickInCall
<1>3. CASE TickResends \/ TickReconnects \/ TickRefreshes
  BY <1>3, <1>i DEF TickResends, TickReconnects, TickRefreshes, Unanswered
<1>4. CASE ReconnectBegins
  <2>1. state' = "idle" /\ sock' = "none" /\ registered' = FALSE /\ regPending' = FALSE
    BY <1>4 DEF ReconnectBegins, LineDown
  <2>2. UNCHANGED closing
    BY <1>4 DEF ReconnectBegins
  <2>. QED  BY <2>1, <2>2, <1>4
<1>7. CASE ReconnectAbandoned
  BY <1>7, <1>i DEF ReconnectAbandoned
<1>5. CASE ReconnectOpened \/ ReconnectFailed
  <2>1. opening # 0 /\ sock = "none"
    BY <1>5, <1>i DEF ReconnectOpened, ReconnectFailed, ClientInv, LoopInv, TypeOK
  <2>. QED  BY <2>1, <1>5, <1>i DEF ReconnectOpened, ReconnectFailed
<1>6. ASSUME NEW m \in RegisterResponses, HandleRegisterResponse(m)
      PROVE  Goal
  <2>1. sock = "open" /\ sock' = sock /\ UNCHANGED closing
    BY <1>6, ResponseTypes DEF ClientInv, LoopInv
  <2>2. CASE StaleResponse(m)
    BY <2>1, <2>2, <1>i DEF StaleResponse, vars
  <2>3. CASE ProvisionalResponse(m) \/ Challenged(m)
    BY <2>1, <2>3, <1>i DEF ProvisionalResponse, Challenged
  <2>4. CASE IntervalRaised(m)
    BY <2>1, <2>4, <1>i DEF IntervalRaised
  <2>5. CASE IntervalRefused(m) \/ RegisterRefused(m)
    BY <2>1, <2>5, <1>i DEF IntervalRefused, RegisterRefused, RetryAfterFailure,
       DowngradedState
  <2>6. CASE RegisterAccepted(m)
    <3>1. /\ registered' = TRUE
          /\ \/ UpgradedState = "registered" /\ state' = UpgradedState
             \/ state' = UpgradedState
      BY <2>6 DEF RegisterAccepted
    <3>2. UpgradedState \in {state, "registered"} /\
          (state \in DialogStates => UpgradedState = state)
      BY DEF UpgradedState, DialogStates
    <3>. QED  BY <2>1, <3>1, <3>2, <1>i
  <2>. QED
    BY <1>6, <2>2, <2>3, <2>4, <2>5, <2>6 DEF HandleRegisterResponse
<1>. QED
  BY <1>1, <1>2, <1>3, <1>4, <1>5, <1>6, <1>7 DEF RegistrationStep

\* Every step keeps the invariant.
LEMMA ClientStep == ClientInv /\ [ClientNext]_clientVars => ClientInv'
<1>. SUFFICES ASSUME ClientInv, [ClientNext]_clientVars PROVE ClientInv'
  OBVIOUS
<1>1. LoopInv'
  BY StepOfRegistration, LoopStep DEF ClientInv
<1>2. SocketUnderCall' /\ NoSocketIsIdle'
  <2>t. sock' \in {"none", "open"} /\ "idle" \notin DialogStates
    BY <1>1 DEF LoopInv, TypeOK, SharedTypeOK, DialogStates
  <2>. USE <2>t DEF ClientInv, SocketUnderCall, NoSocketIsIdle
  <2>1. CASE Registration
    BY <2>1, RegistrationMoves DEF Registration
  <2>2. CASE Stops
    BY <2>2 DEF Stops, StopBegins, StopEnds, sharedVars, txnVars
  <2>3. CASE Calling
    <3>1. CallLayer \/ UNCHANGED vars
      BY <2>3, CallingIsCallLayer
    <3>. QED  BY <3>1 DEF CallLayer, vars, sharedVars, regVars, lifeVars, txnVars
  <2>4. CASE UNCHANGED clientVars
    BY <2>4 DEF clientVars, vars, sharedVars, regVars, lifeVars, txnVars
  <2>. QED  BY <2>1, <2>2, <2>3, <2>4 DEF ClientNext
<1>. QED  BY <1>1, <1>2 DEF ClientInv

THEOREM ClientInvariant == ClientSpec => []ClientInv
BY ClientInvInit, ClientStep, PTL DEF ClientSpec
-----------------------------------------------------------------------------
(* What follows for a reader *)

\* A call always has its socket: no step of the registration loop, and no
\* stop(), leaves a call behind without one.
THEOREM CallsHaveSocket == ClientSpec => []SocketUnderCall
BY ClientInvariant, PTL DEF ClientInv

\* The whole client implements the registration loop: the call half does to
\* the shared state only what CallLayer allows.
THEOREM ClientImplementsRegistration == ClientSpec => ImplementsRegistration
<1>1. ClientInit => Init
  BY DEF ClientInit
<1>. QED
  BY <1>1, ClientInvariant, StepOfRegistration, PTL
     DEF ClientSpec, Spec, ImplementsRegistration

\* What is proved of the loop holds in the whole client, with all its calls:
\* it never forks, never dies before stop(), its status is honest, rejections slow it
\* down, and stop() leaves nothing.
THEOREM ClientLoop ==
    ClientSpec => [](OneDriver /\ LoopAlive /\ StatusHonest /\ BindingHasSocket
                     /\ StoppedIsClosed /\ RejectionsSlowDown)
BY ClientInvariant, ClientImplementsRegistration, WrongPasswordSlows, PTL
   DEF ClientInv, LoopInv, ImplementsRegistration

\* Every step of the client is one of the call half beside its environment.
LEMMA StepOfCalls ==
    ASSUME ClientInv, [ClientNext]_clientVars
    PROVE  [CallNext]_callVars
<1>h. ClientInv'
  BY ClientStep
<1>r. state' = "registered" => registered'
  BY <1>h DEF ClientInv, LoopInv, StatusHonest
<1>. USE DEF dialogVars, txVars, timerVars, strayVars, roleVars, peerVars, wireVars
<1>1. CASE Registration
  <2>1. RegistrationLayer
    BY <1>1, <1>r, RegistrationMoves DEF Registration, RegistrationLayer
  <2>. QED  BY <2>1 DEF CallNext
<1>2. CASE Stops
  <2>1. /\ state' \in {state, "idle"} /\ registered' = registered
        /\ sock' \in {"none", "open"} /\ registered \in BOOLEAN
        /\ sock' = "none" => state' = "idle"
        /\ closing \in BOOLEAN
        /\ "registered" \notin DialogStates
    BY <1>2, <1>h DEF Stops, StopBegins, StopEnds, sharedVars, ClientInv, LoopInv,
       TypeOK, SharedTypeOK, NoSocketIsIdle, DialogStates
  <2>2. \/ UNCHANGED <<closing, retxTimer, ringTimer>>
        \/ /\ ~closing /\ closing' = TRUE
           /\ retxTimer' = FALSE /\ ringTimer' = NoCall
    BY <1>2 DEF Stops, StopBegins, StopEnds
  <2>3. RegistrationLayer
    BY <1>2, <1>r, <2>1, <2>2 DEF Stops, RegistrationLayer
  <2>. QED  BY <2>3 DEF CallNext
<1>3. CASE Calling
  <2>1. AnswerShowsAddress => PacketStep
    BY DEF AnswerShowsAddress, PacketStep
  <2>. QED  BY <1>3, <2>1 DEF Calling, CallNext, CallStep, lifeVars
<1>4. CASE UNCHANGED clientVars
  BY <1>4 DEF clientVars, callVars, vars, regVars, lifeVars
<1>. QED  BY <1>1, <1>2, <1>3, <1>4 DEF ClientNext

\* The whole client implements its call half: the registration loop does to the
\* shared state only what RegistrationLayer allows.
THEOREM ClientImplementsCalls == ClientSpec => ImplementsCalls
<1>1. ClientInit => CallInit
  BY DEF ClientInit, Init, CallInit
<1>. QED
  BY <1>1, ClientInvariant, StepOfCalls, PTL DEF ClientSpec, CallSpec, ImplementsCalls

\* What is proved of the call half holds in the whole client, with the real
\* registration loop beside it: roles, timers, reports and forked answers are in
\* order ...
THEOREM ClientCalls ==
    ClientSpec => [](RoleMatchesState /\ TimersBelongToCall /\ EveryCallReported
                     /\ ForkedAnswersClosed)
BY ClientImplementsCalls, RolesMatch, TimersOfTheirCall, CallsReported, ForksClosed, PTL
   DEF ImplementsCalls

\* ... and no step of the client connects a call a second time.
THEOREM ClientConnectsOnce == ClientSpec => ConnectsOnce
BY ClientImplementsCalls, ConnectsAtMostOnce, PTL DEF ImplementsCalls

\* A call is lost without a report only by stop(), by a reconnect that was
\* decided before the call began, or by a registrar that raises the interval.
THEOREM OnlyKnownDrops == ClientSpec => NoOtherDrops
<1>1. ASSUME ClientInv, [ClientNext]_clientVars
      PROVE  [dropped' # dropped =>
                closing \/ ReconnectBegins
                  \/ \E m \in RegisterResponses : IntervalRaised(m)]_clientVars
  <2>. DEFINE Known == ReconnectBegins \/ \E m \in RegisterResponses : IntervalRaised(m)
  <2>. SUFFICES ASSUME dropped' # dropped PROVE closing \/ Known
    BY Zenon
  <2>b. closing \in BOOLEAN
    BY <1>1 DEF ClientInv, LoopInv, TypeOK, SharedTypeOK
  <2>2. CASE Registration
    <3>1. state \in DialogStates /\ state' # state
      BY <2>b, <2>2 DEF Registration, Drops
    <3>. QED  BY <1>1, <2>2, <3>1, RegistrationMoves DEF Registration
  <2>3. CASE Stops
    <3>1. closing \/ state' = state
      BY <2>3 DEF Stops, StopBegins, StopEnds, sharedVars
    <3>2. state' # state
      BY <2>b, <2>3 DEF Stops, Drops
    <3>. QED  BY <3>1, <3>2
  <2>4. CASE Calling
    BY <2>4 DEF Calling
  <2>5. CASE UNCHANGED clientVars
    BY <2>5 DEF clientVars
  <2>. QED  BY <1>1, <2>2, <2>3, <2>4, <2>5 DEF ClientNext
<1>. QED
  BY <1>1, ClientInvariant, PTL DEF ClientSpec, NoOtherDrops
=============================================================================
