----------------------------- MODULE SipDialog -----------------------------
(***************************************************************************)
(* The call half of SipClient (sip_client/sip_client.py): the one dialog   *)
(* the client can have, placed or received, its INVITE transaction, and    *)
(* the ring, retransmission, maximum-duration and media timers.            *)
(*                                                                         *)
(* A call is named by its Call-ID; OutCalls are the ones we place, each    *)
(* once, and InCalls the ones that callers place.  The network is UDP: a   *)
(* message a peer has reason to send may arrive never, late, after a later *)
(* one, or again.  verdict and calling record what peers have made known,  *)
(* so that no call is both answered and rejected by the same peer.         *)
(* Left out: the codec and the direction a body negotiates (a body only    *)
(* fits or does not), RTP, routing headers and responses that change no    *)
(* state of either side.                                                   *)
(***************************************************************************)
EXTENDS SipState, Integers

CONSTANTS
    OutCalls, InCalls,  \* Call-IDs
    NoCall,             \* the empty _d_call_id / no _incoming_invite
    Tags,               \* To-tags of the phones that may answer our INVITE
    NoTag,              \* the empty _accepted_dialog_to
    BadAnswers,         \* the phones whose answer has no codec we allow
    MaxRetx,            \* retransmissions of an INVITE before giving up
    MaxDurationSet      \* config.max_call_duration > 0

ASSUME DialogAssumption ==
    /\ OutCalls \cap InCalls = {}
    /\ NoCall \notin OutCalls \cup InCalls
    /\ NoTag \notin Tags
    /\ BadAnswers \subseteq Tags
    /\ MaxRetx \in Nat
    /\ MaxDurationSet \in BOOLEAN

Calls == OutCalls \cup InCalls
Bodies == {"none", "fits", "misfit"}   \* the SDP of a request

VARIABLES
    dnd,           \* dnd
    outbound,      \* _outbound
    dCall,         \* _d_call_id
    incoming,      \* the call of _incoming_invite
    inviteSeq,     \* _invite_cseq
    authTried,     \* _invite_auth_tried
    acceptedTo,    \* _accepted_dialog_to
    awaiting,      \* _awaiting_answer
    retxTimer,     \* _invite_retx_handle is armed
    retxCount,     \* _invite_retx_count
    ringTimer,     \* the call whose timer _ring_timeout_handle is, or NoCall
    orphanRing,    \* calls whose ring timer is armed and has lost its handle
    maxTimer       \* the call whose timer _max_duration_handle is, or NoCall

VARIABLES
    invited,       \* highest CSeq of the INVITEs sent, per call placed; 0: none
    verdict,       \* what the peer of a call we placed made of it
    calling,       \* calls whose INVITE has reached us
    answered,      \* calls whose INVITE or re-INVITE we answered with 200
    acked,         \* pairs of call and tag whose 2xx we acknowledged
    byed,          \* pairs of call and tag we sent a BYE for
    took,          \* the tag whose 2xx connected a call, per call placed
    ended,         \* calls that on_call_ended was emitted for
    dropped,       \* history: calls that the line left without _end_call()
    cutShort       \* history: calls that the ring timer of another call hung up

txVars == <<inviteSeq, authTried, acceptedTo, retxTimer, retxCount>>
strayVars == <<orphanRing, cutShort>>
timerVars == <<ringTimer, strayVars, maxTimer>>
roleVars == <<dnd, outbound, dCall, incoming, awaiting>>
peerVars == <<invited, verdict, calling>>
wireVars == <<answered, acked, byed, took>>
dialogVars == <<txVars, timerVars, roleVars, peerVars, wireVars, ended>>
callVars == <<sharedVars, closing, dialogVars, dropped>>

DialogTypeOK ==
    /\ dnd \in BOOLEAN /\ outbound \in BOOLEAN /\ awaiting \in BOOLEAN
    /\ dCall \in Calls \cup {NoCall}
    /\ incoming \in Calls \cup {NoCall}
    /\ inviteSeq \in 0..2
    /\ authTried \in BOOLEAN
    /\ acceptedTo \in Tags \cup {NoTag}
    /\ retxTimer \in BOOLEAN /\ retxCount \in 0..MaxRetx
    /\ ringTimer \in Calls \cup {NoCall} /\ maxTimer \in Calls \cup {NoCall}
    /\ orphanRing \subseteq Calls /\ cutShort \subseteq Calls
    /\ invited \in [OutCalls -> 0..2]
    /\ verdict \in [OutCalls -> {"open", "answered", "rejected"}]
    /\ calling \subseteq InCalls
    /\ answered \subseteq Calls
    /\ acked \subseteq OutCalls \X Tags
    /\ byed \subseteq Calls \X (Tags \cup {NoTag})
    /\ took \in [OutCalls -> Tags \cup {NoTag}]
    /\ ended \subseteq Calls
    /\ dropped \subseteq Calls

DialogInit ==
    /\ dnd = FALSE /\ outbound = FALSE /\ awaiting = FALSE
    /\ dCall = NoCall /\ incoming = NoCall
    /\ inviteSeq = 0 /\ authTried = FALSE /\ acceptedTo = NoTag
    /\ retxTimer = FALSE /\ retxCount = 0
    /\ ringTimer = NoCall /\ orphanRing = {} /\ maxTimer = NoCall
    /\ invited = [c \in OutCalls |-> 0]
    /\ verdict = [c \in OutCalls |-> "open"]
    /\ calling = {} /\ answered = {} /\ acked = {} /\ byed = {}
    /\ took = [c \in OutCalls |-> NoTag]
    /\ ended = {}
    /\ dropped = {} /\ cutShort = {}
-----------------------------------------------------------------------------
(* Building blocks *)

\* Mutant: the ring timer survives the call.
RingTimerLeft == retxTimer' = FALSE /\ maxTimer' = NoCall /\ UNCHANGED ringTimer

\* Every timer that has a handle is cancelled, whichever call armed it.
CallTimersOver == retxTimer' = FALSE /\ maxTimer' = NoCall /\ ringTimer' = NoCall

\* Mutant: the line is taken for registered although that lapsed in the call.
StillRegistered == "registered"

\* The line after the call.
AfterCall == Resting

\* Mutant: only calls that were up are reported.
ReportIfAnswered(c) ==
    ended' = IF state \in Established THEN ended \cup {c} ELSE ended

\* on_call_ended
Report(c) == ended' = ended \cup {c}

\* _end_call()
EndCall ==
    /\ CallTimersOver
    /\ state' = AfterCall
    /\ Report(dCall)
    /\ UNCHANGED <<registered, sock, retxCount>>

\* The BYE of _build_in_dialog(): to the phone we accepted, or to the caller.
SendBye == byed' = byed \cup {<<dCall, IF outbound THEN acceptedTo ELSE NoTag>>}

\* hangup(): BYE, CANCEL or a final rejection, then _end_call().
HangUp ==
    /\ \/ state \in Established /\ SendBye
       \/ /\ \/ state \in Dialling
             \/ state = "incoming" /\ incoming # NoCall
          /\ UNCHANGED byed
    /\ EndCall
    /\ UNCHANGED <<inviteSeq, authTried, acceptedTo, strayVars, roleVars,
                   peerVars, answered, acked, took>>

\* Mutant: a timer that is armed already is left to run.
MaxRunsOn(c) == maxTimer' = IF MaxDurationSet /\ maxTimer = NoCall THEN c ELSE maxTimer

\* _set_state(IN_CALL) arms the maximum duration, in place of one that is armed.
ArmMaxDuration(c) == maxTimer' = IF MaxDurationSet THEN c ELSE NoCall

\* _start_invite_retx()
StartRetx == retxTimer' = TRUE /\ retxCount' = 0
-----------------------------------------------------------------------------
(* Calls of the user and of automations *)

\* The ring timer that nothing can cancel once its handle is overwritten.
LostTimer == {ringTimer} \ {NoCall}

\* call(): ring says whether a ring_timeout was given.
Call(c, ring) ==
    /\ state = "registered"
    /\ invited[c] = 0
    /\ outbound' = TRUE
    /\ authTried' = FALSE /\ acceptedTo' = NoTag /\ awaiting' = FALSE
    /\ dCall' = c
    /\ inviteSeq' = 1
    /\ invited' = [invited EXCEPT ![c] = 1]
    /\ state' = "inviting"
    /\ StartRetx
    /\ ringTimer' = IF ring THEN c ELSE ringTimer
    /\ orphanRing' = IF ring THEN orphanRing \cup LostTimer ELSE orphanRing
    /\ UNCHANGED <<registered, sock, dnd, incoming, maxTimer, cutShort, verdict,
                   calling, wireVars, ended>>

\* answer()
Answer ==
    /\ state = "incoming" /\ incoming # NoCall
    /\ answered' = answered \cup {incoming}
    /\ state' = "answering"
    /\ UNCHANGED <<registered, sock, txVars, timerVars, roleVars, peerVars,
                   acked, byed, took, ended>>

\* The Do Not Disturb switch.
SetDnd ==
    /\ dnd' = ~dnd
    /\ UNCHANGED <<sharedVars, txVars, timerVars, outbound, dCall, incoming,
                   awaiting, peerVars, wireVars, ended>>

UserStep ==
    \/ \E c \in OutCalls, ring \in BOOLEAN : Call(c, ring)
    \/ Answer \/ HangUp \/ SetDnd
-----------------------------------------------------------------------------
(* Timers *)

\* The INVITE is not given up yet.
MayRetransmit == retxCount < MaxRetx

\* _invite_retx_timer(): retransmit, or stop when answered or tired.
RetransmitInvite ==
    /\ retxTimer
    /\ IF state = "inviting" /\ MayRetransmit
       THEN retxCount' = retxCount + 1 /\ retxTimer' = TRUE
       ELSE retxTimer' = FALSE /\ retxCount' = retxCount
    /\ UNCHANGED <<sharedVars, inviteSeq, authTried, acceptedTo, timerVars,
                   roleVars, peerVars, wireVars, ended>>

\* _handle_ring_timeout() of the timer that c armed.  It clears the handle
\* whichever timer ran it.
RingTimerFires(c) ==
    /\ \/ ringTimer = c /\ UNCHANGED orphanRing
       \/ c \in orphanRing /\ orphanRing' = (orphanRing \ {c}) \cup LostTimer
    /\ ringTimer' = NoCall

\* Mutant: a call that shows ringing is left alone.
NotYetRinging == state = "inviting"

\* The call was not answered yet.
StillRings == state \in Dialling

\* ... and hangs up the call that still rings, which need not be the one that
\* armed the timer.
RingTimeout ==
    /\ \E c \in Calls :
         /\ RingTimerFires(c)
         /\ cutShort' = IF c = dCall THEN cutShort ELSE cutShort \cup {dCall}
    /\ StillRings
    /\ EndCall
    /\ UNCHANGED <<inviteSeq, authTried, acceptedTo, roleVars, peerVars, wireVars>>

RingTimeoutIgnored ==
    /\ \E c \in Calls : RingTimerFires(c)
    /\ ~StillRings
    /\ UNCHANGED <<sharedVars, txVars, maxTimer, cutShort, roleVars, peerVars,
                   wireVars, ended>>

\* _on_max_duration() and _on_media_timeout() hang up an established call.
MaxDuration ==
    /\ maxTimer # NoCall /\ state \in Established
    /\ HangUp

MaxDurationIgnored ==
    /\ maxTimer # NoCall /\ state \notin Established
    /\ maxTimer' = NoCall
    /\ UNCHANGED <<sharedVars, txVars, ringTimer, strayVars, roleVars, peerVars,
                   wireVars, ended>>

MediaTimeout ==
    /\ state \in Established
    /\ HangUp

TimerStep ==
    \/ RetransmitInvite \/ RingTimeout \/ RingTimeoutIgnored
    \/ MaxDuration \/ MaxDurationIgnored \/ MediaTimeout
-----------------------------------------------------------------------------
(* Answers to our INVITE: _handle_invite_response(m), by its branches *)

\* code 100 is a provisional answer that shows no ringing, 180 one that does
\* (180, 183); 401 is a challenge (401, 407), 486 any other final refusal.
InviteResponses ==
    [call : OutCalls, seq : 1..2, code : {100, 180, 401, 486}, tag : {NoTag}]
        \cup [call : OutCalls, seq : 1..2, code : {200}, tag : Tags]

\* Whether a peer can have sent m.  An INVITE with CSeq 2 exists only because
\* the one with CSeq 1 was challenged.
Sendable(m) ==
    /\ invited[m.call] >= m.seq
    /\ IF m.seq < invited[m.call]
       THEN m.code \in {100, 401}
       ELSE CASE m.code = 200 -> verdict[m.call] \in {"open", "answered"}
              [] m.code = 486 -> verdict[m.call] \in {"open", "rejected"}
              [] m.code = 401 -> m.seq = 1 /\ verdict[m.call] = "open"
              [] OTHER -> TRUE

\* The answer belongs to no INVITE of the present call: ignored (or, a refusal,
\* acknowledged again, which changes nothing here).
StrayAnswer(m) ==
    /\ Sendable(m)
    /\ ~outbound \/ m.call # dCall \/ m.seq # inviteSeq
    /\ verdict' = [verdict EXCEPT ![m.call] =
                     IF m.seq < invited[m.call] THEN @
                     ELSE CASE m.code = 200 -> "answered"
                            [] m.code = 486 -> "rejected"
                            [] OTHER -> @]
    /\ UNCHANGED <<sharedVars, txVars, timerVars, roleVars, invited, calling,
                   wireVars, ended>>

\* The answer belongs to our INVITE: it need not be retransmitted any more.
OwnAnswer(m) ==
    /\ Sendable(m)
    /\ outbound /\ m.call = dCall /\ m.seq = inviteSeq
    /\ UNCHANGED <<registered, sock, strayVars, roleVars, calling, answered>>

\* First 401 or 407: a new INVITE with credentials.
InviteChallenged(m) ==
    /\ OwnAnswer(m)
    /\ m.code = 401 /\ ~authTried
    /\ authTried' = TRUE
    /\ inviteSeq' = inviteSeq + 1
    /\ invited' = [invited EXCEPT ![m.call] = inviteSeq + 1]
    /\ StartRetx
    /\ UNCHANGED <<state, acceptedTo, ringTimer, maxTimer, verdict, acked, byed,
                   took, ended>>

\* 1xx.  The state is not looked at.
InviteProgress(m) ==
    /\ OwnAnswer(m)
    /\ m.code \in {100, 180}
    /\ retxTimer' = FALSE
    /\ state' = IF m.code = 180 THEN "ringing_out" ELSE state
    /\ UNCHANGED <<inviteSeq, authTried, acceptedTo, retxCount, ringTimer,
                   maxTimer, invited, verdict, acked, byed, took, ended>>

\* 2xx: it is acknowledged whatever happens next.
InviteAnswered(m) ==
    /\ OwnAnswer(m)
    /\ m.code = 200
    /\ verdict' = [verdict EXCEPT ![m.call] = "answered"]
    /\ acked' = acked \cup {<<m.call, m.tag>>}
    /\ retxTimer' = FALSE
    /\ UNCHANGED <<inviteSeq, authTried, retxCount, invited>>

\* Mutant: any 2xx after the first is taken for a retransmission.
SeenAny(m) == acceptedTo # NoTag

\* The phone that answers is the one we accepted.
SeenBefore(m) == acceptedTo = m.tag

\* Mutant: a call that rings takes any answer.
RingsOnly == state \in Dialling

\* The call rings and nobody has answered it yet.
Unaccepted == acceptedTo = NoTag /\ state \in Dialling

\* A 2xx we have seen before ...
AnswerRepeated(m) ==
    /\ InviteAnswered(m)
    /\ SeenBefore(m)
    /\ UNCHANGED <<state, acceptedTo, ringTimer, maxTimer, byed, took, ended>>

\* ... one of another phone, or one that crossed our hangup: _end_forked_dialog().
AnswerUnwanted(m) ==
    /\ InviteAnswered(m)
    /\ ~SeenBefore(m) /\ ~Unaccepted
    /\ byed' = byed \cup {<<m.call, m.tag>>}
    /\ UNCHANGED <<state, acceptedTo, ringTimer, maxTimer, took, ended>>

AnswerWanted(m) ==
    /\ InviteAnswered(m)
    /\ Unaccepted
    /\ ringTimer' = NoCall
    /\ acceptedTo' = m.tag

\* ... the one that connects the call ...
CallConnected(m) ==
    /\ AnswerWanted(m)
    /\ m.tag \notin BadAnswers
    /\ took' = [took EXCEPT ![m.call] = m.tag]
    /\ state' = "in_call"
    /\ ArmMaxDuration(dCall)
    /\ UNCHANGED <<byed, ended>>

\* ... or would, with a codec we allow: BYE and _end_call().
AnswerMisfits(m) ==
    /\ AnswerWanted(m)
    /\ m.tag \in BadAnswers
    /\ byed' = byed \cup {<<m.call, m.tag>>}
    /\ state' = AfterCall
    /\ maxTimer' = NoCall
    /\ Report(m.call)
    /\ UNCHANGED <<took>>

\* 300 and above (486 also stands for a second challenge): the call has
\* failed.  The state is not looked at.
InviteRejected(m) ==
    /\ OwnAnswer(m)
    /\ m.code = 486
    /\ verdict' = [verdict EXCEPT ![m.call] = "rejected"]
    /\ EndCall
    /\ UNCHANGED <<inviteSeq, authTried, acceptedTo, invited, wireVars>>

HandleInviteResponse(m) ==
    \/ StrayAnswer(m) \/ InviteChallenged(m) \/ InviteProgress(m)
    \/ AnswerRepeated(m) \/ AnswerUnwanted(m)
    \/ CallConnected(m) \/ AnswerMisfits(m) \/ InviteRejected(m)
-----------------------------------------------------------------------------
(* Requests of the peers: _handle_request(m), by method *)

\* Phones that took a call we placed and whose 2xx reached us.
PeerTags(c) == {t \in Tags : <<c, t>> \in acked}

\* A caller sends its INVITE, and sends it again until it hears from us.
CanInvite(c) == c \in InCalls

\* Either side of a dialog may renegotiate it, or end it.
CanReinvite(c) == c \in answered \/ PeerTags(c) # {}
CanBye(c, t) == IF c \in InCalls THEN c \in calling /\ t = NoTag
                                 ELSE t \in PeerTags(c)
CanCancel(c) == c \in calling \/ CanReinvite(c)
CanAck(c, body) == c \in answered \/ (c \in calling /\ body = "none")

\* _handle_dialog_invite(): the INVITE is one of the present dialog.
OfDialog(c) == dCall = c /\ state \in Established \cup {"incoming"}

\* An INVITE or re-INVITE out of c reaches us; initial tells which.
InviteArrives(c, initial) ==
    /\ IF initial THEN CanInvite(c) ELSE CanReinvite(c)
    /\ calling' = IF initial THEN calling \cup {c} ELSE calling
    /\ UNCHANGED <<registered, sock, txVars, ringTimer, strayVars, dnd, invited,
                   verdict, acked, byed, took>>

\* A retransmission: the answer is replayed.
InviteReplayed(c, initial) ==
    /\ InviteArrives(c, initial)
    /\ OfDialog(c)
    /\ initial \/ state = "incoming"
    /\ UNCHANGED <<state, maxTimer, outbound, dCall, incoming, awaiting, answered,
                   ended>>

\* _handle_reinvite(): 200, or 488 for an offer without a codec we allow.
Reinvited(c, body) ==
    /\ InviteArrives(c, FALSE)
    /\ OfDialog(c) /\ state \in Established
    /\ awaiting' = IF body = "misfit" THEN awaiting ELSE body = "none"
    /\ answered' = IF body = "misfit" THEN answered ELSE answered \cup {c}
    /\ UNCHANGED <<state, maxTimer, outbound, dCall, incoming, ended>>

\* 486, with the callbacks of a call that came and went when DND is on.
InviteBusy(c, initial) ==
    /\ InviteArrives(c, initial)
    /\ ~OfDialog(c)
    /\ state # "registered" \/ dnd
    /\ ended' = IF dnd THEN ended \cup {c} ELSE ended
    /\ UNCHANGED <<state, maxTimer, outbound, dCall, incoming, awaiting, answered>>

\* Mutant: the client goes on believing that it placed the call.
KeepsRole == UNCHANGED outbound

\* The client is the one that was called.
Called == outbound' = FALSE

\* Not of the present dialog: a new call.
NewCall(c, initial, body) ==
    /\ InviteArrives(c, initial)
    /\ ~OfDialog(c)
    /\ state = "registered" /\ ~dnd
    /\ body # "misfit"
    /\ Called
    /\ incoming' = c /\ dCall' = c
    /\ awaiting' = (body = "none")
    /\ ended' = ended

CallRings(c, initial, body) ==
    /\ NewCall(c, initial, body)
    /\ state' = "incoming"
    /\ UNCHANGED <<maxTimer, answered>>

\* Auto-answered by a header of the INVITE or a rule of the contacts.
CallAutoAnswered(c, initial, body) ==
    /\ NewCall(c, initial, body)
    /\ answered' = answered \cup {c}
    /\ state' = "in_call"
    /\ ArmMaxDuration(c)

\* 488 for an initial offer without a codec we allow.
CallMisfits(c, initial) ==
    /\ InviteArrives(c, initial)
    /\ ~OfDialog(c)
    /\ state = "registered" /\ ~dnd
    /\ UNCHANGED <<state, maxTimer, outbound, dCall, incoming, awaiting, answered,
                   ended>>

\* What ACK, BYE, CANCEL and UPDATE leave alone.
InDialogFrame ==
    UNCHANGED <<registered, sock, inviteSeq, authTried, acceptedTo, strayVars,
                dnd, outbound, dCall, incoming, peerVars, answered, acked, took>>

\* ACK: the body, if any, answers the offer our 200 made.
AckArrives(c, body) ==
    /\ CanAck(c, body)
    /\ dCall \in {c, NoCall}
    /\ awaiting' = FALSE
    /\ InDialogFrame

AckEndsCall(c) ==
    /\ AckArrives(c, "misfit")
    /\ awaiting /\ state \in Established
    /\ SendBye
    /\ EndCall

AckConnects(c, body) ==
    /\ AckArrives(c, body)
    /\ ~(body = "misfit" /\ awaiting)
    /\ state = "answering"
    /\ state' = "in_call"
    /\ ArmMaxDuration(dCall)
    /\ UNCHANGED <<retxTimer, retxCount, ringTimer, byed, ended>>

AckOnly(c, body) ==
    /\ AckArrives(c, body)
    /\ ~(body = "misfit" /\ awaiting /\ state \in Established)
    /\ state # "answering"
    /\ UNCHANGED <<state, retxTimer, retxCount, ringTimer, maxTimer, byed,
                   ended>>

\* BYE: the tags of the request are not looked at.
Bye(c, t) ==
    /\ CanBye(c, t)
    /\ dCall = c /\ state \in DialogStates
    /\ EndCall
    /\ InDialogFrame
    /\ UNCHANGED <<awaiting, byed>>

\* CANCEL of a call that still rings; after our 200 it is too late.
Cancel(c) ==
    /\ CanCancel(c)
    /\ incoming = c /\ state = "incoming"
    /\ EndCall
    /\ InDialogFrame
    /\ UNCHANGED <<awaiting, byed>>

\* UPDATE with an offer.
Update(c) ==
    /\ CanReinvite(c)
    /\ dCall = c /\ state \in Established
    /\ awaiting' = FALSE
    /\ InDialogFrame
    /\ UNCHANGED <<state, retxTimer, retxCount, ringTimer, maxTimer, byed,
                   ended>>

HandleInvite(c) ==
    \E initial \in BOOLEAN, body \in Bodies :
        \/ InviteReplayed(c, initial) \/ Reinvited(c, body)
        \/ InviteBusy(c, initial) \/ CallMisfits(c, initial)
        \/ CallRings(c, initial, body) \/ CallAutoAnswered(c, initial, body)

HandleRequest(c) ==
    \/ HandleInvite(c)
    \/ AckEndsCall(c)
    \/ \E body \in Bodies : AckConnects(c, body) \/ AckOnly(c, body)
    \/ \E t \in Tags \cup {NoTag} : Bye(c, t)
    \/ Cancel(c) \/ Update(c)

PacketStep ==
    /\ sock = "open"
    /\ \/ \E m \in InviteResponses : HandleInviteResponse(m)
       \/ \E c \in Calls : HandleRequest(c)
-----------------------------------------------------------------------------
(* The call half on its own, beside a registration half that may do anything *)
(* the real one can do to the shared state.                                  *)

CallStep == (UserStep \/ TimerStep \/ PacketStep) /\ UNCHANGED <<closing, dropped>>

\* The line leaves a dialog without _end_call().
Drops ==
    dropped' = IF state \in DialogStates /\ state' \notin DialogStates
               THEN dropped \cup {dCall} ELSE dropped

\* A registration comes, goes or is retried; _reconnect() and stop() put the
\* line to idle and a 423 to registering whatever it was; stop() also cancels
\* the retransmission and ring timers of a call, and no other.
RegistrationLayer ==
    /\ state' \in {state, "idle", "registering", "registered"}
    /\ state \in DialogStates => state' # "registered"
    /\ registered' \in BOOLEAN
    /\ state' = "registered" => registered'
    /\ sock' \in {"none", "open"}
    /\ sock' = "none" => state' = "idle"
    /\ \/ UNCHANGED <<closing, retxTimer, ringTimer>>
       \/ /\ ~closing /\ closing' = TRUE
          /\ retxTimer' = FALSE /\ ringTimer' = NoCall
    /\ Drops
    /\ UNCHANGED <<inviteSeq, authTried, acceptedTo, retxCount, strayVars,
                   maxTimer, roleVars, peerVars, wireVars, ended>>

CallNext == RegistrationLayer \/ CallStep

CallInit == SharedInit /\ DialogInit

CallSpec == CallInit /\ [][CallNext]_callVars

\* Liveness needs only that the event loop runs timers that are due; peers and
\* users owe us nothing.
TimersRun ==
    /\ WF_callVars(RetransmitInvite /\ UNCHANGED <<closing, dropped>>)
    /\ WF_callVars((RingTimeout \/ RingTimeoutIgnored) /\ UNCHANGED <<closing, dropped>>)
    /\ WF_callVars((MaxDuration \/ MaxDurationIgnored) /\ UNCHANGED <<closing, dropped>>)

FairCallSpec == CallSpec /\ TimersRun
-----------------------------------------------------------------------------
(* Properties *)

\* The roles of the dialog variables fit the line state, whatever late answer
\* or re-INVITE came in: hangup() will address the right peer in the right way
\* (call, answer, hangup, _handle_request).
RoleMatchesState ==
    /\ state \in Dialling => outbound /\ dCall \in OutCalls /\ inviteSeq = invited[dCall]
    /\ state \in {"incoming", "answering"} => ~outbound /\ incoming = dCall
    /\ state = "answering" => dCall \in answered
    /\ state = "in_call" =>
         IF outbound THEN acceptedTo # NoTag /\ acceptedTo = took[dCall]
                     ELSE incoming = dCall /\ dCall \in answered

\* A ring timer is armed only while the call that armed it rings, and then has its
\* handle; the maximum duration is armed in every call that is connected, and
\* only for that call, which a late 180 may show as ringing again (call, _end_call,
\* _handle_ring_timeout, _set_state).  The exception is what a call leaves behind
\* that the line left without _end_call() (_reconnect, the 423 of
\* _handle_register_response, stop): its timers stay armed, the ring_timeout of the
\* next call() overwrites the handle, and the orphan hangs up that call, whose own
\* timer it orphans in turn.
TimersBelongToCall ==
    /\ ringTimer # NoCall =>
         ringTimer \in dropped \/ (ringTimer = dCall /\ state \in Dialling)
    /\ orphanRing \subseteq dropped \cup cutShort
    /\ cutShort # {} => dropped # {}
    /\ maxTimer # NoCall =>
         \/ maxTimer \in dropped
         \/ maxTimer = dCall /\ state = "in_call"
         \/ maxTimer = dCall /\ state = "ringing_out" /\ took[dCall] # NoTag
    /\ state = "in_call" /\ MaxDurationSet => maxTimer = dCall

\* Every call that was placed and every dialog that was given up was reported
\* with on_call_ended before the line was at rest or took another call
\* (_end_call, in every path that ends a call), unless the line left that very
\* call without _end_call().
EveryCallReported ==
    /\ \A c \in OutCalls :
         invited[c] > 0 /\ ~(dCall = c /\ state \in DialogStates) =>
           c \in ended \cup dropped
    /\ dCall # NoCall /\ state \notin DialogStates => dCall \in ended \cup dropped

\* Of the phones that answered a forked INVITE at most one stays in a call with
\* us: every other one got a BYE (_handle_invite_response, _end_forked_dialog).
ForkedAnswersClosed ==
    \A c \in OutCalls, t \in Tags :
        <<c, t>> \in acked => t = took[c] \/ <<c, t>> \in byed

\* Retransmitted and forked 2xx never connect a call twice ("must not repeat
\* media setup, even if the call has ended", _handle_invite_response).
ConnectsOnce ==
    [][ /\ \A c \in OutCalls : took[c] # NoTag => took'[c] = took[c]
        /\ state # "in_call" /\ state' = "in_call" /\ outbound' => took[dCall] = NoTag
      ]_callVars

\* A placed call with a ring timeout does not ring for ever, even if the peer
\* never answers or only ever says that it rings, unless the client is stopped
\* (call, _handle_ring_timeout).
RingTimeoutEnds ==
    \A c \in OutCalls :
        (dCall = c /\ state \in Dialling /\ ringTimer # NoCall)
            ~> (dCall # c \/ state \notin Dialling \/ closing)
=============================================================================
