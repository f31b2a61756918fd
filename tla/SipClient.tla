----------------------------- MODULE SipClient -----------------------------
(***************************************************************************)
(* SipClient (sip_client/sip_client.py) as a whole: its registration half  *)
(* and its call half on one event loop, sharing the line state.  Each half *)
(* can move the line while the other one is in the middle of something;    *)
(* the properties here are about what they do to each other.               *)
(***************************************************************************)
EXTENDS SipRegistration, SipDialog

clientVars == <<vars, dialogVars, dropped>>

ClientInit == Init /\ DialogInit

Registration ==
    /\ RegistrationStep
    /\ Drops
    /\ UNCHANGED dialogVars

\* stop() cancels the retransmission and ring timers of a call, and no other.
Stops ==
    /\ \/ StopBegins /\ retxTimer' = FALSE /\ ringTimer' = NoCall
       \/ StopEnds /\ UNCHANGED <<retxTimer, ringTimer>>
    /\ Drops
    /\ UNCHANGED <<inviteSeq, authTried, acceptedTo, retxCount, strayVars,
                   maxTimer, roleVars, peerVars, wireVars, ended>>

\* An answer to our INVITE also tells the address the server sees us at.
AnswerShowsAddress ==
    /\ sock = "open"
    /\ \E m \in InviteResponses : OwnAnswer(m) /\ HandleInviteResponse(m)
    /\ observed' \in Addresses

\* A step of the call half.  No packet is read while a created task waits to run.
Calling ==
    /\ \/ (UserStep \/ TimerStep) /\ UNCHANGED observed
       \/ spawned = 0 /\ PacketStep /\ UNCHANGED observed
       \/ spawned = 0 /\ AnswerShowsAddress
    /\ UNCHANGED <<lifeVars, taskVars, regTimer, txnVars, policyVars, dropped>>

ClientNext == Registration \/ Stops \/ Calling

ClientSpec == ClientInit /\ [][ClientNext]_clientVars
-----------------------------------------------------------------------------
(* Properties *)

\* The whole client is a registration loop: the call half does to the line
\* state only what CallLayer allows, so what SipRegistration shows holds here.
ImplementsRegistration == Spec

\* ... and a call half: registration does to the line state only what
\* RegistrationLayer allows, so what SipDialog shows holds here.
ImplementsCalls == CallSpec

\* A call always has the socket it was set up on, whatever the registration
\* loop does beside it: hangup() and the ring timer can send their CANCEL or
\* BYE (_reconnect, stop, _register_tick).
SocketUnderCall == state \in DialogStates => sock = "open"

\* A call goes without on_call_ended only when the client is stopped, when a
\* reconnect that was already decided runs after it began, or when the
\* registrar raises the interval; no other answer, timer or failure of the
\* registration loses one (_set_state outside _end_call).
NoOtherDrops ==
    [][dropped' # dropped =>
          closing \/ ReconnectBegins \/ \E m \in RegisterResponses : IntervalRaised(m)
      ]_clientVars
=============================================================================
