------------------------------ MODULE SipState ------------------------------
(***************************************************************************)
(* The state that the registration half and the call half of SipClient     *)
(* share (sip_client/sip_client.py): the line state shown to Home          *)
(* Assistant, whether the registrar holds our binding, the UDP socket, and *)
(* whether the client is being stopped.                                    *)
(* Everything runs on one asyncio event loop, so one action of the modules *)
(* that extend this one is the code between two awaits of one coroutine,   *)
(* or the whole of one callback.                                           *)
(***************************************************************************)

VARIABLES
    state,        \* SipClient.state
    registered,   \* SipClient.registered
    sock,         \* SipClient._transport: "none" or "open"
    closing       \* SipClient._closing: stop() was called

sharedVars == <<state, registered, sock>>

\* The states in which a dialog, early or confirmed, exists.
DialogStates == {"inviting", "ringing_out", "incoming", "answering", "in_call"}

\* The two states that were answered: media may flow.
Established == {"answering", "in_call"}

\* The two states of a call we placed that was not answered yet.
Dialling == {"inviting", "ringing_out"}

LineStates == {"idle", "registering", "registered"} \cup DialogStates

SharedTypeOK ==
    /\ state \in LineStates
    /\ registered \in BOOLEAN
    /\ sock \in {"none", "open"}
    /\ closing \in BOOLEAN

\* Where a call that ends leaves the line.
Resting == IF registered THEN "registered" ELSE "idle"

SharedInit ==
    /\ state = "idle"
    /\ registered = FALSE
    /\ sock = "none"
    /\ closing = FALSE
=============================================================================
