------------------------------ MODULE OneMedia ------------------------------
(***************************************************************************)
(* What the media half of SipClient promises (the docstring of             *)
(* _stop_media_session() and the comments in _start_media()): RTP belongs  *)
(* to one call at a time; it is not taken from a call that is still on, so *)
(* not bounced either; and it is given back once its call has ended.       *)
(***************************************************************************)
EXTENDS Integers

CONSTANT NoSession

VARIABLES
    current,   \* the number of the present call
    media,     \* the call that RTP belongs to
    stopping   \* the client is being stopped

Init ==
    /\ current = 0
    /\ media = NoSession
    /\ stopping = FALSE

EndOfCall ==
    /\ current' = current + 1
    /\ UNCHANGED <<media, stopping>>

Open ==
    /\ media = NoSession
    /\ media' = current
    /\ UNCHANGED <<current, stopping>>

CloseEnded ==
    /\ media \notin {NoSession, current}
    /\ media' = NoSession
    /\ UNCHANGED <<current, stopping>>

CloseAll ==
    /\ stopping
    /\ media # NoSession
    /\ media' = NoSession
    /\ UNCHANGED <<current, stopping>>

Stop ==
    /\ stopping' = TRUE
    /\ UNCHANGED <<current, media>>

Next == EndOfCall \/ Open \/ CloseEnded \/ CloseAll \/ Stop

vars == <<current, media, stopping>>

Spec == Init /\ [][Next]_vars /\ WF_vars(CloseEnded)
=============================================================================
