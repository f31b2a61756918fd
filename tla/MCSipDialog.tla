---------------------------- MODULE MCSipDialog ----------------------------
(***************************************************************************)
(* TLC instances of SipDialog: the configurations choose how many calls    *)
(* are placed and received, which phones answer a placed one, and which of *)
(* the timers exist.  Placed calls are alike until they are placed.        *)
(***************************************************************************)
EXTENDS SipDialog, TLC

CallSymmetry == Permutations(OutCalls)

\* What an action reads where only calls of ours exist, and what is said of
\* timers.  Only the handler of an incoming INVITE reads dnd, and nothing reads
\* byed and ended, which tell what was sent and reported: two states that differ in
\* them alone have the same behaviours.
PlacedCallsView ==
    <<sharedVars, closing, txVars, timerVars, outbound, dCall, incoming,
      awaiting, peerVars, answered, acked, took, dropped>>
=============================================================================
