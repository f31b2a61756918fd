-------------------------- MODULE MCAssistBridge --------------------------
(***************************************************************************)
(* TLC instances of AssistBridge: four calls of the service, in which      *)
(* every feature is used with, and without, the others that it meets.      *)
(***************************************************************************)
EXTENDS AssistBridge

Everything ==
    [prompt |-> TRUE, tone |-> "beep", cue |-> TRUE, barge |-> TRUE, interrupt |-> TRUE,
     hangupTool |-> TRUE, hangupOnEnd |-> FALSE]

MCOptions ==
    {Everything,
     [Everything EXCEPT !.prompt = FALSE, !.tone = "media", !.barge = FALSE, !.interrupt = FALSE],
     [Everything EXCEPT !.prompt = FALSE, !.tone = "none", !.cue = FALSE, !.hangupTool = FALSE,
                        !.hangupOnEnd = TRUE],
     [Everything EXCEPT !.interrupt = FALSE, !.hangupTool = FALSE]}
=============================================================================
