----------------------------- MODULE MCCallGlue -----------------------------
(***************************************************************************)
(* A TLC instance of CallGlue: three attempts at a call, with two of the   *)
(* services at a time and with one that is used twice.                     *)
(***************************************************************************)
EXTENDS CallGlue

Plain == [dials |-> FALSE, dnd |-> FALSE, asks |-> {}, tapes |-> {}]

MCScenarios ==
    {[Plain EXCEPT !.dials = TRUE, !.dnd = TRUE], [Plain EXCEPT !.dnd = TRUE, !.asks = Asks],
     [Plain EXCEPT !.dials = TRUE, !.asks = {CHOOSE a \in Asks : TRUE}],
     [Plain EXCEPT !.dnd = TRUE, !.tapes = Tapes],
     [Plain EXCEPT !.dials = TRUE, !.tapes = {CHOOSE t \in Tapes : TRUE}],
     [Plain EXCEPT !.asks = {CHOOSE a \in Asks : TRUE}, !.tapes = {CHOOSE t \in Tapes : TRUE}]}
=============================================================================
