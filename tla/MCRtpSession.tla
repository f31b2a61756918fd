---------------------------- MODULE MCRtpSession ----------------------------
(***************************************************************************)
(* A TLC instance of RtpSession.  The scenarios add up, where the product  *)
(* of all that may happen to a call would be too large: codecs, hold and   *)
(* direction with a peer that dies, the latch, keys, and what we send.     *)
(***************************************************************************)
EXTENDS RtpSession

Lists(pts, pcmu, pcma, g722, event) ==
    [pts |-> pts, named |-> [n \in Names |-> CASE n = "PCMU" -> pcmu
                                              [] n = "PCMA" -> pcma
                                              [] n = "G722" -> g722],
     event |-> event, dir |-> "sendrecv", zero |-> FALSE, at |-> "sdp", valid |-> TRUE]

\* Static and dynamic payload types and those between, an unknown codec only, no
\* audio, no m= line.
Bodies ==
    { Lists({0, 8, 101}, 0, 8, -1, 101), Lists({9, 0}, 0, -1, 9, -1), Lists({8}, -1, 8, -1, -1),
      Lists({96, 97, 101}, 96, -1, 97, 101), Lists({97, 96, 8}, 97, 8, 96, -1),
      Lists({18, 101}, -1, -1, -1, 101), Lists({13, 101}, -1, -1, -1, 101),
      Lists({35, 36}, 35, -1, 36, -1), Lists({36, 35}, 36, 35, -1, -1),
      Lists({}, -1, -1, -1, -1),
      [Lists({}, -1, -1, -1, -1) EXCEPT !.at = "none", !.valid = FALSE] }

Plain == Lists({0, 101}, 0, -1, -1, 101)

Directions ==
    {[Plain EXCEPT !.dir = d] : d \in {"sendrecv", "sendonly", "recvonly", "inactive"}}
        \cup {[Plain EXCEPT !.zero = TRUE]}

Base == [orders |-> {Supported}, offers |-> {Plain}, deals |-> 1, moves |-> 0, strays |-> 0,
         odd |-> 0, presses |-> 0, ticks |-> 0, digits |-> 0, mortal |-> FALSE, marks |-> TRUE]

Negotiating == [Base EXCEPT !.orders = Presets, !.offers = Bodies, !.deals = 3]
Holding == [Base EXCEPT !.offers = Directions, !.deals = 4, !.mortal = TRUE]
Latching == [Base EXCEPT !.offers = {[Plain EXCEPT !.at = a] : a \in {"sdp", "nat"}},
                         !.deals = 2, !.moves = 1, !.strays = 1, !.odd = 1]
Pressing(marks) == [Base EXCEPT !.deals = 2, !.presses = 2, !.marks = marks]
Dialling == [Base EXCEPT !.offers = {Plain, [Plain EXCEPT !.dir = "sendonly"]}, !.deals = 3,
                         !.digits = 2, !.ticks = 10]

MCScenarios == {Negotiating, Holding, Latching, Pressing(TRUE), Pressing(FALSE), Dialling}
=============================================================================
