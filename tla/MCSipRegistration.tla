------------------------- MODULE MCSipRegistration -------------------------
(***************************************************************************)
(* TLC instances of SipRegistration.  The ratios of the back-off are those *)
(* of the code, with caps low enough to be reached in a few failures; the  *)
(* registrar may demand an interval above ours, and may see us elsewhere.  *)
(***************************************************************************)
EXTENDS SipRegistration

MCMinExpires == {0, 600}
MCAddresses == {"local", "nat"}
=============================================================================
