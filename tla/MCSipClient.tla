---------------------------- MODULE MCSipClient ----------------------------
(***************************************************************************)
(* TLC instances of SipClient.  The back-off is left constant: its values  *)
(* decide nothing about calls.                                             *)
(***************************************************************************)
EXTENDS SipClient

MCMinExpires == {0, 600}
MCAddresses == {"local"}
=============================================================================
