--------------------------- MODULE MCMediaSession ---------------------------
(***************************************************************************)
(* A TLC instance of MediaSession: a codec of 8 and one of 16 kHz.         *)
(***************************************************************************)
EXTENDS MediaSession

MCRate == [c \in Codecs |-> IF c = Fallback THEN 8 ELSE 16]
=============================================================================
