--------------------------- MODULE MCAudioSource ---------------------------
(***************************************************************************)
(* A TLC instance of AudioSource: one source that ffmpeg fetches itself    *)
(* and one that is fed to it, over two calls.                              *)
(***************************************************************************)
EXTENDS AudioSource
=============================================================================
