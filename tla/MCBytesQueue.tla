---------------------------- MODULE MCBytesQueue ----------------------------
(* BytesQueue for TLC. *)
EXTENDS BytesQueue
=============================================================================
