--------------------------- MODULE MCUserStreams ---------------------------
(* Finite instances of UserStreams for TLC. *)
EXTENDS UserStreams
=============================================================================
