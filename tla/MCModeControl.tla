---------------------------- MODULE MCModeControl ----------------------------
(* Instances of ModeControl are given by their cfg files alone. *)
EXTENDS ModeControl
=============================================================================
