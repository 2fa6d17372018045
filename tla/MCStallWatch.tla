---------------------------- MODULE MCStallWatch ----------------------------
(* One mask duration: one phase of a plain sweep, one of each arm of D10.  *)
EXTENDS StallWatch
Masks1 == <<0>>
=============================================================================
