----------------------------- MODULE MCFilters -----------------------------
(* Instances of Filters are given by their cfg files alone. *)
EXTENDS Filters
=============================================================================
