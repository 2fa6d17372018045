------------------------------ MODULE MCTxPath ------------------------------
(* Small instances of TxPath: two FIFOs packed in a few words of RAM. *)
EXTENDS TxPath, TLC

CONSTANTS a, b

Depth2   == (a :> 2) @@ (b :> 1)
PlSize2  == (a :> 1) @@ (b :> 0)
Base2    == (a :> 0) @@ (b :> 6)
Fitting  == (a :> {1}) @@ (b :> {0})
=============================================================================
