------------------------------ MODULE MCRxPath ------------------------------
(* Small instances of RxPath: words of two bytes, FIFO a or both a and b. *)
EXTENDS RxPath

CONSTANTS a, b

Of(x, y) == [f \in Fifo |-> IF f = a THEN x ELSE y]

Depth2   == Of(2, 1)
Pl2      == Of(4, 2)
Base2    == Of(0, 16)
Len2     == Of({0, 3}, {1, 3})
Len3     == Of({3}, {})
=============================================================================
