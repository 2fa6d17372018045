---------------------------- MODULE MCTestBench ----------------------------
(* TestBench with the first, a middle and the last length code.             *)
EXTENDS TestBench

Dlcs3 == <<0, 3, 8>>

(* The scripts are also sound with the numbers of the source, ten rounds   *)
(* of multinode.rs and every length code of remote.rs.                     *)
ASSUME Sound(Multinode(10)) /\ Sound(RemoteMain(<<0, 1, 2, 3, 4, 5, 6, 7, 8>>))
=============================================================================
