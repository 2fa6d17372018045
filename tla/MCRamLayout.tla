---------------------------- MODULE MCRamLayout ----------------------------
(* RamLayout with the chip's own sizes, for three of the 31 FIFOs.  Three  *)
(* entries fill the RAM to the last byte; depth 32 is the largest.         *)
EXTENDS RamLayout

Entries1 == { Entry("Transmit", 64, 20), Entry("Receive", 8, 32), Entry("Receive", 16, 4),
              Entry("Receive", 12, 33), Entry("Transmit", 64, 0) }
=============================================================================
