----------------------------- MODULE MCBringUp -----------------------------
(* Configurations: presets of both clocks, the largest values that the     *)
(* fields hold, and bad ones, each a step past one limit.                  *)
EXTENDS BringUp

Fd40     == Config(MHZ40, Timing(1, 63, 16, 16), <<Timing(1, 15, 4, 4)>>)
Classic20 == Config(MHZ20, Timing(1, 31, 8, 8), <<>>)
Pll      == Config(MHZ4_PLL, Timing(2, 127, 32, 32), <<Timing(1, 3, 1, 1)>>)
Largest  == Config(Clock(40000000, FALSE, TRUE), Timing(256, 256, 128, 128), <<Timing(2, 31, 16, 16)>>)
Bad == {
  Config(Clock(20000000, TRUE, FALSE), Timing(1, 63, 16, 16), <<>>),
  Config(Clock(40000000, FALSE, FALSE), Timing(257, 63, 16, 16), <<>>),
  Config(MHZ40, Timing(1, 63, 16, 16), <<Timing(1, 33, 4, 4)>>),
  Config(MHZ40, Timing(1, 63, 16, 16), <<Timing(8, 15, 4, 4)>>) }

Configs1 == {Classic20, Pll, Largest} \cup Bad
Configs2 == {Fd40, Classic20}
=============================================================================
