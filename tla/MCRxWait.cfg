SPECIFICATION LoopSpec
CONSTANTS
  a = a
  b = b
  Fifo = {a}
  Depth <- Depth2
  PlBytes <- Pl2
  Base <- Base2
  RamSize = 16
  WordBytes = 2
  Lengths <- Len3
  DlcLengths = {3, 6}
  Enabled = {"RXIE"}
  Faults = {"lost"}
  CorruptUA = {1, 8, 12, 14, 16, 4096}
  MaxFrames = 3
  MaxErrors = 2
INVARIANTS
  BoundsExact
  NoSpin
PROPERTIES
  WaitReturns
  FrameLeaves
