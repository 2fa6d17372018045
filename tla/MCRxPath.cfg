SPECIFICATION Spec
CONSTANTS
  a = a
  b = b
  Fifo = {a, b}
  Depth <- Depth2
  PlBytes <- Pl2
  Base <- Base2
  RamSize = 22
  WordBytes = 2
  Lengths <- Len2
  DlcLengths = {0, 1, 3}
  Enabled = {"RXIE", "RXOVIE"}
  Faults = {"lost", "late"}
  CorruptUA = {1, 20, 22, 4096}
  MaxFrames = 3
  MaxErrors = 2
INVARIANTS
  DeliveredExact
PROPERTIES
  ImplementsRxChannel
