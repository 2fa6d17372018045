SPECIFICATION FairSpec
CONSTANTS
  a = a
  b = b
  Fifo = {a, b}
  Depth <- Depth2
  PlSize <- PlSize2
  Base <- Base2
  RamWords = 8
  Sizes <- Fitting
  SeqMod = 2
  SeqWrap = 2
  BatchCap = 2
  MaxBatch = 3
  MaxCalls = 3
  Faults = {"lost", "late"}
  CorruptUA = {2, 28, 32, 4096}
INVARIANTS
  TypeOK
  ObjectsIntact
  OkNotLost
  BatchPrefix
  SeqDistinct
  LastSlotUsable
  WriteInRam
PROPERTIES
  QueuedUntouched
  ImplementsChannel
  SentEventually
