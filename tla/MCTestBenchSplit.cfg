SPECIFICATION Spec
CONSTANTS
  Programs = {"extended"}
  Others = {"swapId", "nokind"}
  Rounds = 2
  Dlcs <- Dlcs3
  Counters = 8
  MaxErrs = 1
INVARIANTS
  SplitVerified
