SPECIFICATION Spec
CONSTANTS
  Programs = {"multinode", "chip2chip", "loopback", "filters", "extended", "remote", "layouts", "soak", "batch"}
  Others = {}
  Rounds = 3
  Dlcs <- Dlcs3
  Counters = 8
  MaxErrs = 1
INVARIANTS
  CatchesBugs
  NoFalseAlarm
  OkIsEarned
