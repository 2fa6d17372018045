SPECIFICATION WatchSpec
CONSTANTS
  Modes = {"Normal20", "Configuration"}
  Calls = {"set_mode", "apply_layout", "clear_interrupts", "configure_interrupts", "recover"}
  Fifos = 1
  MaxPolls = 1
  MaxSysErrors = 2
  MaxFaults = 1
  Faults = {"lost", "late"}
  Programs = {"stall", "blocking_core1", "bench_async", "bench_blocking", "bench_interference", "bench_interference_blocking", "bench_d10"}
  Depth = 2
  Masks <- Masks1
  Rounds = 1
  MaxCount = 2
INVARIANTS
  LaddersAsExpected
  CountsFaults
  PhasesDisjoint
PROPERTIES
  Resumes
