SPECIFICATION RetrySpec
CONSTANTS
  Configs <- Configs1
  Variants = {"Mcp2517Fd", "Mcp2518Fd"}
  WarmModes = {"NormalFd", "Sleep"}
  WiringFails = {TRUE, FALSE}
  Blocks = 2
  MaxPolls = 2
  SlowClocks = {TRUE, FALSE}
  MaxFaults = 1
  Faults = {"lost", "late"}
INVARIANTS
  TimingInForce
  OkMeansReady
  SeqMaskFits
PROPERTIES
  ComesUp
