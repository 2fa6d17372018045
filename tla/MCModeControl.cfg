SPECIFICATION Spec
CONSTANTS
  Modes = {"NormalFd", "Normal20", "Configuration", "Sleep", "ListenOnly"}
  Calls = {"set_mode", "apply_layout", "clear_interrupts", "configure_interrupts", "recover"}
  Fifos = 2
  MaxPolls = 1
  MaxSysErrors = 2
  MaxFaults = 1
  Faults = {"lost", "late"}
INVARIANTS
  AlarmStands
  OkSettles
  SecondErrorVisible
  LayoutApplied
