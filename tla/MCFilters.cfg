SPECIFICATION Spec
CONSTANTS
  FilterNos = {0, 1}
  Targets = {1, 2}
  IdBits = {0}
  Faults = {"lost", "late"}
INVARIANTS
  RoutedByWholeRule
  OutcomeWhole
