SPECIFICATION Spec
CONSTANTS
  FifoNos = {1, 2, 3}
  Entries <- Entries1
INVARIANTS
  ElementsFit
  RefusedNeverFit
PROPERTIES
  LayoutInForce
