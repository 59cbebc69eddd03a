SPECIFICATION Spec
CONSTANTS
  a = a
  b = b
  Ids <- MCIds
  NumSignals = 2
  SinglePort = FALSE
  LateTypes = {}
  MaxStarts = 1
  MaxInFlight = 0
CHECK_DEADLOCK FALSE
SYMMETRY Symmetry
INVARIANTS
  OwnPortPerSignal
