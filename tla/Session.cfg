SPECIFICATION Spec
CONSTANTS
  a = a
  b = b
  Ids <- MCIds
  NumSignals = 1
  SinglePort = FALSE
  LateTypes = {"Signal"}
  MaxStarts = 3
  MaxInFlight = 1
CHECK_DEADLOCK FALSE
SYMMETRY Symmetry
INVARIANTS
  TypeOK
  OneEntryPerId
  RecordsAgree
  PeersAreTheClients
  IndexIsOwn
  RosterReachesAll
  IndexOnItsWay
  RelayedToOthers
