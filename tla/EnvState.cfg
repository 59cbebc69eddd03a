SPECIFICATION Spec
CONSTANTS
  N = 2
  Separate = {2}
  MaxStarts = 3
  MaxSent = 2
CHECK_DEADLOCK FALSE
INVARIANTS
  TypeOK
  GoneIsBlank
  UserStatesReach
  MusicReaches
