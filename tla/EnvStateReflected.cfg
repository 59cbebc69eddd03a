SPECIFICATION Spec
CONSTANTS
  N = 2
  Separate = {}
  MaxStarts = 2
  MaxSent = 1
CHECK_DEADLOCK FALSE
INVARIANTS
  CopyIsOfTheUser
