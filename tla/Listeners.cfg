SPECIFICATION Spec
CONSTANTS
  N = 2
  Names = {"ann", "bob"}
  ListenerIds = {"l1", "l2"}
  MaxConnects = 3
  MaxListens = 2
CHECK_DEADLOCK FALSE
INVARIANTS
  TypeOK
  AwaitedAreAbsent
  EntryIsOwn
