SPECIFICATION FairSpec
CONSTANTS
  MaxTasksToConsume = 2
  MaxPosted = 3
INVARIANTS
  TypeOK
  FifoExactlyOnce
PROPERTIES
  FifoSpec
  EveryTaskRuns
