SPECIFICATION Spec
CONSTANTS
  NumSignals = 2
  Index <- SignalIndex
  FormMax = 2
  Stuck = {}
  MaxCalls = 3
INVARIANT PayloadIsAsWritten
