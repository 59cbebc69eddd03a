SPECIFICATION FairSpec
CONSTANTS
  NumSignals = 2
  Index <- SignalIndex
  FormMax = 2
  Stuck = {2}
  MaxCalls = 3
INVARIANTS
  TypeOK
  OneCallAtATime
  SentOnceInOrder
  PacketOfOneCall
PROPERTY
  OthersKeepProducing
