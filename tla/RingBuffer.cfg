SPECIFICATION FairSpec
CONSTANTS
  NumEntries = 3
  NumWords = 3
  PayloadSize <- MCPayloadSize
  MaxWrites = 5
INVARIANTS
  TypeOK
  PermitConserved
  ReadyIsWhole
  TailInPlace
  EntriesInOrder
  TornOnlyIfOverrun
PROPERTIES
  FirstReadIsFresh
  CallsReturn
