SPECIFICATION FairSpec
CONSTANTS
  connectionPing = 8
  connectionTimeout = 18
  MaxGap = 4
  MaxDelay = 3
INVARIANTS
  TypeOK
  LiveClientStays
PROPERTIES
  PingBeforeTimeout
  DeadClientGoes
CHECK_DEADLOCK FALSE
