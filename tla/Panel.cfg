SPECIFICATION FairSpec
CONSTANTS
  Node = {n1}
  QCap = 2
  MaxFetch = 2
  MaxSock = 3
  Scenarios <- Runs
  None = None
INVARIANTS
  TypeOK
  OneSocket
PROPERTIES
  CatchesUp
  Reconnected
CHECK_DEADLOCK FALSE
