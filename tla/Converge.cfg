SPECIFICATION FairSpec
CONSTANTS
  n1 = n1
  n2 = n2
  None = None
  Node = {n1, n2}
  SocksNode = {}
  Sess <- OneEach
  OutCap = 3
  Scenarios <- Disturbances
INVARIANTS
  FreshKey
PROPERTIES
  Converges
CHECK_DEADLOCK FALSE
