SPECIFICATION Spec
CONSTANTS
  n1 = n1
  n2 = n2
  None = None
  Node = {n1, n2}
  SocksNode = {}
  Sess <- TwoFirst
  OutCap = 3
  Scenarios <- Takeover
INVARIANTS
  TypeOK
  OneLiveSession
  FreshKey
  OneKeyPerPeer
PROPERTIES
  CutsAreIntended
CHECK_DEADLOCK FALSE
