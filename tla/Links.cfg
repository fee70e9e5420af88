SPECIFICATION Spec
CONSTANTS
  n1 = n1
  n2 = n2
  None = None
  Node = {n1, n2}
  SocksNode = {n1, n2}
  Sess <- OneEach
  OutCap = 3
  Scenarios <- LinkChanges
SYMMETRY NodeSymmetry
INVARIANTS
  Delivered
  NoGhostPeer
  ExitFollowsLink
  StatusCatchesUp
CHECK_DEADLOCK FALSE
