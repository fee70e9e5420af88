SPECIFICATION Spec
CONSTANTS
  n1 = n1
  n2 = n2
  Node = {n1, n2}
  End = {n1, n2}
  Hub = hub
  Ahead = 1
  Behind = 1
  Skew <- FirstAhead
  Sec = 2
  Step = 2
  Slots = 2
  HSWindow = 1
  Speed = 1
  Collect = 1
  MaxDelay = 2
  Start = 5
  MaxTime = 12
  Scenarios <- Runs
  None = None
INVARIANTS
  TypeOK
  RangeFaithful
  RateBounded
  
  ActiveIsRecent
CONSTRAINT Slice
CHECK_DEADLOCK FALSE
