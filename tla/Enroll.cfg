SPECIFICATION Spec
CONSTANTS
  c1 = c1
  c2 = c2
  c3 = c3
  t1 = t1
  t2 = t2
  None = None
  Conn = {c1, c2, c3}
  Token = {t1, t2}
  Source = {1}
  Size = 4
  Ttl = {1}
  Window = 2
  MaxTries = 2
  Cooldown = 1
  MaxTime = 2
  MaxDeletes = 2
  MaxRestarts = 1
  MaxEvents = 2
SYMMETRY Symmetry
INVARIANTS
  TypeOK
  OneNodePerToken
  DistinctAddrs
  RateBound
PROPERTIES
  CooldownWaits
CHECK_DEADLOCK FALSE
