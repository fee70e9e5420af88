SPECIFICATION Spec
CONSTANTS
  None = None
  Node = {n1}
  Call = {r1, r2, r3}
  c1 = c1
  c2 = c2
  t1 = t1
  t2 = t2
  t3 = t3
  Cmd = {c1, c2}
  Text = {t1, t2, t3}
  CmdOf <- Decoded
  Window = 1
  Skew = 1
  MaxTime = 2
  MaxConns = 2
  MaxKeys = 1
  MaxRestarts = 1
INVARIANTS
  TypeOK
  RunOnce
  AnswerMatches
  NoLeakedWaiter
PROPERTIES
  Implements
CONSTRAINT Slice
SYMMETRY Sym
CHECK_DEADLOCK FALSE
