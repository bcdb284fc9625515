\* A request for 128 instances of a transformation.
SPECIFICATION Spec
CONSTANTS
  c1 = c1  c2 = c2  c3 = c3
  p1 = p1  p2 = p2  p3 = p3
  nop = nop  bcompress = bcompress
  none = none
  NULL = none
  Clients = {c1, c2}
  Pids = {p1, p2}
  Transformations = {bcompress, nop}
  ActiveLimit <- Limits
  Commands <- ManyCommands
  MaxParallel = 2
  BufSize = 4
  MaxSignals = 0
  Mortal = {}
INVARIANTS ImpossibleIsRefused
CHECK_DEADLOCK FALSE
