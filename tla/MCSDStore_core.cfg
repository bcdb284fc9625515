\* Three clients and two slots, so that a task may find none; no signal.
SPECIFICATION Spec
CONSTANTS
  c1 = c1  c2 = c2  c3 = c3
  p1 = p1  p2 = p2  p3 = p3
  nop = nop  bcompress = bcompress
  none = none
  NULL = none
  Clients = {c1, c2, c3}
  Pids = {p1, p2, p3}
  Transformations = {bcompress, nop}
  ActiveLimit <- WideLimits
  Commands <- CrowdCommands
  MaxParallel = 2
  BufSize = 5
  MaxSignals = 0
  Mortal = {}
SYMMETRY Symmetry
INVARIANTS
  Bookkeeping
  ConcurrencyLimit
  RepliesInOrder
  NeverStalls
PROPERTIES ImplementsScheduler
CHECK_DEADLOCK FALSE
