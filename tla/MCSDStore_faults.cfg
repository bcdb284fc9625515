\* Clients that users interrupt, commands without arguments or without
\* transformations, a buffer that a burst fills, and two signals.
SPECIFICATION Spec
CONSTANTS
  c1 = c1  c2 = c2  c3 = c3
  p1 = p1  p2 = p2  p3 = p3
  nop = nop  bcompress = bcompress
  none = none
  NULL = none
  Clients = {c1, c2}
  Pids = {p1, p2}
  Transformations = {bcompress, nop}
  ActiveLimit <- Limits
  Commands <- HarshCommands
  MaxParallel = 2
  BufSize = 2
  MaxSignals = 2
  Mortal = {c1, c2}
INVARIANTS
  TypeOK
  Bookkeeping
  FinishAccounted
  RepliesInOrder
  ExitsAfterWork
PROPERTIES ImplementsScheduler FailureHasCause
CHECK_DEADLOCK FALSE
