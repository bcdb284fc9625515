\* A signal at any time; no task needs more than one client.
SPECIFICATION FairSpec
CONSTANTS
  c1 = c1  c2 = c2  c3 = c3
  p1 = p1  p2 = p2  p3 = p3
  nop = nop  bcompress = bcompress
  none = none
  NULL = none
  Clients = {c1}
  Pids = {p1}
  Transformations = {bcompress, nop}
  ActiveLimit <- Limits
  Commands <- OneCommand
  MaxParallel = 2
  BufSize = 4
  MaxSignals = 1
  Mortal = {}
PROPERTIES InterruptedServerStops
CHECK_DEADLOCK FALSE
