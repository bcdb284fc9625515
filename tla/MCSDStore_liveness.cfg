\* Two clients, that users may interrupt, and a signal to the server at any time.
SPECIFICATION FairSpec
CONSTANTS
  c1 = c1  c2 = c2  c3 = c3
  p1 = p1  p2 = p2  p3 = p3
  nop = nop  bcompress = bcompress
  none = none
  NULL = none
  Clients = {c1, c2}
  Pids = {p1, p2}
  Transformations = {bcompress, nop}
  ActiveLimit <- Limits
  Commands <- RivalCommands
  MaxParallel = 2
  BufSize = 4
  MaxSignals = 1
  Mortal = {c1, c2}
PROPERTIES EveryRequestAnswered  DrainTerminates
CHECK_DEADLOCK FALSE
