\* More tasks than pids, so that pids come back; a slot may stay with a monitor
\* that died, while its pid runs another task.
SPECIFICATION Spec
CONSTANTS
  NULL = NULL
  Pids = {p1, p2, p3}
  MaxParallel = 3
  MaxTasks = 5
SYMMETRY Symmetry
INVARIANTS HandlerNeverBlocks RunningHoldsOwnSlot ReportsFindSlots
CHECK_DEADLOCK FALSE
