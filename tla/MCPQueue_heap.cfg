\* Six elements of three priorities; the cells run out at the second element.
SPECIFICATION Spec
CONSTANTS
  e1 = e1  e2 = e2  e3 = e3  e4 = e4  e5 = e5  e6 = e6
  none = none
  NULL = none
  Elements = {e1, e2, e3, e4, e5, e6}
  Priorities = {0, 1, 2}
  Step = 2
SYMMETRY Symmetry
INVARIANTS HeapOrder CellsAllocated
PROPERTIES ImplementsPriorityQueue
