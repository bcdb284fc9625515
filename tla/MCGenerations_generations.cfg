\* Three servers, one after the other or at the same time, and two clients.
SPECIFICATION Spec
CONSTANTS
  NULL = NULL
  Servers = {s1, s2, s3}
  Clients = {c1, c2}
SYMMETRY Symmetry
INVARIANTS StartsAfterCrash ListensToItself NoClientTrapped
CHECK_DEADLOCK FALSE
