SPECIFICATION Spec
CONSTANTS
  Queues = {q1}
  Depth = 2
  Contexts = {s1}
  NULL = NULL
  MaxFaults = 0
INVARIANTS FreeIsConcurrentSafe
CHECK_DEADLOCK FALSE
