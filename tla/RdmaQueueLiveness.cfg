\* One context per queue, and as many failures as it has commands.
SPECIFICATION FairSpec
CONSTANTS
  Queues = {q1}
  Depth = 2
  Contexts = {s1}
  NULL = NULL
  MaxFaults = 2
PROPERTIES EveryRequestEnds
CHECK_DEADLOCK FALSE
