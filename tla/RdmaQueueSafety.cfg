\* Two contexts on one queue of two commands, and two failures.
SPECIFICATION Spec
CONSTANTS
  Queues = {q1}
  Depth = 2
  Contexts = {s1, s2}
  NULL = NULL
  MaxFaults = 2
SYMMETRY Symmetry
INVARIANTS CommandExclusive EndsOwnRequest NoStrandedCompletion IInv
\* A null dereference and a failed session stop the machine.
CHECK_DEADLOCK FALSE
