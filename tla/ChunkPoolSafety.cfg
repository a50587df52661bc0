\* Two clients, one slot, two chunks, requests that fit and that do not.
SPECIFICATION Spec
CONSTANTS
  Conn = {c1, c2}
  MaxChunk = 2
  MaxClient = 1
  Extra = 1
  Requests = {1, 2}
  MaxRequests = 2
  Start = {0, 1, 2}
  Grow = {2}
  Shrink = {2}
  NULL = NULL
SYMMETRY Symmetry
INVARIANTS   GrantListed  ReceiveBufferStable
\* The process may die, and an eviction whose client never answers blocks.
CHECK_DEADLOCK FALSE
