CONSTANTS
  ChunkSects = 8
  PageSects = 2
  BufSects = 2
  MaxSects = 4
  DiskChunks = 2
  FreeSizes = {0, 1, 2}
  Watch = 6
  Val = {0, 1}
SPECIFICATION Spec
INVARIANTS
  LocationsDistinct
  TransferWithin
CHECK_DEADLOCK FALSE
