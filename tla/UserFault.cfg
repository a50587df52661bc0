CONSTANTS
  Faults = {"setup", "mmap", "thread", "eintr", "poll", "read", "prefetch", "copy", "lock"}
  Programs = {"poll", "prefetch", "multi", "merge"}
  PagesPerRange = 2
  WordsPerPage = 2
  Reads = 3
SPECIFICATION FairSpec
CHECK_DEADLOCK FALSE
INVARIANTS ReadsResolvedBy CopyFillsHole HandlerLeaves
PROPERTY TestEnds
