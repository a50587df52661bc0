CONSTANTS
  Faults = {"resolve", "route", "create", "prepost", "connect", "request", "notify", "missed", "evict", "server", "signal", "return"}
  FreeSizes = {0, 1, 2}
  Request = 2
SPECIFICATION FairSpec
CHECK_DEADLOCK FALSE
INVARIANTS NoSpuriousEvent MessageNotOverwritten HandlerDoneWithBuffers 
PROPERTIES InsmodReturns RmmodReturns
