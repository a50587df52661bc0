CONSTANTS
  Faults = {"verbs", "short", "torn", "late"}
  Clients = {c1, c2}
  Sizes = {1, 2}
  Addresses = {1, 2}
  Backlog = 2
  RetryCnt = 2
  server = server
SPECIFICATION FairSpec
CHECK_DEADLOCK FALSE
INVARIANTS PrintsMessage 
PROPERTIES ClientsEnd 
