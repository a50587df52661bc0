CONSTANTS
  Faults = {"connect", "driver", "gendisk", "transfer", "readahead"}
  Requests = {r1, r2, r3}
  MaxUsers = 2
SPECIFICATION FairSpec
CHECK_DEADLOCK FALSE
 
PROPERTIES RequestsEnd  ImplementsServiceUntilFault
