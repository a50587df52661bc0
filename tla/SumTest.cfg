CONSTANTS
  Faults = {"call"}
  Programs = {"sum", "daemon"}
  Values = {1, 3}
  Vas = {1, 5}
  Word = 4
SPECIFICATION FairSpec
CHECK_DEADLOCK FALSE
INVARIANTS PrintsSum 
PROPERTIES ClientEnds 
