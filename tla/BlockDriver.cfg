CONSTANTS
  Requests = {r1, r2, r3}
  MaxUsers = 2
SPECIFICATION FairSpec
CHECK_DEADLOCK FALSE
INVARIANTS IInv UnloadedCodeUnused UnloadReleasesAll 
PROPERTIES UnloadEnds ImplementsService
