SPECIFICATION FairSpec
CONSTANTS
  Requests = {r1, r2, r3}
  Cache = TRUE
INVARIANTS
  TypeOK
  CutExplained
PROPERTIES
  Stops
  ProcessSpec
