SPECIFICATION FairSpec
CONSTANTS
  Requests = {r1, r2, r3}
  Conns = {c1, c2}
  None = None
  MaxRounds = 2
  Deadlines = TRUE
INVARIANTS
  TypeOK
  NoStall
  NoLeak
PROPERTIES
  Ends
