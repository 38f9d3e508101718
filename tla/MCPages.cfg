SPECIFICATION Spec
CONSTANTS
  Items = {i1, i2, i3, i4, i5}
  PageSize = 2
  Sorts = {"newest", "oldest", "liked"}
  MaxMoves = 2
  Faults = TRUE
SYMMETRY Symmetry
INVARIANTS
  TypeOK
  MissedPerMove
  TwicePerArrival
  OldestOnce
