SPECIFICATION Spec
CONSTANTS
  Requests = {r1, r2}
  Users = {u1}
  Tokens = {t1, t2}
  None = None
  MaxOld = 1
  Faults = FALSE
SYMMETRY Symmetry
INVARIANTS
  LoggedOut
