SPECIFICATION Spec
CONSTANTS
  Requests = {r1, r2, r3}
  Users = {u1, u2}
  Tokens = {t1, t2, t3}
  None = None
  MaxOld = 1
  Faults = TRUE
SYMMETRY Symmetry
INVARIANTS
  TypeOK
  SingleUse
  SessionsLast
  Traced
