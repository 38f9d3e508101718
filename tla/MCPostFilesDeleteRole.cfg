SPECIFICATION Spec
CONSTANTS
  Requests = {r1, r2}
  Posts = {p1}
  Files = {f1, f2}
  None = None
  Kinds = {"delete"}
  FileLimit = 2
  MaxInput = 2
  PostRouteAuth = FALSE
  UpdateFormValid = FALSE
  Faults = FALSE
SYMMETRY Symmetry
INVARIANTS
  AdminsDelete
