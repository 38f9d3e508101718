SPECIFICATION Spec
CONSTANTS
  Requests = {r1, r2}
  Names = {n1}
  Ids = {i1}
  Tokens = {t1}
  None = None
  Kinds = {"register", "login"}
  Mailer = "api"
  Faults = FALSE
SYMMETRY Symmetry
INVARIANTS
  ConfirmedFirst
