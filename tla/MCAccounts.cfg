SPECIFICATION Spec
CONSTANTS
  Requests = {r1, r2, r3, r4}
  Names = {n1, n2}
  Ids = {i1, i2}
  Tokens = {t1, t2}
  None = None
  Kinds = {"register", "activate", "login"}
  Mailer = "api"
  Faults = TRUE
SYMMETRY Symmetry
INVARIANTS
  TypeOK
  RegisterTold
  StrandedExplained
  ActivatedOnce
PROPERTY AccountLifeSpec
