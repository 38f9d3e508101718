SPECIFICATION Spec
CONSTANTS
  Requests = {r1, r2, r3}
  Posts = {p1, p2}
  Files = {f1, f2, f3}
  None = None
  Kinds = {"create", "update", "delete", "upload"}
  FileLimit = 2
  MaxInput = 3
  PostRouteAuth = TRUE
  UpdateFormValid = TRUE
  Faults = TRUE
CONSTRAINT Bounded
SYMMETRY Symmetry
INVARIANTS
  TypeOK
  IInv
  RowsBacked
  StraysExplained
  AnsweredKept
  DeletedGone
  DroppedOnce
PROPERTIES
  AttachmentsSpec
