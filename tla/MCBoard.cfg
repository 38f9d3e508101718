SPECIFICATION Spec
CONSTANTS
  u1 = u1
  u2 = u2
  u3 = u3
  p1 = p1
  n1 = n1
  n2 = n2
  t1 = t1
  t2 = t2
  t3 = t3
  c1 = c1
  c2 = c2
  Requests = {r1, r2, r3}
  Users <- MCUsers
  Posts = {p1, p2}
  Names = {n1, n2}
  Tags <- MCTags
  Comments = {c1, c2, c3}
  Files = {f1, f2}
  Null = Null
  Mixes <- MCMixes
  SeedTag <- MCSeedTag
  SeedComment <- MCSeedComment
  Level <- MCLevel
  Author = u1
  PageLimit = 1
  Pages <- MCPages
  PostRouteAuth = TRUE
  Faults = TRUE
SYMMETRY Symmetry
INVARIANTS
  TypeOK
  RowsAgree
  LikesTold
  GoneOnce
  ByRight
  CountTold
  PostShown
  FeedShown
