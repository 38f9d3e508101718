---------------------------- MODULE BoardProofs ----------------------------
(***************************************************************************)
(* Theorems about Board and their proofs: the rows agree, deletions are    *)
(* told once and final, and who deletes may.                               *)
(***************************************************************************)
EXTENDS Board, FiniteSetTheorems, TLAPS

(* What a request names is of the kind its handler takes, and a request that *)
(* has started has a handler.                                                *)
Fields(r) ==
  /\ pc[r] # "idle" <=> kind[r] # "none"
  /\ kind[r] \in UserKinds \cup TagKinds => user[r] \in Users
  /\ kind[r] \in PostKinds \cup {"getPost"} => post[r] \in Posts
  /\ kind[r] \in {"addTag", "createTag"} => arg[r] \in Names
  /\ kind[r] \in {"removeTag", "deleteTag", "getTag"} => arg[r] \in Tags
  /\ kind[r] \in {"edit", "deleteComment", "getComment"} => arg[r] \in Comments
  /\ kind[r] = "list" => arg[r] \in Pages
  /\ pc[r] = "gate" => kind[r] \in PostKinds
  /\ pc[r] \in {"idle", "gate", "role", "run"} => found[r] = Null
  /\ pc[r] = "insert" => kind[r] = "addTag"
  /\ pc[r] = "page" => kind[r] = "list" /\ found[r] \in Nat
  /\ pc[r] = "404" => kind[r] \in {"getPost", "getTag", "getComment"}

(* A gated handler runs, or is told that it succeeded, only if entitled to.  *)
Gated(r) ==
  kind[r] \in TagKinds \cup {"deletePost"} /\ pc[r] \in {"run", "201", "204"} => Entitled(r)

(* The tag addTag's subselect found has the name it looked for. *)
FoundNamed(r) ==
  pc[r] = "insert" /\ found[r] # Null => found[r] \in Tags /\ tagName[found[r]] = arg[r]

(* Ids are not used twice: of what was there at first, of what a request was *)
(* told it deleted, and of what it found.                                    *)
Spent ==
  /\ \A t \in Tags : SeedTag[t] # Null \/ t \in tags => tagName[t] # Null
  /\ \A c \in Comments : SeedComment[c] # Null => commentOf[c] # Null
  /\ \A r \in Requests : FoundNamed(r)
  /\ \A r \in Requests : Gone(r) =>
       /\ kind[r] = "deleteTag" => tagName[arg[r]] # Null
       /\ kind[r] = "deleteComment" => commentOf[arg[r]] # Null

(* The inductive invariant. *)
IInv ==
  /\ TypeOK
  /\ \A r \in Requests : Fields(r) /\ Gated(r)
  /\ Spent /\ RowsAgree /\ GoneOnce /\ ByRight

-----------------------------------------------------------------------------
(* A step of r that leaves every request as it is and moves r to l. *)
Step(r, l) == r \in Requests /\ pc[r] \in Active /\ Goto(r, l) /\ UNCHANGED request

(* How the tables may age: a post, and an id that is or was used, never comes *)
(* back.                                                                     *)
Ages ==
  /\ posts' \subseteq posts
  /\ \A t \in Tags :
       /\ tagName[t] # Null => tagName'[t] = tagName[t] /\ (t \in tags' => t \in tags)
       /\ t \in tags' => tagName'[t] # Null
  /\ \A c \in Comments :
       commentOf[c] # Null => commentOf'[c] = commentOf[c] /\ (c \in comments' => c \in comments)

LEMMA StepPc ==
  ASSUME NEW r, NEW l, TypeOK, Step(r, l)
  PROVE  /\ pc'[r] = l
         /\ \A q \in Requests \ {r} : pc'[q] = pc[q]
         /\ kind' = kind /\ user' = user /\ post' = post /\ arg' = arg
BY DEF TypeOK, Step, Goto, request

(* An answer keeps what is known of the fields and the gates. *)
LEMMA AnswerKeeps ==
  ASSUME IInv, NEW r, NEW l \in Answers, Step(r, l), found' = found,
         pc[r] \in {"run", "insert", "page"} \/ l \in {"403", "500"},
         l = "404" => kind[r] \in {"getPost", "getTag", "getComment"}
  PROVE  \A q \in Requests : (Fields(q) /\ Gated(q))'
<1>1. TypeOK /\ \A q \in Requests : Fields(q) /\ Gated(q)
  BY DEF IInv
<1>2. /\ pc'[r] = l /\ \A q \in Requests \ {r} : pc'[q] = pc[q]
      /\ kind' = kind /\ user' = user /\ post' = post /\ arg' = arg
  BY <1>1, StepPc
<1>3. r \in Requests /\ pc[r] \in Active
  BY DEF Step
<1>4. ASSUME NEW q \in Requests PROVE Fields(q)'
  BY <1>1, <1>2, <1>3 DEF Fields, Active, Answers
<1>5. ASSUME NEW q \in Requests PROVE Gated(q)'
  <2>1. Entitled(q)' <=> Entitled(q)
    BY <1>2 DEF Entitled, Allowed
  <2>2. CASE q # r
    BY <1>1, <1>2, <2>1, <2>2 DEF Gated
  <2>3. CASE q = r
    BY <1>1, <1>2, <1>3, <2>1, <2>3 DEF Gated, Fields, Active, TagKinds
  <2> QED
    BY <2>2, <2>3
<1> QED
  BY <1>4, <1>5

(* Deletions stay told once and final, if the step's own answer is true. *)
LEMMA AgesKeep ==
  ASSUME IInv, NEW r, NEW l, Step(r, l), Ages,
         \A q \in Requests \ {r} : found'[q] = found[q],
         l = "insert" => FoundNamed(r)',
         l = "204" /\ kind[r] \in {"deleteComment", "deleteTag", "deletePost"}
           => ~Absent(r) /\ Absent(r)',
         l = "404" => Absent(r)'
  PROVE  (Spent /\ GoneOnce)'
<1>1. TypeOK /\ Spent /\ GoneOnce /\ RowsAgree /\ \A q \in Requests : Fields(q)
  BY DEF IInv
<1>2. /\ pc'[r] = l /\ \A q \in Requests \ {r} : pc'[q] = pc[q]
      /\ kind' = kind /\ user' = user /\ post' = post /\ arg' = arg
  BY <1>1, StepPc
<1>3. ASSUME NEW q \in Requests, q # r, Gone(q) \/ (pc[q] = "404" /\ AtFirst(q))
      PROVE  Absent(q)'
  <2>1. Absent(q)
    BY <1>1, <1>3 DEF GoneOnce
  <2>2. /\ kind[q] \in {"deleteTag", "getTag"} => arg[q] \in Tags /\ tagName[arg[q]] # Null
        /\ kind[q] \in {"deleteComment", "getComment"} =>
             arg[q] \in Comments /\ commentOf[arg[q]] # Null
    BY <1>1, <1>3 DEF Fields, Spent, Gone, AtFirst
  <2> QED
    BY <1>2, <2>1, <2>2 DEF Absent, Ages
<1>4. ASSUME NEW q \in Requests, (Gone(q) \/ (pc[q] = "404" /\ AtFirst(q)))'
      PROVE  Absent(q)'
  BY <1>2, <1>3, <1>4 DEF Gone, AtFirst
<1>5. ASSUME NEW p \in Requests, NEW q \in Requests, p # q, Gone(p)', Gone(q)', kind[p] = kind[q]
      PROVE  Target(p)' # Target(q)'
  <2>1. CASE p # r /\ q # r
    BY <1>1, <1>2, <1>5, <2>1 DEF GoneOnce, Gone, Target
  <2>2. ASSUME NEW u \in Requests, u # r, Gone(u)', Gone(r)', kind[u] = kind[r]
        PROVE  Target(u)' # Target(r)'
    <3>1. Gone(u)
      BY <1>2, <2>2 DEF Gone
    <3>2. Absent(u)
      BY <1>1, <3>1 DEF GoneOnce
    <3>3. ~Absent(r)
      BY <1>2, <2>2 DEF Gone
    <3> QED
      BY <1>2, <2>2, <3>1, <3>2, <3>3 DEF Absent, Target, Gone
  <2> QED
    BY <1>5, <2>1, <2>2 DEF Step
<1>6. GoneOnce'
  BY <1>2, <1>4, <1>5 DEF GoneOnce
<1>7. /\ \A t \in Tags : SeedTag[t] # Null \/ t \in tags' => tagName'[t] # Null
      /\ \A c \in Comments : SeedComment[c] # Null => commentOf'[c] # Null
  BY <1>1 DEF Spent, Ages
<1>8. ASSUME NEW q \in Requests, Gone(q)'
      PROVE  /\ kind[q] = "deleteTag" => tagName'[arg[q]] # Null
             /\ kind[q] = "deleteComment" => commentOf'[arg[q]] # Null
  <2>1. CASE q # r
    BY <1>1, <1>2, <1>8, <2>1 DEF Gone, Spent, Fields, Ages
  <2>2. CASE q = r
    <3>1. ~Absent(r)
      BY <1>2, <1>8, <2>2 DEF Gone
    <3>2. /\ kind[r] = "deleteTag" => arg[r] \in Tags /\ tagName[arg[r]] # Null
          /\ kind[r] = "deleteComment" => arg[r] \in Comments /\ commentOf[arg[r]] \in posts
      BY <1>1, <3>1, <2>2 DEF Absent, Fields, Spent, RowsAgree
    <3> QED
      BY <1>1, <2>2, <3>2, BoardAssumption DEF Ages, TypeOK, BoardAssumption
  <2> QED
    BY <2>1, <2>2
<1>9. ASSUME NEW q \in Requests PROVE FoundNamed(q)'
  <2>1. CASE q # r
    <3>1. pc'[q] = "insert" /\ found'[q] # Null =>
            arg[q] \in Names /\ found[q] \in Tags /\ tagName[found[q]] = arg[q]
      BY <1>1, <1>2, <2>1 DEF Spent, FoundNamed, Fields
    <3>2. Null \notin Names
      BY BoardAssumption DEF BoardAssumption
    <3>3. pc'[q] = "insert" /\ found'[q] # Null =>
            tagName'[found[q]] = tagName[found[q]]
      BY <3>1, <3>2 DEF Ages
    <3> QED
      BY <1>2, <2>1, <3>1, <3>3 DEF FoundNamed
  <2>2. CASE q = r
    BY <1>2, <2>2 DEF FoundNamed
  <2> QED
    BY <2>1, <2>2
<1> QED
  BY <1>2, <1>6, <1>7, <1>8, <1>9 DEF Spent

(* Who was entitled to what is gone stays known. *)
LEMMA RightKept ==
  ASSUME IInv, NEW r, NEW l, Step(r, l), TypeOK',
         \A p \in posts \ posts' : kind[r] = "deletePost" /\ post[r] = p /\ Entitled(r),
         \A t \in Tags : tagName'[t] # Null /\ t \notin tags' =>
           \/ tagName[t] # Null /\ t \notin tags
           \/ kind[r] = "deleteTag" /\ arg[r] = t /\ Entitled(r),
         kind[r] = "createTag" /\ l = "201" => Entitled(r)
  PROVE  ByRight'
<1>1. TypeOK /\ ByRight /\ \A q \in Requests : Fields(q)
  BY DEF IInv
<1>2. /\ pc'[r] = l /\ \A q \in Requests \ {r} : pc'[q] = pc[q]
      /\ kind' = kind /\ user' = user /\ post' = post /\ arg' = arg
  BY <1>1, StepPc
<1>3. r \in Requests
  BY DEF Step
<1>4. ASSUME NEW p \in Posts \ posts'
      PROVE  \E q \in Requests : /\ kind[q] = "deletePost" /\ post[q] = p
                                 /\ user[q] = Author \/ Level[user[q]] >= Admin
  BY <1>1, <1>3 DEF ByRight, Entitled, Allowed
<1>5. ASSUME NEW t \in Tags \ tags', tagName'[t] # Null
      PROVE  \E q \in Requests :
               kind[q] = "deleteTag" /\ arg[q] = t /\ Level[user[q]] >= Moderator
  BY <1>1, <1>3, <1>5 DEF ByRight, Entitled, Allowed
<1>6. ASSUME NEW q \in Requests, kind[q] = "createTag", pc'[q] = "201"
      PROVE  Level[user[q]] >= Moderator
  BY <1>1, <1>2, <1>6 DEF ByRight, Entitled, Allowed
<1> QED
  BY <1>2, <1>4, <1>5, <1>6 DEF ByRight

-----------------------------------------------------------------------------
(* The tables have their types, and a step keeps those of the requests. *)
RowTypes ==
  /\ posts \subseteq Posts
  /\ likes \subseteq [user : Users, post : Posts]
  /\ tags \subseteq Tags /\ tagName \in [Tags -> Names \cup {Null}]
  /\ postTags \subseteq [post : Posts, tag : Tags, name : Names]
  /\ comments \subseteq Comments /\ commentOf \in [Comments -> Posts \cup {Null}]

LEMMA StepTypes ==
  ASSUME TypeOK, NEW r, NEW l \in Active \cup Answers, Step(r, l), RowTypes',
         found' \in [Requests -> Tags \cup Nat \cup {Null}],
         moved' \in [Requests -> Nat], got' \in [Requests -> Nat \cup {-1, Null}]
  PROVE  TypeOK'
BY DEF TypeOK, Step, Goto, request, RowTypes

LEMMA BumpType ==
  ASSUME TypeOK, NEW cs, cs \subseteq Comments, Bump(cs)
  PROVE  moved' \in [Requests -> Nat]
<1>1. ASSUME NEW q \in Requests
      PROVE  Cardinality({c \in cs : commentOf'[c] = post[q]}) \in Nat
  <2>1. IsFiniteSet({c \in cs : commentOf'[c] = post[q]})
    BY FS_Subset, BoardAssumption DEF BoardAssumption
  <2> QED
    BY <2>1, FS_CardinalityType
<1> QED
  BY <1>1 DEF Bump, TypeOK

(* Steps that leave the tables alone. *)
LEMMA RowsStay ==
  ASSUME IInv, NEW r, NEW l \in (Active \cup Answers) \ {"201", "204"}, Step(r, l), UNCHANGED rows,
         \A q \in Requests \ {r} : found'[q] = found[q], l = "insert" => FoundNamed(r)',
         l = "404" => Absent(r), TypeOK'
  PROVE  (Spent /\ RowsAgree /\ GoneOnce /\ ByRight)'
<1>1. TypeOK /\ Spent /\ RowsAgree /\ ByRight
  BY DEF IInv
<1>2. Ages
  BY <1>1, BoardAssumption DEF Ages, rows, TypeOK, Spent, RowsAgree, BoardAssumption
<1>3. Absent(r)' <=> Absent(r)
  BY <1>1, StepPc DEF Absent, rows
<1>4. (Spent /\ GoneOnce)'
  BY <1>2, <1>3, AgesKeep
<1>5. ByRight'
  BY <1>1, RightKept DEF rows
<1>6. RowsAgree'
  BY <1>1 DEF RowsAgree, rows
<1> QED
  BY <1>4, <1>5, <1>6

-----------------------------------------------------------------------------
(* A step that answers. *)
LEMMA AnswerStep ==
  ASSUME IInv, NEW r, NEW l \in Answers, Step(r, l), RowTypes', Ages, RowsAgree',
         found' = found,
         moved' \in [Requests -> Nat], got' \in [Requests -> Nat \cup {-1, Null}],
         pc[r] \in {"run", "insert", "page"},
         l = "404" => kind[r] \in {"getPost", "getTag", "getComment"} /\ Absent(r)',
         l = "204" /\ kind[r] \in {"deleteComment", "deleteTag", "deletePost"}
           => ~Absent(r) /\ Absent(r)',
         \A p \in posts \ posts' : kind[r] = "deletePost" /\ post[r] = p /\ Entitled(r),
         \A t \in Tags : tagName'[t] # Null /\ t \notin tags' =>
           \/ tagName[t] # Null /\ t \notin tags
           \/ kind[r] = "deleteTag" /\ arg[r] = t /\ Entitled(r),
         kind[r] = "createTag" /\ l = "201" => Entitled(r)
  PROVE  IInv'
<1>1. TypeOK
  BY DEF IInv
<1>2. TypeOK'
  BY <1>1, StepTypes DEF TypeOK
<1>3. \A q \in Requests : (Fields(q) /\ Gated(q))'
  BY AnswerKeeps
<1>4. (Spent /\ GoneOnce)'
  BY AgesKeep DEF Answers
<1>5. ByRight'
  BY <1>2, RightKept
<1> QED
  BY <1>2, <1>3, <1>4, <1>5 DEF IInv

(* A step that answers and leaves the tables alone. *)
LEMMA QuietAnswer ==
  ASSUME IInv, NEW r, NEW l \in Answers \ {"201", "204"}, Step(r, l), UNCHANGED rows,
         found' = found, moved' = moved, got' \in [Requests -> Nat \cup {-1, Null}],
         pc[r] \in {"run", "insert", "page"} \/ l \in {"403", "500"},
         l = "404" => kind[r] \in {"getPost", "getTag", "getComment"} /\ Absent(r)
  PROVE  IInv'
<1>1. TypeOK
  BY DEF IInv
<1>2. RowTypes'
  BY <1>1 DEF TypeOK, RowTypes, rows
<1>3. TypeOK'
  BY <1>1, <1>2, StepTypes DEF TypeOK
<1>4. \A q \in Requests : (Fields(q) /\ Gated(q))'
  BY AnswerKeeps
<1>5. (Spent /\ RowsAgree /\ GoneOnce /\ ByRight)'
  BY <1>3, RowsStay DEF Answers
<1> QED
  BY <1>3, <1>4, <1>5 DEF IInv

(* A step to the next part of a handler. *)
LEMMA GoesOn ==
  ASSUME IInv, NEW r, NEW l \in {"role", "run", "insert", "page"}, Step(r, l),
         UNCHANGED <<rows, moved, got>>,
         found' \in [Requests -> Tags \cup Nat \cup {Null}],
         \A q \in Requests \ {r} : found'[q] = found[q],
         pc[r] \in {"gate", "role", "run"}, l \in {"role", "run"} => found' = found, l = "insert" => FoundNamed(r)',
         l = "run" /\ kind[r] \in TagKinds \cup {"deletePost"} => Entitled(r),
         l = "insert" => kind[r] = "addTag",
         l = "page" => kind[r] = "list" /\ found'[r] \in Nat
  PROVE  IInv'
<1>1. TypeOK /\ \A q \in Requests : Fields(q) /\ Gated(q)
  BY DEF IInv
<1>2. /\ pc'[r] = l /\ \A q \in Requests \ {r} : pc'[q] = pc[q]
      /\ kind' = kind /\ user' = user /\ post' = post /\ arg' = arg
  BY <1>1, StepPc
<1>3. r \in Requests /\ pc[r] \in Active
  BY DEF Step
<1>4. TypeOK'
  <2>1. RowTypes' /\ l \in Active
    BY <1>1 DEF TypeOK, RowTypes, rows, Active
  <2> QED
    BY <1>1, <2>1, StepTypes DEF TypeOK
<1>5. ASSUME NEW q \in Requests PROVE Fields(q)'
  BY <1>1, <1>2, <1>3 DEF Fields, Active
<1>6. ASSUME NEW q \in Requests PROVE Gated(q)'
  <2>1. Entitled(q)' <=> Entitled(q)
    BY <1>2 DEF Entitled, Allowed
  <2> QED
    BY <1>1, <1>2, <2>1 DEF Gated
<1>7. (Spent /\ RowsAgree /\ GoneOnce /\ ByRight)'
  BY <1>4, RowsStay DEF Active
<1> QED
  BY <1>4, <1>5, <1>6, <1>7 DEF IInv

-----------------------------------------------------------------------------
LEMMA PostContextKeeps ==
  ASSUME IInv, NEW r \in Requests, PostContext(r) PROVE IInv'
<1>1. TypeOK /\ Fields(r) /\ pc[r] \in Active
  BY DEF IInv, PostContext, Active
<1>2. CASE Goto(r, "500")
  BY <1>1, <1>2, QuietAnswer DEF PostContext, Step, Answers, answer, TypeOK
<1>3. CASE Goto(r, "role")
  BY <1>1, <1>3, GoesOn DEF PostContext, Step, answer, TypeOK
<1>4. CASE kind[r] # "deletePost" /\ Goto(r, "run")
  <2>1. kind[r] \notin TagKinds
    BY <1>1 DEF PostContext, Fields, PostKinds, UserKinds, TagKinds
  <2> QED
    BY <1>1, <1>4, <2>1, GoesOn DEF PostContext, Step, answer, TypeOK
<1> QED
  BY <1>2, <1>3, <1>4 DEF PostContext, MissingPost
LEMMA CheckRoleKeeps ==
  ASSUME IInv, NEW r \in Requests, CheckRole(r) PROVE IInv'
<1>1. TypeOK /\ pc[r] \in Active
  BY DEF IInv, CheckRole, Active
<1>2. CASE Entitled(r) /\ Goto(r, "run")
  BY <1>1, <1>2, GoesOn DEF CheckRole, Step, answer, TypeOK
<1>3. ASSUME NEW l \in {"403", "500"}, Goto(r, l) PROVE IInv'
  BY <1>1, <1>3, QuietAnswer DEF CheckRole, Step, Answers, answer, TypeOK
<1> QED
  BY <1>2, <1>3 DEF CheckRole

LEMMA FindTagKeeps ==
  ASSUME IInv, NEW r \in Requests, FindTag(r) PROVE IInv'
<1>1. /\ TypeOK /\ pc[r] \in Active /\ pc[r] = "run" /\ kind[r] = "addTag"
      /\ Goto(r, "insert")
  BY DEF IInv, FindTag, Serves, Active
<1>2. /\ found' \in [Requests -> Tags \cup Nat \cup {Null}]
      /\ \A q \in Requests \ {r} : found'[q] = found[q]
  BY <1>1 DEF FindTag, TypeOK
<1>3. FoundNamed(r)'
  <2>1. found[r] = Null /\ arg' = arg
    BY <1>1 DEF IInv, Fields, FindTag, Serves, request
  <2>2. \/ found' = found
        \/ \E t \in tags : tagName[t] = arg[r] /\ found' = [found EXCEPT ![r] = t]
    BY DEF FindTag
  <2>3. tags \subseteq Tags /\ tagName' = tagName
    BY <1>1 DEF FindTag, rows, TypeOK
  <2> QED
    BY <1>1, <2>1, <2>2, <2>3 DEF FoundNamed, TypeOK
<1> QED
  BY <1>1, <1>2, <1>3, GoesOn DEF FindTag, Step

LEMMA CountCommentsKeeps ==
  ASSUME IInv, NEW r \in Requests, CountComments(r) PROVE IInv'
<1>1. TypeOK /\ pc[r] \in Active /\ pc[r] = "run" /\ kind[r] = "list"
  BY DEF IInv, CountComments, Serves, Active
<1>2. CASE Goto(r, "500") /\ UNCHANGED found
  BY <1>1, <1>2, QuietAnswer DEF CountComments, Step, Answers, TypeOK
<1>3. CASE Goto(r, "page") /\ found' = [found EXCEPT ![r] = Cardinality(CommentsOf(post[r]))]
  <2>1. Cardinality(CommentsOf(post[r])) \in Nat
    <3>1. IsFiniteSet(CommentsOf(post[r]))
      BY <1>1, FS_Subset, BoardAssumption DEF BoardAssumption, CommentsOf, TypeOK
    <3> QED
      BY <3>1, FS_CardinalityType
  <2>2. /\ found' \in [Requests -> Tags \cup Nat \cup {Null}]
        /\ \A q \in Requests \ {r} : found'[q] = found[q]
        /\ found'[r] \in Nat
    BY <1>1, <1>3, <2>1 DEF TypeOK
  <2> QED
    BY <1>1, <1>3, <2>2, GoesOn DEF CountComments, Step
<1> QED
  BY <1>2, <1>3 DEF CountComments

LEMMA PageCommentsKeeps ==
  ASSUME IInv, NEW r \in Requests, PageComments(r) PROVE IInv'
<1>1. TypeOK /\ pc[r] = "page" /\ pc[r] \in Active
  BY DEF IInv, PageComments, Active
<1>2. CASE Goto(r, "500") /\ UNCHANGED got
  BY <1>1, <1>2, QuietAnswer DEF PageComments, Step, Answers, TypeOK
<1>3. CASE Offset(arg[r]) >= 0 /\ Goto(r, "200")
  <2>1. kind[r] = "list" /\ Offset(arg[r]) \in Int
    <3>1. kind[r] = "list" /\ arg[r] \in Pages
      BY <1>1 DEF IInv, Fields
    <3>2. arg[r] \in Int /\ PageLimit \in Int
      <4>1. Pages \subseteq Int /\ PageLimit \in Nat
        BY BoardAssumption, Zenon DEF BoardAssumption
      <4>2. arg[r] \in Int
        BY <3>1, <4>1, Zenon
      <4> QED
        BY <4>1, <4>2
    <3>3. \A i, j \in Int : (i - 1) * j \in Int
      OBVIOUS
    <3> QED
      BY <3>1, <3>2, <3>3 DEF Offset
  <2>2. Cardinality(CommentsOf(post[r])) \in Nat
    <3>1. IsFiniteSet(CommentsOf(post[r]))
      BY <1>1, FS_Subset, BoardAssumption DEF BoardAssumption, CommentsOf, TypeOK
    <3> QED
      BY <3>1, FS_CardinalityType
  <2>3. PageLength(Cardinality(CommentsOf(post[r])), Offset(arg[r])) \in Nat
    BY <1>3, <2>1, <2>2, BoardAssumption DEF PageLength, BoardAssumption
  <2>4. got' \in [Requests -> Nat \cup {-1, Null}]
    <3>1. PICK n \in {PageLength(Cardinality(CommentsOf(post[r])), Offset(arg[r]))}
                        \cup IF Faults THEN {-1} ELSE {} : got' = [got EXCEPT ![r] = n]
                                                           \/ UNCHANGED got
      BY <1>1, <1>3 DEF PageComments
    <3> QED
      BY <1>1, <2>3, <3>1 DEF TypeOK
  <2> QED
    BY <1>1, <1>3, <2>1, <2>4, QuietAnswer DEF PageComments, Step, Answers
<1> QED
  BY <1>2, <1>3 DEF PageComments

LEMMA UpdateCommentKeeps ==
  ASSUME IInv, NEW r \in Requests, UpdateComment(r) PROVE IInv'
<1>1. TypeOK /\ pc[r] = "run" /\ pc[r] \in Active /\ UNCHANGED <<rows, request, answer>>
  BY DEF IInv, UpdateComment, Serves, Active
<1>2. PICK l \in {"200", "500"} : Goto(r, l)
  BY DEF UpdateComment, Tell
<1> QED
  BY <1>1, <1>2, QuietAnswer DEF Step, Answers, answer, TypeOK

LEMMA ReadKeeps ==
  ASSUME IInv, NEW r \in Requests, Read(r) PROVE IInv'
<1>1. TypeOK /\ pc[r] = "run" /\ pc[r] \in Active /\ UNCHANGED <<rows, request, answer>>
  BY DEF IInv, Read, Active
<1>2. PICK l \in {"200", "404", "500"} : Goto(r, l) /\ (l = "404" => ~There(r))
  BY DEF Read
<1>3. l = "404" => kind[r] \in {"getPost", "getTag", "getComment"} /\ Absent(r)
  BY <1>2 DEF Read, OtherKinds, There, Absent
<1> QED
  BY <1>1, <1>2, <1>3, QuietAnswer DEF Step, Answers, answer, TypeOK
-----------------------------------------------------------------------------
(* Nothing new: the tables age. *)
LEMMA NothingNew ==
  ASSUME IInv, posts' \subseteq posts, tags' \subseteq tags, comments' \subseteq comments,
         UNCHANGED <<tagName, commentOf>>
  PROVE  Ages
BY DEF IInv, Ages, Spent

LEMMA AddLikeKeeps ==
  ASSUME IInv, NEW r \in Requests, AddLike(r) PROVE IInv'
<1>1. /\ TypeOK /\ RowsAgree /\ Fields(r)
      /\ pc[r] = "run" /\ pc[r] \in Active /\ kind[r] = "like"
      /\ UNCHANGED <<posts, tags, tagName, postTags, comments, commentOf, request, answer>>
  BY DEF IInv, AddLike, Serves, Active
<1>2. PICK l \in {"201", "400", "500"} : Goto(r, l)
  BY DEF AddLike, Tell
<1>3. likes' = likes \/ (likes' = likes \cup {Like(r)} /\ post[r] \in posts)
  BY DEF AddLike
<1>4. RowTypes' /\ RowsAgree'
  BY <1>1, <1>3 DEF RowTypes, RowsAgree, TypeOK, Like, Fields, PostKinds, UserKinds
<1>5. Ages
  BY <1>1, NothingNew
<1> QED
  BY <1>1, <1>2, <1>4, <1>5, AnswerStep DEF Step, Answers, answer, TypeOK

LEMMA RemoveLikeKeeps ==
  ASSUME IInv, NEW r \in Requests, RemoveLike(r) PROVE IInv'
<1>1. /\ TypeOK /\ RowsAgree
      /\ pc[r] = "run" /\ pc[r] \in Active /\ kind[r] = "unlike"
      /\ UNCHANGED <<posts, tags, tagName, postTags, comments, commentOf, request, answer>>
  BY DEF IInv, RemoveLike, Serves, Active
<1>2. PICK l \in {"204", "500"} : Goto(r, l)
  BY DEF RemoveLike, Tell
<1>3. likes' \subseteq likes
  BY DEF RemoveLike
<1>4. RowTypes' /\ RowsAgree'
  BY <1>1, <1>3 DEF RowTypes, RowsAgree, TypeOK
<1>5. Ages
  BY <1>1, NothingNew
<1> QED
  BY <1>1, <1>2, <1>4, <1>5, AnswerStep DEF Step, Answers, answer, TypeOK

LEMMA AddTagKeeps ==
  ASSUME IInv, NEW r \in Requests, AddTag(r) PROVE IInv'
<1>1. /\ TypeOK /\ RowsAgree /\ Fields(r)
      /\ pc[r] = "insert" /\ pc[r] \in Active /\ kind[r] = "addTag"
      /\ UNCHANGED <<posts, likes, tags, tagName, comments, commentOf, request, answer>>
  BY DEF IInv, AddTag, Fields, Active
<1>2. PICK l \in {"201", "409", "500"} : Goto(r, l)
  BY DEF AddTag, Tell
<1>3. \/ postTags' = postTags
      \/ /\ postTags' = postTags \cup {[post |-> post[r], tag |-> found[r], name |-> arg[r]]}
         /\ Referenced(r)
  BY DEF AddTag
<1>4. RowTypes' /\ RowsAgree'
  <2>1. CASE postTags' = postTags
    BY <1>1, <2>1 DEF RowTypes, RowsAgree, TypeOK
  <2>2. CASE /\ postTags' = postTags \cup {[post |-> post[r], tag |-> found[r], name |-> arg[r]]}
             /\ Referenced(r)
    <3>1. post[r] \in posts /\ found[r] \in tags /\ arg[r] \in Names
      BY <1>1, <2>2 DEF Referenced, Fields
    <3>2. tagName[found[r]] = arg[r]
      <4>1. found[r] # Null
        BY <1>1, <3>1, BoardAssumption DEF BoardAssumption, TypeOK
      <4> QED
        BY <1>1, <4>1 DEF IInv, Spent, FoundNamed
    <3> QED
      BY <1>1, <2>2, <3>1, <3>2 DEF RowTypes, RowsAgree, TypeOK
  <2> QED
    BY <1>3, <2>1, <2>2
<1>5. Ages
  BY <1>1, NothingNew
<1> QED
  BY <1>1, <1>2, <1>4, <1>5, AnswerStep DEF Step, Answers, answer, TypeOK
LEMMA RemoveTagKeeps ==
  ASSUME IInv, NEW r \in Requests, RemoveTag(r) PROVE IInv'
<1>1. /\ TypeOK /\ RowsAgree
      /\ pc[r] = "run" /\ pc[r] \in Active /\ kind[r] = "removeTag"
      /\ UNCHANGED <<posts, likes, tags, tagName, comments, commentOf, request, answer>>
  BY DEF IInv, RemoveTag, Serves, Active
<1>2. PICK l \in {"204", "500"} : Goto(r, l)
  BY DEF RemoveTag, Tell
<1>3. postTags' \subseteq postTags
  BY DEF RemoveTag
<1>4. RowTypes' /\ RowsAgree'
  BY <1>1, <1>3 DEF RowTypes, RowsAgree, TypeOK
<1>5. Ages
  BY <1>1, NothingNew
<1> QED
  BY <1>1, <1>2, <1>4, <1>5, AnswerStep DEF Step, Answers, answer, TypeOK

LEMMA CreateTagKeeps ==
  ASSUME IInv, NEW r \in Requests, CreateTag(r) PROVE IInv'
<1>1. /\ TypeOK /\ RowsAgree /\ Spent /\ Fields(r) /\ Gated(r)
      /\ pc[r] = "run" /\ pc[r] \in Active /\ kind[r] = "createTag"
      /\ UNCHANGED <<posts, likes, postTags, comments, commentOf, request, answer>>
  BY DEF IInv, CreateTag, Serves, Active
<1>2. Entitled(r) /\ arg[r] \in Names /\ arg[r] # Null
  BY <1>1, BoardAssumption DEF Gated, Fields, TagKinds, BoardAssumption
<1>3. PICK l \in {"201", "409", "500"} : Goto(r, l)
  BY DEF CreateTag, Tell
<1>4. CASE UNCHANGED <<tags, tagName>>
  <2>1. RowTypes' /\ RowsAgree'
    BY <1>1, <1>4 DEF RowTypes, RowsAgree, TypeOK
  <2>2. Ages
    BY <1>1, <1>4, NothingNew
  <2> QED
    BY <1>1, <1>2, <1>3, <1>4, <2>1, <2>2, AnswerStep DEF Step, Answers, answer, TypeOK
<1>5. ASSUME NEW t \in Tags, tagName[t] = Null, \A s \in tags : tagName[s] # arg[r],
             tags' = tags \cup {t}, tagName' = [tagName EXCEPT ![t] = arg[r]]
      PROVE  IInv'
  <2>1. t \notin tags
    BY <1>1, <1>5 DEF Spent
  <2>2. \A s \in Tags : tagName'[s] = IF s = t THEN arg[r] ELSE tagName[s]
    BY <1>1, <1>5 DEF TypeOK
  <2>3. RowTypes'
    BY <1>1, <1>2, <1>5 DEF RowTypes, TypeOK
  <2>4. RowsAgree'
    BY <1>1, <1>5, <2>1, <2>2 DEF RowsAgree, TypeOK
  <2>5. Ages
    BY <1>1, <1>2, <1>5, <2>2 DEF Ages, Spent
  <2> QED
    BY <1>1, <1>2, <1>3, <1>5, <2>2, <2>3, <2>4, <2>5, AnswerStep
    DEF Step, Answers, answer, TypeOK
<1> QED
  BY <1>4, <1>5 DEF CreateTag

LEMMA DeleteTagKeeps ==
  ASSUME IInv, NEW r \in Requests, DeleteTag(r) PROVE IInv'
<1>1. /\ TypeOK /\ RowsAgree /\ Fields(r) /\ Gated(r)
      /\ pc[r] = "run" /\ pc[r] \in Active /\ kind[r] = "deleteTag"
      /\ UNCHANGED <<posts, likes, tagName, comments, commentOf, request, answer>>
  BY DEF IInv, DeleteTag, Serves, Active
<1>2. Entitled(r) /\ arg[r] \in Tags
  BY <1>1 DEF Gated, Fields, TagKinds
<1>3. PICK l \in {"204", "500"} :
        /\ Goto(r, l)
        /\ l = "204" => arg[r] \in tags /\ tags' = tags \ {arg[r]}
  BY DEF DeleteTag, Tell
<1>4. \/ UNCHANGED <<tags, postTags>>
      \/ tags' = tags \ {arg[r]} /\ postTags' = postTags \ Hanging(arg[r])
  BY DEF DeleteTag
<1>5. RowTypes' /\ RowsAgree'
  BY <1>1, <1>4 DEF RowTypes, RowsAgree, TypeOK, Hanging
<1>6. Ages
  BY <1>1, <1>4, NothingNew
<1>7. l = "204" => ~Absent(r) /\ Absent(r)'
  BY <1>1, <1>3 DEF Absent, request
<1> QED
  BY <1>1, <1>2, <1>3, <1>4, <1>5, <1>6, <1>7, AnswerStep DEF Step, Answers, answer, TypeOK

LEMMA CreateCommentKeeps ==
  ASSUME IInv, NEW r \in Requests, CreateComment(r) PROVE IInv'
<1>1. /\ TypeOK /\ RowsAgree /\ Spent /\ Fields(r)
      /\ pc[r] = "run" /\ pc[r] \in Active /\ kind[r] = "comment"
      /\ UNCHANGED <<posts, likes, tags, tagName, postTags, request, found, got>>
  BY DEF IInv, CreateComment, Serves, Active
<1>2. PICK l \in {"201", "500"} : Goto(r, l)
  BY DEF CreateComment, Tell
<1>3. CASE UNCHANGED <<comments, commentOf, moved>>
  <2>1. RowTypes' /\ RowsAgree'
    BY <1>1, <1>3 DEF RowTypes, RowsAgree, TypeOK
  <2>2. Ages
    BY <1>1, <1>3, NothingNew
  <2> QED
    BY <1>1, <1>2, <1>3, <2>1, <2>2, AnswerStep DEF Step, Answers, answer, TypeOK
<1>4. ASSUME NEW c \in Comments, commentOf[c] = Null, post[r] \in posts,
             comments' = comments \cup {c}, commentOf' = [commentOf EXCEPT ![c] = post[r]],
             Bump({c})
      PROVE  IInv'
  <2>1. c \notin comments
    BY <1>1, <1>4, BoardAssumption DEF RowsAgree, TypeOK, BoardAssumption
  <2>2. \A d \in Comments : commentOf'[d] = IF d = c THEN post[r] ELSE commentOf[d]
    BY <1>1, <1>4 DEF TypeOK
  <2>3. RowTypes'
    BY <1>1, <1>4 DEF RowTypes, TypeOK
  <2>4. RowsAgree'
    BY <1>1, <1>4, <2>2 DEF RowsAgree, TypeOK
  <2>5. Ages
    BY <1>1, <1>4, <2>2 DEF Ages, Spent
  <2>6. moved' \in [Requests -> Nat]
    BY <1>1, <1>4, BumpType
  <2> QED
    BY <1>1, <1>2, <2>3, <2>4, <2>5, <2>6, AnswerStep DEF Step, Answers, answer, TypeOK
<1> QED
  BY <1>3, <1>4 DEF CreateComment

LEMMA DeleteCommentKeeps ==
  ASSUME IInv, NEW r \in Requests, DeleteComment(r) PROVE IInv'
<1>1. /\ TypeOK /\ RowsAgree /\ Fields(r)
      /\ pc[r] = "run" /\ pc[r] \in Active /\ kind[r] = "deleteComment"
      /\ UNCHANGED <<posts, likes, tags, tagName, postTags, commentOf, request, found, got>>
  BY DEF IInv, DeleteComment, Serves, Active
<1>2. PICK l \in {"204", "500"} :
        /\ Goto(r, l)
        /\ l = "204" => arg[r] \in comments /\ comments' = comments \ {arg[r]}
  BY DEF DeleteComment, Tell, GoneNow
<1>3. \/ UNCHANGED <<comments, moved>>
      \/ arg[r] \in comments /\ comments' = comments \ {arg[r]} /\ Bump({arg[r]})
  BY DEF DeleteComment
<1>4. RowTypes' /\ RowsAgree'
  BY <1>1, <1>3 DEF RowTypes, RowsAgree, TypeOK
<1>5. Ages
  BY <1>1, <1>3, NothingNew
<1>6. l = "204" => ~Absent(r) /\ Absent(r)'
  BY <1>1, <1>2 DEF Absent, request
<1>7. moved' \in [Requests -> Nat]
  <2>1. CASE UNCHANGED moved
    BY <1>1, <2>1 DEF TypeOK
  <2>2. CASE arg[r] \in comments /\ Bump({arg[r]})
    BY <1>1, <2>2, BumpType DEF TypeOK
  <2> QED
    BY <1>3, <2>1, <2>2
<1> QED
  BY <1>1, <1>2, <1>4, <1>5, <1>6, <1>7, AnswerStep DEF Step, Answers, answer, TypeOK

LEMMA DeletePostKeeps ==
  ASSUME IInv, NEW r \in Requests, DeletePost(r) PROVE IInv'
<1>1. /\ TypeOK /\ RowsAgree /\ Fields(r) /\ Gated(r)
      /\ pc[r] = "run" /\ pc[r] \in Active /\ kind[r] = "deletePost"
      /\ UNCHANGED <<tags, tagName, commentOf, request, found, got>>
  BY DEF IInv, DeletePost, Serves, Active
<1>2. Entitled(r) /\ post[r] \in Posts
  BY <1>1 DEF Gated, Fields, PostKinds, UserKinds
<1>3. CASE Goto(r, "500") /\ UNCHANGED <<posts, likes, postTags, comments, commentOf, moved>>
  <2>1. UNCHANGED rows
    BY <1>1, <1>3 DEF rows
  <2> QED
    BY <1>1, <1>3, <2>1, QuietAnswer DEF Step, Answers, TypeOK
<1>4. CASE /\ post[r] \in posts /\ posts' = posts \ {post[r]}
           /\ likes' = likes \ LikesOf(post[r])
           /\ postTags' = postTags \ OfPost(post[r])
           /\ comments' = comments \ CommentsOf(post[r])
           /\ Bump(CommentsOf(post[r])) /\ \E l \in {"204", "500"} : Goto(r, l)
  <2>1. PICK l \in {"204", "500"} : Goto(r, l)
    BY <1>4
  <2>2. RowTypes'
    BY <1>1, <1>4 DEF RowTypes, TypeOK
  <2>3. RowsAgree'
    BY <1>1, <1>4 DEF RowsAgree, LikesOf, OfPost, CommentsOf, TypeOK
  <2>4. Ages
    BY <1>1, <1>4, NothingNew
  <2>5. ~Absent(r) /\ Absent(r)'
    BY <1>1, <1>4 DEF Absent, request
  <2>6. moved' \in [Requests -> Nat]
    BY <1>1, <1>4, BumpType DEF CommentsOf, TypeOK
  <2> QED
    BY <1>1, <1>2, <1>4, <2>1, <2>2, <2>3, <2>4, <2>5, <2>6, AnswerStep
    DEF Step, Answers, answer, TypeOK
<1> QED
  BY <1>3, <1>4 DEF DeletePost
LEMMA StartKeeps ==
  ASSUME IInv, NEW r \in Requests, Start(r) PROVE IInv'
<1>1. /\ TypeOK /\ Spent /\ RowsAgree /\ GoneOnce /\ ByRight
      /\ \A q \in Requests : Fields(q) /\ Gated(q)
      /\ pc[r] = "idle" /\ UNCHANGED <<rows, answer>>
  BY DEF IInv, Start
<1>2. kind[r] = "none"
  BY <1>1 DEF Fields
<1>3. PICK k \in AllKinds, a \in Names \cup Tags \cup Comments \cup Pages \cup {Null},
           u \in Users \cup {Null}, p \in Posts \cup {Null}, l \in {"gate", "role", "run"} :
        /\ kind' = [kind EXCEPT ![r] = k] /\ arg' = [arg EXCEPT ![r] = a]
        /\ user' = [user EXCEPT ![r] = u] /\ post' = [post EXCEPT ![r] = p]
        /\ pc' = [pc EXCEPT ![r] = l]
        /\ a \in Args(k)
        /\ k \in UserKinds \cup TagKinds => u \in Users
        /\ k \in PostKinds \cup {"getPost"} => p \in Posts
        /\ l = "gate" => k \in PostKinds
        /\ l = "run" => k \notin PostKinds \cup TagKinds
  <2>1. PICK k \in AllKinds :
          /\ kind' = [kind EXCEPT ![r] = k]
          /\ \E a \in Args(k) : arg' = [arg EXCEPT ![r] = a]
          /\ \E u \in IF k \in UserKinds \cup TagKinds THEN Users ELSE {Null} :
               user' = [user EXCEPT ![r] = u]
          /\ \E p \in IF k \in PostKinds \cup {"getPost"} THEN Posts ELSE {Null} :
               post' = [post EXCEPT ![r] = p]
          /\ Goto(r, IF k \in PostKinds THEN "gate" ELSE IF k \in TagKinds THEN "role" ELSE "run")
    BY DEF Start
  <2>2. PICK a \in Args(k) : arg' = [arg EXCEPT ![r] = a]
    BY <2>1
  <2>3. PICK u \in IF k \in UserKinds \cup TagKinds THEN Users ELSE {Null} :
          user' = [user EXCEPT ![r] = u]
    BY <2>1
  <2>4. PICK p \in IF k \in PostKinds \cup {"getPost"} THEN Posts ELSE {Null} :
          post' = [post EXCEPT ![r] = p]
    BY <2>1
  <2>5. a \in Names \cup Tags \cup Comments \cup Pages \cup {Null}
    BY <2>2 DEF Args
  <2> DEFINE l == IF k \in PostKinds THEN "gate" ELSE IF k \in TagKinds THEN "role" ELSE "run"
  <2>6. /\ l \in {"gate", "role", "run"} /\ pc' = [pc EXCEPT ![r] = l]
        /\ l = "gate" => k \in PostKinds
        /\ l = "run" => k \notin PostKinds \cup TagKinds
    BY <2>1 DEF Goto
  <2> HIDE DEF l
  <2> QED
    BY <2>1, <2>2, <2>3, <2>4, <2>5, <2>6
<1>4. TypeOK'
  BY <1>1, <1>3 DEF TypeOK, rows, answer, Active
<1>5. /\ pc'[r] = l /\ kind'[r] = k /\ user'[r] = u /\ post'[r] = p /\ arg'[r] = a
      /\ \A q \in Requests \ {r} : /\ pc'[q] = pc[q] /\ kind'[q] = kind[q]
                                   /\ user'[q] = user[q] /\ post'[q] = post[q]
                                   /\ arg'[q] = arg[q]
  BY <1>1, <1>3 DEF TypeOK
<1>6. Fields(r)'
  <2>1. /\ k \in {"addTag", "createTag"} => a \in Names
        /\ k \in {"removeTag", "deleteTag", "getTag"} => a \in Tags
        /\ k \in {"edit", "deleteComment", "getComment"} => a \in Comments
        /\ k = "list" => a \in Pages
    BY <1>3 DEF Args
  <2>2. k # "none" /\ found'[r] = Null
    BY <1>1, <1>3 DEF answer, Fields, AllKinds, PostKinds, UserKinds, TagKinds, OtherKinds
  <2> QED
    BY <1>3, <1>5, <2>1, <2>2 DEF Fields
<1>7. ASSUME NEW q \in Requests \ {r} PROVE Fields(q)'
  BY <1>1, <1>5 DEF Fields, answer
<1>8. ASSUME NEW q \in Requests PROVE Gated(q)'
  <2>1. CASE q = r
    BY <1>3, <1>5, <2>1 DEF Gated, PostKinds, UserKinds
  <2>2. CASE q # r
    BY <1>1, <1>5, <2>2 DEF Gated, Entitled, Allowed
  <2> QED
    BY <2>1, <2>2
<1>9. \A q \in Requests : Gone(q)' => q # r /\ Gone(q)
  BY <1>3, <1>5 DEF Gone
<1>10. Spent'
  <2>1. \A q \in Requests : FoundNamed(q)'
    BY <1>1, <1>3, <1>5 DEF Spent, FoundNamed, rows, answer
  <2> QED
    BY <1>1, <1>5, <1>9, <2>1 DEF Spent, rows
<1>11. GoneOnce'
  <2>1. \A q \in Requests : (pc[q] = "404" /\ AtFirst(q))' => q # r /\ pc[q] = "404" /\ AtFirst(q)
    BY <1>3, <1>5 DEF AtFirst
  <2>2. \A q \in Requests \ {r} : /\ Absent(q) => Absent(q)'
                                  /\ Target(q)' = Target(q)
    BY <1>1, <1>5 DEF Absent, Target, rows
  <2> QED
    BY <1>1, <1>5, <1>9, <2>1, <2>2 DEF GoneOnce
<1>12. ByRight'
  <2>1. \A q \in Requests : kind[q] # "none" =>
          q # r /\ kind'[q] = kind[q] /\ user'[q] = user[q] /\ post'[q] = post[q] /\ arg'[q] = arg[q]
    BY <1>2, <1>5
  <2>2. \A x \in Posts \ posts' : \E q \in Requests :
          /\ kind'[q] = "deletePost" /\ post'[q] = x
          /\ user'[q] = Author \/ Level[user'[q]] >= Admin
    BY <1>1, <2>1 DEF ByRight, rows
  <2>3. \A t \in Tags \ tags' : tagName'[t] # Null => \E q \in Requests :
          kind'[q] = "deleteTag" /\ arg'[q] = t /\ Level[user'[q]] >= Moderator
    BY <1>1, <2>1 DEF ByRight, rows
  <2>4. \A q \in Requests :
          kind'[q] = "createTag" /\ pc'[q] = "201" => Level[user'[q]] >= Moderator
    BY <1>1, <1>3, <1>5 DEF ByRight
  <2> QED
    BY <2>2, <2>3, <2>4 DEF ByRight
<1>13. RowsAgree'
  BY <1>1 DEF RowsAgree, rows
<1> QED
  BY <1>4, <1>6, <1>7, <1>8, <1>10, <1>11, <1>12, <1>13 DEF IInv

-----------------------------------------------------------------------------
LEMMA InitInv == Init => IInv
<1> SUFFICES ASSUME Init PROVE IInv
  OBVIOUS
<1>1. TypeOK
  BY BoardAssumption DEF Init, TypeOK, BoardAssumption
<1>2. \A r \in Requests : Fields(r) /\ Gated(r)
  BY DEF Init, Fields, Gated, UserKinds, PostKinds, TagKinds, OtherKinds
<1>3. Spent
  BY BoardAssumption DEF Init, Spent, FoundNamed, Gone, BoardAssumption
<1>4. RowsAgree
  BY BoardAssumption DEF Init, RowsAgree, BoardAssumption
<1>5. GoneOnce /\ ByRight
  BY DEF Init, GoneOnce, ByRight, Gone
<1> QED
  BY <1>1, <1>2, <1>3, <1>4, <1>5 DEF IInv

LEMMA NextInv == IInv /\ [Next]_vars => IInv'
<1> SUFFICES ASSUME IInv, [Next]_vars PROVE IInv'
  OBVIOUS
<1>1. ASSUME NEW r \in Requests, Start(r) \/ Handle(r) PROVE IInv'
  BY <1>1, StartKeeps, PostContextKeeps, CheckRoleKeeps, AddLikeKeeps, RemoveLikeKeeps,
     CreateTagKeeps, DeleteTagKeeps, FindTagKeeps, AddTagKeeps, RemoveTagKeeps,
     CreateCommentKeeps, UpdateCommentKeeps, DeleteCommentKeeps, CountCommentsKeeps,
     PageCommentsKeeps, DeletePostKeeps, ReadKeeps DEF Handle
<1>2. CASE UNCHANGED vars
  BY <1>2 DEF IInv, TypeOK, Fields, Gated, Entitled, Allowed, Spent, FoundNamed, RowsAgree, GoneOnce, ByRight, Gone,
              Absent, AtFirst, Target, vars, rows, request, answer
<1> QED
  BY <1>1, <1>2 DEF Next, Quiet

(* The invariant holds for any number of requests, users, posts, tags and    *)
(* comments, with and without faults and AuthMiddleware.                     *)
THEOREM Invariance == Spec => []IInv
BY InitInv, NextInv, PTL DEF Spec

(* The tables and the requests have the types TypeOK gives them. *)
THEOREM TypeCorrect == Spec => []TypeOK
<1>1. IInv => TypeOK
  BY DEF IInv
<1> QED
  BY <1>1, Invariance, PTL

(* No like, comment or post_tags row outlives its post, and a post_tags row  *)
(* keeps the id and the name of one tag, whatever is deleted and created     *)
(* between addTag's subselect and its key checks (post_tags.go:23).          *)
THEOREM RowsAlwaysAgree == Spec => []RowsAgree
<1>1. IInv => RowsAgree
  BY DEF IInv
<1> QED
  BY <1>1, Invariance, PTL

(* Of any number of concurrent deletions of one row at most one is told 204, *)
(* and the row never comes back (tags.go:84-105, comments.go:115-136).       *)
THEOREM DeletesToldOnce == Spec => []GoneOnce
<1>1. IInv => GoneOnce
  BY DEF IInv
<1> QED
  BY <1>1, Invariance, PTL

(* Nobody but its author or an admin deletes a post, nobody below moderator  *)
(* makes or deletes a tag (middleware.go:75-129).                            *)
THEOREM DeletedByRight == Spec => []ByRight
<1>1. IInv => ByRight
  BY DEF IInv
<1> QED
  BY <1>1, Invariance, PTL
=============================================================================
