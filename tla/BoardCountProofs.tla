-------------------------- MODULE BoardCountProofs --------------------------
(***************************************************************************)
(* Theorems about what Board counts, and their proofs: what the queries    *)
(* over joined tables show of a post, the answers to likes against the     *)
(* rows, and a list of comments against its count.                         *)
(***************************************************************************)
EXTENDS BoardProofs

(* The combinations of three tables. *)
Rows(A, B, C) == {[file |-> f, like |-> u, tag |-> t] : f \in A, u \in B, t \in C}

(* There are as many as the product of their sizes says. *)
LEMMA RowsCounted ==
  ASSUME NEW A, NEW B, NEW C, IsFiniteSet(A), IsFiniteSet(B), IsFiniteSet(C)
  PROVE  Cardinality(Rows(A, B, C)) = Cardinality(A) * (Cardinality(B) * Cardinality(C))
<1> DEFINE D   == A \X (B \X C)
           phi == [x \in D |-> [file |-> x[1], like |-> x[2][1], tag |-> x[2][2]]]
<1>1. IsFiniteSet(D) /\ Cardinality(D) = Cardinality(A) * (Cardinality(B) * Cardinality(C))
  <2>1. IsFiniteSet(B \X C) /\ Cardinality(B \X C) = Cardinality(B) * Cardinality(C)
    BY FS_Product
  <2> QED
    BY <2>1, FS_Product
<1>2. phi \in Bijection(D, Rows(A, B, C))
  <2>1. phi \in [D -> Rows(A, B, C)]
    BY DEF Rows
  <2>2. ASSUME NEW x \in D, NEW y \in D, phi[x] = phi[y] PROVE x = y
    BY <2>2
  <2>3. ASSUME NEW g \in Rows(A, B, C) PROVE \E x \in D : phi[x] = g
    <3>1. PICK f \in A, u \in B, t \in C : g = [file |-> f, like |-> u, tag |-> t]
      BY DEF Rows
    <3>2. <<f, <<u, t>>>> \in D /\ phi[<<f, <<u, t>>>>] = g
      BY <3>1
    <3> QED
      BY <3>2
  <2> HIDE DEF phi, D
  <2> QED
    BY <2>1, <2>2, <2>3 DEF Bijection, Injection, Surjection, IsInjective
<1> QED
  BY <1>1, <1>2, FS_Bijection DEF ExistsBijection

(* A LEFT JOIN adds at most the NULL row. *)
LEMMA OuterCounted ==
  ASSUME NEW S, IsFiniteSet(S)
  PROVE  IsFiniteSet(Outer(S)) /\ Cardinality(Outer(S)) = AtLeast1(Cardinality(S))
BY FS_EmptySet, FS_Singleton DEF Outer, AtLeast1

(* What hangs on a post is finite. *)
FiniteTables == IsFiniteSet(likes) /\ IsFiniteSet(postTags)

LEMMA OnPost ==
  ASSUME TypeOK, FiniteTables, NEW p \in posts
  PROVE  /\ IsFiniteSet(LikersOf(p)) /\ Null \notin LikersOf(p)
         /\ IsFiniteSet(TagsOf(p)) /\ Null \notin TagsOf(p)
         /\ IsFiniteSet(CommentsOf(p)) /\ Null \notin CommentsOf(p)
<1>1. IsFiniteSet(LikesOf(p)) /\ IsFiniteSet(OfPost(p)) /\ IsFiniteSet(CommentsOf(p))
  BY FS_Subset, BoardAssumption DEF FiniteTables, LikesOf, OfPost, CommentsOf, TypeOK, BoardAssumption
<1>2. IsFiniteSet(LikersOf(p))
  <2>1. [x \in LikesOf(p) |-> x.user] \in Surjection(LikesOf(p), LikersOf(p))
    BY DEF Surjection, LikersOf
  <2> QED
    BY <1>1, <2>1, FS_Surjection
<1>3. IsFiniteSet(TagsOf(p))
  <2>1. [x \in OfPost(p) |-> x.name] \in Surjection(OfPost(p), TagsOf(p))
    BY DEF Surjection, TagsOf
  <2> QED
    BY <1>1, <2>1, FS_Surjection
<1>4. Null \notin LikersOf(p) /\ Null \notin TagsOf(p) /\ Null \notin CommentsOf(p)
  BY BoardAssumption
  DEF TypeOK, LikersOf, LikesOf, TagsOf, OfPost, CommentsOf, BoardAssumption
<1> QED
  BY <1>1, <1>2, <1>3, <1>4

-----------------------------------------------------------------------------
(* Conditions in a group's WHERE, FILTER and COUNT(column) select a smaller  *)
(* product, and the column of a product is the table it came from.           *)
LEMMA GroupParts ==
  ASSUME NEW F, NEW L, NEW T, Null \notin F, Null \notin L, Null \notin T,
         NEW G, G = Group(F, L, T)
  PROVE  /\ Shown(G) = F /\ TagsShown(G) = T
         /\ \A f \in F : Repeats(G, f) = Cardinality(Rows({f}, Outer(L), Outer(T)))
         /\ Likes(G) = Cardinality(Rows(Outer(F), L, Outer(T)))
         /\ \A n \in T :
              /\ Shown(Tagged(G, n)) = F /\ TagsShown(Tagged(G, n)) = {n}
              /\ Likes(Tagged(G, n)) = Cardinality(Rows(Outer(F), L, {n}))
<1>1. /\ Outer(F) # {} /\ Outer(F) \ {Null} = F
      /\ Outer(L) # {} /\ Outer(L) \ {Null} = L
      /\ Outer(T) # {} /\ Outer(T) \ {Null} = T
  BY DEF Outer
<1>2. PICK f0 \in Outer(F), u0 \in Outer(L), t0 \in Outer(T) : TRUE
  BY <1>1
<1>3. \A f \in Outer(F), u \in Outer(L), t \in Outer(T) : [file |-> f, like |-> u, tag |-> t] \in G
  BY DEF Group
<1>4. \A g \in G : \E f \in Outer(F), u \in Outer(L), t \in Outer(T) :
        g = [file |-> f, like |-> u, tag |-> t]
  BY DEF Group
<1>5. Shown(G) = F
  <2>1. ASSUME NEW f \in F PROVE f \in Shown(G)
    <3>1. [file |-> f, like |-> u0, tag |-> t0] \in G
      BY <1>1, <1>3
    <3> QED
      BY <1>1, <3>1 DEF Shown
  <2> QED
    BY <1>1, <1>4, <2>1 DEF Shown
<1>6. TagsShown(G) = T
  <2>1. ASSUME NEW t \in T PROVE t \in TagsShown(G)
    <3>1. [file |-> f0, like |-> u0, tag |-> t] \in G
      BY <1>1, <1>3
    <3> QED
      BY <1>1, <3>1 DEF TagsShown
  <2> QED
    BY <1>1, <1>4, <2>1 DEF TagsShown
<1>7. ASSUME NEW f \in F PROVE Repeats(G, f) = Cardinality(Rows({f}, Outer(L), Outer(T)))
  <2>1. f \in Outer(F)
    BY <1>1
  <2>2. {g \in G : g.file = f} = Rows({f}, Outer(L), Outer(T))
    BY <2>1, <1>3, <1>4 DEF Rows
  <2> QED
    BY <2>2 DEF Repeats
<1>8. Likes(G) = Cardinality(Rows(Outer(F), L, Outer(T)))
  <2>1. \A u : u \in L <=> u \in Outer(L) /\ u # Null
    BY <1>1
  <2>2. {g \in G : g.like # Null} = Rows(Outer(F), L, Outer(T))
    BY <2>1, <1>3, <1>4 DEF Rows
  <2> QED
    BY <2>2 DEF Likes
<1>9. ASSUME NEW n \in T
      PROVE  /\ Shown(Tagged(G, n)) = F
             /\ TagsShown(Tagged(G, n)) = {n}
             /\ Likes(Tagged(G, n)) = Cardinality(Rows(Outer(F), L, {n}))
  <2>1. n \in Outer(T) /\ n # Null
    BY <1>1
  <2>2. ASSUME NEW f \in F PROVE f \in Shown(Tagged(G, n))
    <3>1. [file |-> f, like |-> u0, tag |-> n] \in Tagged(G, n)
      BY <1>1, <1>3, <2>1 DEF Tagged
    <3> QED
      BY <1>1, <3>1 DEF Shown
  <2>3. Shown(Tagged(G, n)) = F
    BY <1>1, <1>4, <2>2 DEF Shown, Tagged
  <2>4. n \in TagsShown(Tagged(G, n))
    <3>1. [file |-> f0, like |-> u0, tag |-> n] \in Tagged(G, n)
      BY <1>3, <2>1 DEF Tagged
    <3> QED
      BY <2>1, <3>1 DEF TagsShown
  <2>5. TagsShown(Tagged(G, n)) = {n}
    BY <2>4 DEF TagsShown, Tagged
  <2>6. \A u : u \in L <=> u \in Outer(L) /\ u # Null
    BY <1>1
  <2>7. {g \in Tagged(G, n) : g.like # Null} = Rows(Outer(F), L, {n})
    BY <2>1, <2>6, <1>3, <1>4 DEF Rows, Tagged
  <2> QED
    BY <2>3, <2>5, <2>7 DEF Likes
<1> QED
  BY <1>5, <1>6, <1>7, <1>8, <1>9

(* Every file and tag is shown, and as often, or as many likes, as the other *)
(* tables multiply.                                                          *)
LEMMA ShownHolds ==
  ASSUME TypeOK, FiniteTables PROVE PostShown
<1> SUFFICES ASSUME NEW p \in posts, NEW F \in SUBSET Files
    PROVE  LET all  == Group(F, LikersOf(p), TagsOf(p))
               ways == AtLeast1(Cardinality(F))
               l    == Cardinality(LikersOf(p))
               t    == AtLeast1(Cardinality(TagsOf(p)))
           IN  /\ Shown(all) = F /\ \A f \in F : Repeats(all, f) = AtLeast1(l) * t
               /\ Likes(all) = l * ways * t
               /\ TagsShown(all) = TagsOf(p)
               /\ \A n \in TagsOf(p) :
                    LET one == Tagged(all, n)
                    IN  /\ Shown(one) = F /\ TagsShown(one) = {n}
                        /\ Likes(one) = l * ways
  BY DEF PostShown
<1> DEFINE L    == LikersOf(p)
           T    == TagsOf(p)
           all  == Group(F, L, T)
           ways == AtLeast1(Cardinality(F))
           l    == Cardinality(L)
           t    == AtLeast1(Cardinality(T))
<1>1. /\ IsFiniteSet(F) /\ Null \notin F
      /\ IsFiniteSet(L) /\ Null \notin L
      /\ IsFiniteSet(T) /\ Null \notin T
  BY OnPost, FS_Subset, BoardAssumption DEF BoardAssumption
<1>2. /\ ways \in Nat /\ IsFiniteSet(Outer(F)) /\ Cardinality(Outer(F)) = ways
      /\ l \in Nat /\ IsFiniteSet(Outer(L)) /\ Cardinality(Outer(L)) = AtLeast1(l)
      /\ t \in Nat /\ IsFiniteSet(Outer(T)) /\ Cardinality(Outer(T)) = t
  <2>1. Cardinality(F) \in Nat /\ Cardinality(L) \in Nat /\ Cardinality(T) \in Nat
    BY <1>1, FS_CardinalityType
  <2> QED
    BY <1>1, <2>1, OuterCounted DEF AtLeast1
<1>3. \A x : IsFiniteSet({x}) /\ Cardinality({x}) = 1
  BY FS_Singleton
<1> HIDE DEF L, T, ways, l, t
<1>7. /\ Shown(all) = F /\ TagsShown(all) = T
      /\ \A f \in F : Repeats(all, f) = Cardinality(Rows({f}, Outer(L), Outer(T)))
      /\ Likes(all) = Cardinality(Rows(Outer(F), L, Outer(T)))
      /\ \A n \in T :
           /\ Shown(Tagged(all, n)) = F /\ TagsShown(Tagged(all, n)) = {n}
           /\ Likes(Tagged(all, n)) = Cardinality(Rows(Outer(F), L, {n}))
  BY <1>1, GroupParts
<1> HIDE DEF all
<1>4. ASSUME NEW f \in F PROVE Repeats(all, f) = AtLeast1(l) * t
  <2>1. Repeats(all, f) = Cardinality(Rows({f}, Outer(L), Outer(T)))
    BY <1>7
  <2>2. Cardinality(Rows({f}, Outer(L), Outer(T)))
          = Cardinality({f}) * (Cardinality(Outer(L)) * Cardinality(Outer(T)))
    <3>1. IsFiniteSet({f})
      BY <1>3
    <3> QED
      BY <1>2, <3>1, RowsCounted
  <2>3. AtLeast1(l) \in Nat /\ Cardinality({f}) = 1
    BY <1>2, <1>3 DEF AtLeast1
  <2> QED
    BY <1>2, <2>1, <2>2, <2>3
<1>5. Likes(all) = l * ways * t
  <2>1. Likes(all) = Cardinality(Rows(Outer(F), L, Outer(T)))
    BY <1>7
  <2>2. Likes(all) = ways * (l * t)
    BY <1>1, <1>2, <2>1, RowsCounted DEF l
  <2> QED
    BY <1>2, <2>2
<1>6. ASSUME NEW n \in T PROVE Likes(Tagged(all, n)) = l * ways
  <2>1. Likes(Tagged(all, n)) = Cardinality(Rows(Outer(F), L, {n}))
    BY <1>7
  <2>2. Cardinality(Rows(Outer(F), L, {n}))
          = Cardinality(Outer(F)) * (Cardinality(L) * Cardinality({n}))
    <3>1. IsFiniteSet({n})
      BY <1>3
    <3> QED
      BY <1>1, <1>2, <3>1, RowsCounted
  <2>3. Cardinality({n}) = 1
    BY <1>3
  <2> QED
    BY <1>2, <2>1, <2>2, <2>3 DEF l
<1> QED
  BY <1>7, <1>4, <1>5, <1>6, <1>7 DEF L, T, all, ways, l, t

(* The feeds: DISTINCT undoes the multiplication of the comments. *)
LEMMA FeedHolds ==
  ASSUME TypeOK, FiniteTables PROVE FeedShown
<1> SUFFICES ASSUME NEW p \in posts, NEW F \in SUBSET Files
    PROVE  LET all == FeedGroup(F, LikersOf(p), TagsOf(p), CommentsOf(p))
           IN  /\ Shown(all) = F /\ TagsShown(all) = TagsOf(p)
               /\ CommentCount(all) = Cardinality(CommentsOf(p))
               /\ LikeCount(all) = (IF LikersOf(p) = {} THEN 0 ELSE 1)
  BY DEF FeedShown
<1> DEFINE L == LikersOf(p)
           T == TagsOf(p)
           C == CommentsOf(p)
           G == FeedGroup(F, L, T, C)
<1>1. Null \notin F /\ Null \notin L /\ Null \notin T /\ Null \notin C
  BY OnPost, BoardAssumption DEF BoardAssumption
<1> HIDE DEF L, T, C
<1>2. /\ Outer(F) # {} /\ Outer(F) \ {Null} = F /\ Outer(L) # {} /\ Outer(L) \ {Null} = L
      /\ Outer(T) # {} /\ Outer(T) \ {Null} = T /\ Outer(C) # {} /\ Outer(C) \ {Null} = C
  BY <1>1 DEF Outer
<1>3. PICK f0 \in Outer(F), u0 \in Outer(L), t0 \in Outer(T), c0 \in Outer(C) : TRUE
  BY <1>2
<1>4. \A f \in Outer(F), u \in Outer(L), t \in Outer(T), c \in Outer(C) :
        [file |-> f, like |-> u, tag |-> t, comment |-> c] \in G
  BY DEF FeedGroup
<1>5. \A g \in G : \E f \in Outer(F), u \in Outer(L), t \in Outer(T), c \in Outer(C) :
        g = [file |-> f, like |-> u, tag |-> t, comment |-> c]
  BY DEF FeedGroup
<1> HIDE DEF G
<1>6. Shown(G) = F
  <2>1. ASSUME NEW f \in F PROVE f \in Shown(G)
    <3>1. [file |-> f, like |-> u0, tag |-> t0, comment |-> c0] \in G
      BY <1>2, <1>4
    <3> QED
      BY <1>2, <3>1 DEF Shown
  <2> QED
    BY <1>2, <1>5, <2>1 DEF Shown
<1>7. TagsShown(G) = T
  <2>1. ASSUME NEW t \in T PROVE t \in TagsShown(G)
    <3>1. [file |-> f0, like |-> u0, tag |-> t, comment |-> c0] \in G
      BY <1>2, <1>4
    <3> QED
      BY <1>2, <3>1 DEF TagsShown
  <2> QED
    BY <1>2, <1>5, <2>1 DEF TagsShown
<1>8. CommentCount(G) = Cardinality(C)
  <2>1. ASSUME NEW c \in C PROVE c \in {g.comment : g \in G} \ {Null}
    <3>1. [file |-> f0, like |-> u0, tag |-> t0, comment |-> c] \in G
      BY <1>2, <1>4
    <3> QED
      BY <1>2, <3>1
  <2>2. {g.comment : g \in G} \ {Null} = C
    BY <1>2, <1>5, <2>1
  <2> QED
    BY <2>2 DEF CommentCount
<1>9. LikeCount(G) = IF L = {} THEN 0 ELSE 1
  <2>1. ASSUME NEW u \in L PROVE \E g \in G : g.like # Null
    <3>1. [file |-> f0, like |-> u, tag |-> t0, comment |-> c0] \in G
      BY <1>2, <1>4
    <3> QED
      BY <1>2, <3>1
  <2>2. ASSUME NEW g \in G, g.like # Null PROVE L # {}
    BY <1>2, <1>5, <2>2
  <2> QED
    BY <2>1, <2>2 DEF LikeCount
<1> QED
  BY <1>6, <1>7, <1>8, <1>9 DEF G, L, T, C
-----------------------------------------------------------------------------
(* Finitely many requests have started, so the answers can be counted. *)
FiniteBusy == IsFiniteSet({r \in Requests : pc[r] # "idle"})

(* Between its two statements, a list knows how far its count may be off. *)
Counted(r) ==
  kind[r] = "list" /\ pc[r] = "page" =>
    /\ found[r] <= Cardinality(CommentsOf(post[r])) + moved[r]
    /\ Cardinality(CommentsOf(post[r])) <= found[r] + moved[r]

(* What the counts need besides IInv. *)
CInv == FiniteTables /\ FiniteBusy /\ LikesTold /\ CountTold /\ \A r \in Requests : Counted(r)

LEMMA ToldType ==
  ASSUME FiniteBusy, NEW k, NEW m \in Answers, NEW u, NEW p
  PROVE  Told(k, m, u, p) \in Nat
<1> DEFINE S == {r \in Requests : kind[r] = k /\ pc[r] = m /\ user[r] = u /\ post[r] = p}
<1>1. S \subseteq {r \in Requests : pc[r] # "idle"}
  BY DEF Answers
<1>2. IsFiniteSet(S)
  BY <1>1, FS_Subset DEF FiniteBusy
<1> QED
  BY <1>2, FS_CardinalityType DEF Told

(* A step of r to l is one more answer l of r, and no other. *)
LEMMA ToldStep ==
  ASSUME TypeOK, FiniteBusy, NEW r, NEW l, Step(r, l),
         NEW k, NEW m \in Answers, NEW u, NEW p
  PROVE  Told(k, m, u, p)' = IF kind[r] = k /\ l = m /\ user[r] = u /\ post[r] = p
                             THEN Told(k, m, u, p) + 1 ELSE Told(k, m, u, p)
<1> DEFINE S == {q \in Requests : kind[q] = k /\ pc[q] = m /\ user[q] = u /\ post[q] = p}
           T == {q \in Requests : kind'[q] = k /\ pc'[q] = m /\ user'[q] = u /\ post'[q] = p}
<1>1. /\ pc'[r] = l /\ \A q \in Requests \ {r} : pc'[q] = pc[q]
      /\ kind' = kind /\ user' = user /\ post' = post
      /\ r \in Requests /\ pc[r] # m
  BY StepPc DEF Step, Active, Answers
<1>2. S \subseteq {q \in Requests : pc[q] # "idle"}
  BY DEF Answers
<1>3. IsFiniteSet(S)
  BY <1>2, FS_Subset DEF FiniteBusy
<1>4. T = IF kind[r] = k /\ l = m /\ user[r] = u /\ post[r] = p THEN S \cup {r} ELSE S
  BY <1>1
<1>5. r \notin S
  BY <1>1
<1>6. Cardinality(T) = IF kind[r] = k /\ l = m /\ user[r] = u /\ post[r] = p
                       THEN Cardinality(S) + 1 ELSE Cardinality(S)
  BY <1>3, <1>4, <1>5, FS_AddElement
<1> QED
  BY <1>6 DEF Told

(* LikesTold of one user and one post. *)
Balanced(u, p) ==
  LET row     == IF [user |-> u, post |-> p] \in likes THEN 1 ELSE 0
      balance == Told("like", "201", u, p) - Told("unlike", "204", u, p)
  IN  /\ balance <= row + Told("unlike", "500", u, p)
      /\ balance >= row - Told("like", "500", u, p)
      /\ Told("like", "400", u, p) > 0 =>
           Told("like", "201", u, p) + Told("like", "500", u, p) > 0

(* A step that touches no like of a post that stays, and is told of none. *)
LEMMA LikesKept ==
  ASSUME TypeOK, FiniteBusy, LikesTold, NEW r, NEW l, Step(r, l), posts' \subseteq posts,
         \A u \in Users, p \in posts' :
           [user |-> u, post |-> p] \in likes' <=> [user |-> u, post |-> p] \in likes,
         kind[r] = "like" => l \notin {"201", "400"},
         kind[r] = "unlike" => l # "204"
  PROVE  LikesTold'
<1> SUFFICES ASSUME NEW u \in Users, NEW p \in posts' PROVE Balanced(u, p)'
  BY DEF LikesTold, Balanced
<1>1. Balanced(u, p)
  BY DEF LikesTold, Balanced
<1>2. \A k, m : m \in Answers => /\ Told(k, m, u, p) \in Nat
                                /\ Told(k, m, u, p)' = IF kind[r] = k /\ l = m /\ user[r] = u /\ post[r] = p
                                     THEN Told(k, m, u, p) + 1 ELSE Told(k, m, u, p)
  BY ToldType, ToldStep
<1>3. {"201", "204", "400", "500"} \subseteq Answers
  BY DEF Answers
<1>4. /\ Told("like", "201", u, p)' = Told("like", "201", u, p)
      /\ Told("unlike", "204", u, p)' = Told("unlike", "204", u, p)
      /\ Told("like", "400", u, p)' = Told("like", "400", u, p)
      /\ Told("like", "500", u, p)' >= Told("like", "500", u, p)
      /\ Told("unlike", "500", u, p)' >= Told("unlike", "500", u, p)
      /\ \A k, m : m \in Answers => Told(k, m, u, p) \in Nat /\ Told(k, m, u, p)' \in Nat
  BY <1>2, <1>3
<1> QED
  BY <1>1, <1>3, <1>4 DEF Balanced

LEMMA AddLikeCounts ==
  ASSUME IInv, FiniteBusy, LikesTold, NEW r \in Requests, AddLike(r) PROVE LikesTold'
<1>1. /\ TypeOK /\ pc[r] = "run" /\ pc[r] \in Active /\ kind[r] = "like"
      /\ user[r] \in Users /\ post[r] \in Posts
      /\ posts' = posts /\ UNCHANGED request
  BY DEF IInv, Fields, AddLike, Serves, Active, UserKinds, PostKinds
<1>2. PICK o \in {"ok", "late", "fail"} :
        LET can == ~Liked(r) /\ post[r] \in posts
        IN  /\ likes' = IF can /\ o # "fail" THEN likes \cup {Like(r)} ELSE likes
            /\ Tell(r, o, can, "201", IF Liked(r) THEN "400" ELSE "500")
  BY DEF AddLike, Outcomes
<1>3. CASE Liked(r) /\ o # "fail"
  <2>1. likes' = likes /\ Step(r, "400")
    BY <1>1, <1>2, <1>3 DEF Tell, Step
  <2> SUFFICES ASSUME NEW u \in Users, NEW p \in posts PROVE Balanced(u, p)'
    BY <1>1 DEF LikesTold, Balanced
  <2>2. Balanced(u, p)
    BY DEF LikesTold, Balanced
  <2>3. \A k, m : m \in Answers =>
          /\ Told(k, m, u, p) \in Nat
          /\ Told(k, m, u, p)' = IF kind[r] = k /\ "400" = m /\ user[r] = u /\ post[r] = p
               THEN Told(k, m, u, p) + 1 ELSE Told(k, m, u, p)
    BY <1>1, <2>1, ToldType, ToldStep
  <2>4. {"201", "204", "400", "500"} \subseteq Answers
    BY DEF Answers
  <2>5. CASE user[r] = u /\ post[r] = p
    <3>1. [user |-> u, post |-> p] \in likes
      BY <1>3, <2>5 DEF Liked, Like
    <3> QED
      BY <1>1, <2>1, <2>2, <2>3, <2>4, <3>1 DEF Balanced
  <2>6. CASE ~(user[r] = u /\ post[r] = p)
    BY <1>1, <2>1, <2>2, <2>3, <2>4, <2>6 DEF Balanced
  <2> QED
    BY <2>5, <2>6
<1>4. CASE ~Liked(r) /\ post[r] \in posts /\ o # "fail"
  <2> DEFINE l == IF o = "late" THEN "500" ELSE "201"
  <2>1. likes' = likes \cup {Like(r)} /\ Step(r, l) /\ l \in {"201", "500"}
    BY <1>1, <1>2, <1>4 DEF Tell, Step
  <2> HIDE DEF l
  <2> SUFFICES ASSUME NEW u \in Users, NEW p \in posts PROVE Balanced(u, p)'
    BY <1>1 DEF LikesTold, Balanced
  <2>2. Balanced(u, p)
    BY DEF LikesTold, Balanced
  <2>3. \A k, m : m \in Answers =>
          /\ Told(k, m, u, p) \in Nat
          /\ Told(k, m, u, p)' = IF kind[r] = k /\ l = m /\ user[r] = u /\ post[r] = p
               THEN Told(k, m, u, p) + 1 ELSE Told(k, m, u, p)
    BY <1>1, <2>1, ToldType, ToldStep
  <2>4. {"201", "204", "400", "500"} \subseteq Answers
    BY DEF Answers
  <2>5. CASE user[r] = u /\ post[r] = p
    <3>1. [user |-> u, post |-> p] \notin likes /\ [user |-> u, post |-> p] \in likes'
      BY <1>4, <2>1, <2>5 DEF Liked, Like
    <3> QED
      BY <1>1, <2>1, <2>2, <2>3, <2>4, <2>5, <3>1 DEF Balanced
  <2>6. CASE ~(user[r] = u /\ post[r] = p)
    <3>1. [user |-> u, post |-> p] \in likes' <=> [user |-> u, post |-> p] \in likes
      BY <2>1, <2>6 DEF Like
    <3> QED
      BY <1>1, <2>1, <2>2, <2>3, <2>4, <2>6, <3>1 DEF Balanced
  <2> QED
    BY <2>5, <2>6
<1>5. CASE o = "fail" \/ (~Liked(r) /\ post[r] \notin posts)
  <2>1. likes' = likes /\ Step(r, "500")
    BY <1>1, <1>2, <1>5 DEF Tell, Step
  <2> QED
    BY <1>1, <2>1, LikesKept
<1> QED
  BY <1>3, <1>4, <1>5

LEMMA RemoveLikeCounts ==
  ASSUME IInv, FiniteBusy, LikesTold, NEW r \in Requests, RemoveLike(r) PROVE LikesTold'
<1>1. /\ TypeOK /\ pc[r] = "run" /\ pc[r] \in Active /\ kind[r] = "unlike"
      /\ user[r] \in Users /\ post[r] \in Posts
      /\ posts' = posts /\ UNCHANGED request
  BY DEF IInv, Fields, RemoveLike, Serves, Active, UserKinds, PostKinds
<1>2. PICK o \in {"ok", "late", "fail"} :
        /\ likes' = IF o = "fail" THEN likes ELSE likes \ {Like(r)}
        /\ Tell(r, o, Liked(r), "204", "500")
  BY DEF RemoveLike, Outcomes
<1>3. CASE Liked(r) /\ o # "fail"
  <2> DEFINE l == IF o = "late" THEN "500" ELSE "204"
  <2>1. likes' = likes \ {Like(r)} /\ Step(r, l) /\ l \in {"204", "500"}
    BY <1>1, <1>2, <1>3 DEF Tell, Step
  <2> HIDE DEF l
  <2> SUFFICES ASSUME NEW u \in Users, NEW p \in posts PROVE Balanced(u, p)'
    BY <1>1 DEF LikesTold, Balanced
  <2>2. Balanced(u, p)
    BY DEF LikesTold, Balanced
  <2>3. \A k, m : m \in Answers =>
          /\ Told(k, m, u, p) \in Nat
          /\ Told(k, m, u, p)' = IF kind[r] = k /\ l = m /\ user[r] = u /\ post[r] = p
               THEN Told(k, m, u, p) + 1 ELSE Told(k, m, u, p)
    BY <1>1, <2>1, ToldType, ToldStep
  <2>4. {"201", "204", "400", "500"} \subseteq Answers
    BY DEF Answers
  <2>5. CASE user[r] = u /\ post[r] = p
    <3>1. [user |-> u, post |-> p] \in likes /\ [user |-> u, post |-> p] \notin likes'
      BY <1>3, <2>1, <2>5 DEF Liked, Like
    <3> QED
      BY <1>1, <2>1, <2>2, <2>3, <2>4, <2>5, <3>1 DEF Balanced
  <2>6. CASE ~(user[r] = u /\ post[r] = p)
    <3>1. [user |-> u, post |-> p] \in likes' <=> [user |-> u, post |-> p] \in likes
      BY <2>1, <2>6 DEF Like
    <3> QED
      BY <1>1, <2>1, <2>2, <2>3, <2>4, <2>6, <3>1 DEF Balanced
  <2> QED
    BY <2>5, <2>6
<1>4. CASE o = "fail" \/ ~Liked(r)
  <2>1. likes' = likes /\ Step(r, "500")
    BY <1>1, <1>2, <1>4 DEF Tell, Step, Liked
  <2> QED
    BY <1>1, <2>1, LikesKept
<1> QED
  BY <1>3, <1>4

-----------------------------------------------------------------------------
(* Due is what PageLength computes, from the first page on. *)
LEMMA DueLength ==
  ASSUME NEW n \in Nat, NEW page \in Int, page >= 1
  PROVE  Offset(page) \in Nat /\ Due(n, page) = PageLength(n, Offset(page))
<1> DEFINE lo == (page - 1) * PageLimit
           hi == page * PageLimit
           w  == {i \in 1 .. n : lo < i /\ i <= hi}
<1>1. PageLimit \in Nat /\ PageLimit > 0
  BY BoardAssumption DEF BoardAssumption
<1>2. lo \in Nat /\ hi = lo + PageLimit
  BY <1>1
<1> HIDE DEF lo, hi
<1>3. w = (lo + 1) .. (IF n < hi THEN n ELSE hi)
  BY <1>1, <1>2
<1>4. lo + 1 \in Int /\ (IF n < hi THEN n ELSE hi) \in Int
  BY <1>1, <1>2
<1>5. Cardinality(w) = IF lo + 1 > (IF n < hi THEN n ELSE hi) THEN 0
                       ELSE (IF n < hi THEN n ELSE hi) - (lo + 1) + 1
  BY <1>3, <1>4, FS_Interval
<1>6. Cardinality(w) = PageLength(n, lo)
  BY <1>1, <1>2, <1>5 DEF PageLength
<1> QED
  BY <1>2, <1>6 DEF Due, Offset, lo, hi

(* No page before the first has an OFFSET that PostgreSQL takes. *)
LEMMA FirstPage ==
  ASSUME NEW page \in Int, Offset(page) >= 0 PROVE page >= 1
<1>1. PageLimit \in Nat /\ PageLimit > 0
  BY BoardAssumption DEF BoardAssumption
<1>2. ASSUME page <= 0 PROVE FALSE
  <2>1. PICK k \in Nat : page - 1 = - (k + 1)
    <3>1. - page \in Nat
      BY <1>2
    <3> QED
      BY <3>1
  <2>2. (page - 1) * PageLimit = - (k * PageLimit) - PageLimit
    BY <1>1, <2>1
  <2>3. k * PageLimit \in Nat
    BY <1>1
  <2>4. (page - 1) * PageLimit >= 0
    BY DEF Offset
  <2> QED
    BY <1>1, <2>2, <2>3, <2>4
<1> QED
  BY <1>2

(* A page is off by no more than the count is. *)
LEMMA LengthOff ==
  ASSUME NEW m \in Nat, NEW n \in Nat, NEW d \in Nat, NEW o \in Nat, m <= n + d, n <= m + d
  PROVE  /\ PageLength(m, o) \in Nat
         /\ PageLength(m, o) <= PageLength(n, o) + d /\ PageLength(n, o) <= PageLength(m, o) + d
BY BoardAssumption DEF PageLength, BoardAssumption

(* A set changes its size by no more than there are elements that came or went. *)
LEMMA Drift ==
  ASSUME NEW A, NEW B, NEW D, IsFiniteSet(A), IsFiniteSet(B), IsFiniteSet(D), B \subseteq A \cup D
  PROVE  Cardinality(B) <= Cardinality(A) + Cardinality(D)
<1>1. /\ IsFiniteSet(A \cup D)
      /\ Cardinality(A \cup D) = Cardinality(A) + Cardinality(D) - Cardinality(A \cap D)
  BY FS_Union
<1>2. Cardinality(B) <= Cardinality(A \cup D)
  BY <1>1, FS_Subset
<1>3. IsFiniteSet(A \cap D)
  BY FS_Subset
<1>4. /\ Cardinality(A) \in Nat /\ Cardinality(D) \in Nat /\ Cardinality(A \cap D) \in Nat
      /\ Cardinality(B) \in Nat /\ Cardinality(A \cup D) \in Nat
  BY <1>1, <1>3, FS_CardinalityType
<1> QED
  BY <1>1, <1>2, <1>4

(* How the comments may change in a step that tells the lists. *)
Tells ==
  \/ UNCHANGED <<comments, commentOf, moved>>
  \/ \E cs \in SUBSET Comments :
       /\ comments' \subseteq comments \cup cs /\ comments \subseteq comments' \cup cs
       /\ \A c \in comments : commentOf'[c] = commentOf[c]
       /\ Bump(cs)

LEMMA CountKept ==
  ASSUME TypeOK, comments' \subseteq Comments, NEW q \in Requests, Counted(q), Tells, pc[q] = "page", pc'[q] = "page",
         kind[q] = "list", kind'[q] = "list", found[q] \in Nat, found'[q] = found[q], post'[q] = post[q]
  PROVE  Counted(q)'
<1> DEFINE A == CommentsOf(post[q])
           B == {c \in comments' : commentOf'[c] = post[q]}
<1>1. B = CommentsOf(post[q])' /\ IsFiniteSet(A) /\ IsFiniteSet(B)
  BY FS_Subset, BoardAssumption DEF CommentsOf, TypeOK, BoardAssumption
<1>2. Cardinality(A) \in Nat /\ Cardinality(B) \in Nat /\ moved[q] \in Nat
  BY <1>1, FS_CardinalityType DEF TypeOK
<1>3. CASE UNCHANGED <<comments, commentOf, moved>>
  BY <1>1, <1>3 DEF Counted, CommentsOf
<1>4. CASE \E cs \in SUBSET Comments :
             /\ comments' \subseteq comments \cup cs /\ comments \subseteq comments' \cup cs
             /\ \A c \in comments : commentOf'[c] = commentOf[c]
             /\ Bump(cs)
  <2>1. PICK cs \in SUBSET Comments :
          /\ comments' \subseteq comments \cup cs /\ comments \subseteq comments' \cup cs
          /\ \A c \in comments : commentOf'[c] = commentOf[c]
          /\ Bump(cs)
    BY <1>4
  <2> DEFINE D == {c \in cs : commentOf'[c] = post[q]}
  <2>2. moved'[q] = moved[q] + Cardinality(D)
    BY <2>1 DEF Bump
  <2>3. IsFiniteSet(D)
    BY FS_Subset, BoardAssumption DEF BoardAssumption
  <2>4. Cardinality(D) \in Nat
    BY <2>3, FS_CardinalityType
  <2>5. B \subseteq A \cup D /\ A \subseteq B \cup D
    BY <2>1 DEF CommentsOf
  <2> HIDE DEF D
  <2>6. Cardinality(B) <= Cardinality(A) + Cardinality(D) /\ Cardinality(A) <= Cardinality(B) + Cardinality(D)
    BY <1>1, <2>3, <2>5, Drift
  <2> QED
    BY <1>1, <1>2, <2>2, <2>4, <2>6 DEF Counted
<1> QED
  BY <1>3, <1>4 DEF Tells

(* A step of another handler, or another step of a list. *)
LEMMA CountsKept ==
  ASSUME IInv, IInv', CountTold, \A q \in Requests : Counted(q), NEW r, NEW l, Step(r, l), Tells,
         \A q \in Requests : kind[q] = "list" => found'[q] = found[q],
         got' = got, kind[r] = "list" => l \notin {"page", "200"}, kind[r] # "list" => l # "page"
  PROVE  CountTold' /\ \A q \in Requests : Counted(q)'
<1>1. /\ pc'[r] = l /\ \A q \in Requests \ {r} : pc'[q] = pc[q]
      /\ kind' = kind /\ user' = user /\ post' = post /\ arg' = arg
      /\ TypeOK /\ comments' \subseteq Comments /\ \A q \in Requests : Fields(q)
  BY StepPc DEF IInv, TypeOK
<1>2. \A q \in Requests : pc[q] # "page" => moved'[q] = moved[q]
  <2>1. ASSUME NEW q \in Requests, pc[q] # "page", NEW cs, Bump(cs) PROVE moved'[q] = moved[q]
    BY <1>1, <2>1 DEF Bump, TypeOK
  <2> QED
    BY <2>1 DEF Tells
<1>3. CountTold'
  BY <1>1, <1>2 DEF CountTold
<1>4. ASSUME NEW q \in Requests PROVE Counted(q)'
  <2>1. CASE kind[q] = "list" /\ pc'[q] = "page"
    <3>1. pc[q] = "page" /\ found[q] \in Nat /\ found'[q] = found[q]
      BY <1>1, <2>1 DEF Fields
    <3> QED
      BY <1>1, <2>1, <3>1, CountKept
  <2>2. CASE ~(kind[q] = "list" /\ pc'[q] = "page")
    BY <1>1, <2>2 DEF Counted
  <2> QED
    BY <2>1, <2>2
<1> QED
  BY <1>3, <1>4

(* A step that is not one of a list's two statements. *)
LEMMA OtherStep ==
  ASSUME IInv, IInv', CInv, NEW r, NEW l, Step(r, l), l # "idle", LikesTold', FiniteTables', Tells,
         \A q \in Requests : kind[q] = "list" => found'[q] = found[q],
         got' = got, kind[r] = "list" => l \notin {"page", "200"}, kind[r] # "list" => l # "page"
  PROVE  CInv'
<1>1. CountTold' /\ \A q \in Requests : Counted(q)'
  BY CountsKept DEF CInv
<1>2. FiniteBusy'
  <2>1. /\ pc'[r] = l /\ \A q \in Requests \ {r} : pc'[q] = pc[q]
        /\ r \in Requests /\ pc[r] # "idle"
    BY StepPc DEF IInv, Step, Active
  <2>2. {q \in Requests : pc'[q] # "idle"} = {q \in Requests : pc[q] # "idle"}
    BY <2>1
  <2> QED
    BY <2>2 DEF CInv, FiniteBusy
<1> QED
  BY <1>1, <1>2 DEF CInv

(* ... and of a handler that does not touch likes. *)
LEMMA PlainStep ==
  ASSUME IInv, IInv', CInv, NEW r, NEW l, Step(r, l), l # "idle",
         UNCHANGED <<posts, likes>>, IsFiniteSet(postTags'), Tells,
         \A q \in Requests : kind[q] = "list" => found'[q] = found[q],
         got' = got, kind[r] = "list" => l \notin {"page", "200"}, kind[r] # "list" => l # "page",
         kind[r] \in {"like", "unlike"} => l \in {"role", "run", "403", "500"}
  PROVE  CInv'
<1>1. LikesTold'
  BY LikesKept DEF CInv, IInv
<1>2. FiniteTables'
  BY DEF CInv, FiniteTables
<1> QED
  BY <1>1, <1>2, OtherStep

-----------------------------------------------------------------------------
LEMMA GateCounts ==
  ASSUME IInv, IInv', CInv, NEW r \in Requests, PostContext(r) \/ CheckRole(r) PROVE CInv'
<1>1. /\ pc[r] \in Active /\ UNCHANGED <<rows, request, answer>>
      /\ \E l \in {"role", "run", "403", "500"} : Goto(r, l)
  BY DEF PostContext, CheckRole, Active, MissingPost
<1> QED
  BY <1>1, PlainStep DEF Step, Tells, rows, answer, CInv, FiniteTables

LEMMA LikeCounts ==
  ASSUME IInv, IInv', CInv, NEW r \in Requests, AddLike(r) \/ RemoveLike(r) PROVE CInv'
<1>1. LikesTold'
  BY AddLikeCounts, RemoveLikeCounts DEF CInv
<1>2. /\ pc[r] \in Active /\ kind[r] # "list"
      /\ UNCHANGED <<postTags, comments, commentOf, request, answer>>
      /\ \E l \in {"201", "204", "400", "500"} : Goto(r, l)
  BY DEF AddLike, RemoveLike, Serves, Active, Tell
<1>3. FiniteTables'
  <2>1. likes' \subseteq likes \cup {Like(r)}
    BY DEF AddLike, RemoveLike
  <2>2. IsFiniteSet(likes')
    BY <2>1, FS_AddElement, FS_Subset DEF CInv, FiniteTables
  <2> QED
    BY <1>2, <2>2 DEF CInv, FiniteTables
<1> QED
  BY <1>1, <1>2, <1>3, OtherStep DEF Step, Tells, answer

LEMMA TagCounts ==
  ASSUME IInv, IInv', CInv, NEW r \in Requests,
         CreateTag(r) \/ DeleteTag(r) \/ FindTag(r) \/ AddTag(r) \/ RemoveTag(r)
  PROVE  CInv'
<1>1. /\ pc[r] \in Active
      /\ kind[r] \in {"createTag", "deleteTag", "addTag", "removeTag"}
      /\ UNCHANGED <<posts, likes, comments, commentOf, request, moved, got>>
      /\ \E l \in {"insert", "201", "204", "409", "500"} : Goto(r, l)
  BY DEF IInv, Fields, CreateTag, DeleteTag, FindTag, AddTag, RemoveTag, Serves, Active, Tell,
         rows, answer
<1>2. IsFiniteSet(postTags')
  <2>1. \E x : postTags' \subseteq postTags \cup {x}
    BY DEF CreateTag, DeleteTag, FindTag, AddTag, RemoveTag, rows
  <2> QED
    BY <2>1, FS_AddElement, FS_Subset DEF CInv, FiniteTables
<1>3. \A q \in Requests : kind[q] = "list" => found'[q] = found[q]
  BY <1>1 DEF IInv, TypeOK, CreateTag, DeleteTag, FindTag, AddTag, RemoveTag, answer
<1> QED
  BY <1>1, <1>2, <1>3, PlainStep DEF Step, Tells

LEMMA CommentCounts ==
  ASSUME IInv, IInv', CInv, NEW r \in Requests,
         CreateComment(r) \/ UpdateComment(r) \/ DeleteComment(r) \/ Read(r)
  PROVE  CInv'
<1>1. /\ TypeOK /\ pc[r] \in Active /\ kind[r] \notin {"list", "like", "unlike"}
      /\ UNCHANGED <<posts, likes, postTags, request, found, got>>
      /\ \E l \in {"200", "201", "204", "404", "500"} : Goto(r, l)
  BY DEF IInv, CreateComment, UpdateComment, DeleteComment, Read, Serves, Active, Tell, rows, answer,
         OtherKinds
<1>2. Tells
  <2>1. CASE UNCHANGED <<comments, commentOf, moved>>
    BY <2>1 DEF Tells
  <2>2. ASSUME NEW c \in Comments, commentOf[c] = Null, comments' = comments \cup {c},
               commentOf' = [commentOf EXCEPT ![c] = post[r]], Bump({c})
        PROVE  Tells
    <3>1. c \notin comments
      BY <2>2, BoardAssumption DEF IInv, RowsAgree, TypeOK, BoardAssumption
    <3>2. \A d \in comments : commentOf'[d] = commentOf[d]
      BY <1>1, <2>2, <3>1 DEF TypeOK
    <3> QED
      BY <2>2, <3>2 DEF Tells
  <2>3. CASE /\ arg[r] \in comments /\ comments' = comments \ {arg[r]} /\ UNCHANGED commentOf
             /\ Bump({arg[r]})
    BY <1>1, <2>3 DEF Tells, TypeOK
  <2> QED
    BY <2>1, <2>2, <2>3 DEF CreateComment, UpdateComment, DeleteComment, Read, rows, answer
<1> QED
  BY <1>1, <1>2, PlainStep DEF Step, CInv, FiniteTables

LEMMA DeletePostCounts ==
  ASSUME IInv, IInv', CInv, NEW r \in Requests, DeletePost(r) PROVE CInv'
<1>1. /\ TypeOK /\ pc[r] \in Active /\ kind[r] = "deletePost"
      /\ UNCHANGED <<request, found, got>>
      /\ likes' \subseteq likes /\ postTags' \subseteq postTags /\ posts' \subseteq posts
  BY DEF IInv, DeletePost, Serves, Active
<1>2. PICK l \in {"204", "500"} : Goto(r, l)
  BY DEF DeletePost
<1>3. Step(r, l)
  BY <1>1, <1>2 DEF Step
<1>4. \A u \in Users, p \in posts' :
        [user |-> u, post |-> p] \in likes' <=> [user |-> u, post |-> p] \in likes
  BY DEF DeletePost, LikesOf
<1>5. LikesTold'
  BY <1>1, <1>3, <1>4, LikesKept DEF CInv
<1>6. FiniteTables'
  BY <1>1, FS_Subset DEF CInv, FiniteTables
<1>7. Tells
  <2>1. CommentsOf(post[r]) \subseteq Comments
    BY <1>1 DEF CommentsOf, TypeOK
  <2> QED
    BY <2>1 DEF DeletePost, Tells
<1> QED
  BY <1>1, <1>2, <1>3, <1>5, <1>6, <1>7, OtherStep

-----------------------------------------------------------------------------
(* The count: what it says is true when it is taken. *)
LEMMA CountCommentsCounts ==
  ASSUME IInv, IInv', CInv, NEW r \in Requests, CountComments(r) PROVE CInv'
<1>1. /\ TypeOK /\ pc[r] = "run" /\ pc[r] \in Active /\ kind[r] = "list"
      /\ UNCHANGED <<rows, request, moved, got>>
  BY DEF IInv, CountComments, Serves, Active
<1>2. CASE Goto(r, "500") /\ UNCHANGED found
  BY <1>1, <1>2, PlainStep DEF Step, Tells, rows, CInv, FiniteTables
<1>3. CASE found' = [found EXCEPT ![r] = Cardinality(CommentsOf(post[r]))] /\ Goto(r, "page")
  <2>1. /\ pc'[r] = "page" /\ \A q \in Requests \ {r} : pc'[q] = pc[q] /\ found'[q] = found[q]
        /\ found'[r] = Cardinality(CommentsOf(post[r]))
        /\ kind' = kind /\ user' = user /\ post' = post /\ arg' = arg
    BY <1>1, <1>3 DEF TypeOK, Goto, request
  <2>2. Step(r, "page")
    BY <1>1, <1>3 DEF Step
  <2>3. LikesTold'
    BY <1>1, <2>2, LikesKept DEF CInv, rows
  <2>4. CountTold'
    BY <1>1, <2>1 DEF CInv, CountTold
  <2>5. Counted(r)'
    <3>1. IsFiniteSet(CommentsOf(post[r]))
      BY <1>1, FS_Subset, BoardAssumption DEF CommentsOf, TypeOK, BoardAssumption
    <3>2. Cardinality(CommentsOf(post[r])) \in Nat /\ moved[r] \in Nat
      BY <1>1, <3>1, FS_CardinalityType DEF TypeOK
    <3> QED
      BY <1>1, <2>1, <3>2 DEF Counted, CommentsOf, rows
  <2>6. \A q \in Requests \ {r} : Counted(q)'
    BY <1>1, <2>1 DEF CInv, Counted, CommentsOf, rows
  <2>7. FiniteBusy'
    <3>1. {q \in Requests : pc'[q] # "idle"} = {q \in Requests : pc[q] # "idle"}
      BY <1>1, <2>1
    <3> QED
      BY <3>1 DEF CInv, FiniteBusy
  <2> QED
    BY <1>1, <2>3, <2>4, <2>5, <2>6, <2>7 DEF CInv, FiniteTables, rows
<1> QED
  BY <1>2, <1>3 DEF CountComments

(* The page: as long as is due, but for what came or went since. *)
LEMMA PageCommentsCounts ==
  ASSUME IInv, IInv', CInv, NEW r \in Requests, PageComments(r) PROVE CInv'
<1>1. /\ TypeOK /\ pc[r] = "page" /\ pc[r] \in Active /\ kind[r] = "list" /\ arg[r] \in Pages
      /\ found[r] \in Nat /\ UNCHANGED <<rows, request, found, moved>>
  BY DEF IInv, Fields, PageComments, Active
<1>2. CASE Goto(r, "500") /\ UNCHANGED got
  BY <1>1, <1>2, PlainStep DEF Step, Tells, rows, CInv, FiniteTables
<1>3. CASE /\ Offset(arg[r]) >= 0 /\ Goto(r, "200")
           /\ \E n \in {PageLength(Cardinality(CommentsOf(post[r])), Offset(arg[r]))}
                         \cup IF Faults THEN {-1} ELSE {} : got' = [got EXCEPT ![r] = n]
  <2>1. /\ pc'[r] = "200" /\ \A q \in Requests \ {r} : pc'[q] = pc[q] /\ got'[q] = got[q]
        /\ kind' = kind /\ user' = user /\ post' = post /\ arg' = arg
        /\ \/ got'[r] = -1
           \/ got'[r] = PageLength(Cardinality(CommentsOf(post[r])), Offset(arg[r]))
    BY <1>1, <1>3 DEF TypeOK, Goto, request
  <2>2. Step(r, "200")
    BY <1>1, <1>3 DEF Step
  <2>3. LikesTold'
    BY <1>1, <2>2, LikesKept DEF CInv, rows
  <2>4. /\ arg[r] \in Int /\ arg[r] >= 1 /\ Offset(arg[r]) \in Nat
        /\ Due(found[r], arg[r]) = PageLength(found[r], Offset(arg[r]))
    <3>1. arg[r] \in Int
      BY <1>1, BoardAssumption DEF BoardAssumption
    <3>2. arg[r] >= 1
      BY <1>3, <3>1, FirstPage
    <3> QED
      BY <1>1, <3>1, <3>2, DueLength
  <2>5. /\ Cardinality(CommentsOf(post[r])) \in Nat /\ moved[r] \in Nat
        /\ found[r] <= Cardinality(CommentsOf(post[r])) + moved[r]
        /\ Cardinality(CommentsOf(post[r])) <= found[r] + moved[r]
    <3>1. IsFiniteSet(CommentsOf(post[r]))
      BY <1>1, FS_Subset, BoardAssumption DEF CommentsOf, TypeOK, BoardAssumption
    <3> QED
      BY <1>1, <3>1, FS_CardinalityType DEF CInv, Counted, TypeOK
  <2> DEFINE n == Cardinality(CommentsOf(post[r]))
             o == Offset(arg[r])
  <2>6. /\ PageLength(n, o) \in Nat /\ PageLength(found[r], o) \in Nat
        /\ PageLength(n, o) <= PageLength(found[r], o) + moved[r]
        /\ PageLength(found[r], o) <= PageLength(n, o) + moved[r]
    <3> HIDE DEF n, o
    <3> QED
      BY <1>1, <2>4, <2>5, LengthOff DEF n, o
  <2>7. CountTold'
    <3>1. ASSUME NEW q \in Requests, kind[q] = "list", pc'[q] = "200"
          PROVE  /\ arg[q] >= 1
                 /\ got'[q] # -1 => /\ got'[q] <= Due(found[q], arg[q]) + moved[q]
                                    /\ got'[q] >= Due(found[q], arg[q]) - moved[q]
      <4>1. CASE q = r
        BY <2>1, <2>4, <2>5, <2>6, <4>1
      <4>2. CASE q # r
        BY <2>1, <3>1, <4>2 DEF CInv, CountTold
      <4> QED
        BY <4>1, <4>2
    <3> QED
      BY <1>1, <2>1, <3>1 DEF CountTold
  <2>8. \A q \in Requests : Counted(q)'
    BY <1>1, <2>1 DEF CInv, Counted, CommentsOf, rows
  <2>9. FiniteBusy'
    <3>1. {q \in Requests : pc'[q] # "idle"} = {q \in Requests : pc[q] # "idle"}
      BY <1>1, <2>1
    <3> QED
      BY <3>1 DEF CInv, FiniteBusy
  <2> QED
    BY <1>1, <2>3, <2>7, <2>8, <2>9 DEF CInv, FiniteTables, rows
<1> QED
  BY <1>2, <1>3 DEF PageComments

-----------------------------------------------------------------------------
LEMMA StartCounts ==
  ASSUME IInv, CInv, NEW r \in Requests, Start(r) PROVE CInv'
<1>1. TypeOK /\ pc[r] = "idle" /\ UNCHANGED <<rows, answer>>
  BY DEF IInv, Start
<1>2. /\ pc'[r] \in {"gate", "role", "run"}
      /\ \A q \in Requests \ {r} : /\ pc'[q] = pc[q] /\ kind'[q] = kind[q] /\ user'[q] = user[q]
                                   /\ post'[q] = post[q] /\ arg'[q] = arg[q]
  BY <1>1 DEF TypeOK, Start, Goto
<1>3. ASSUME NEW k, NEW m \in Answers, NEW u, NEW p PROVE Told(k, m, u, p)' = Told(k, m, u, p)
  <2>1. {q \in Requests : kind'[q] = k /\ pc'[q] = m /\ user'[q] = u /\ post'[q] = p}
          = {q \in Requests : kind[q] = k /\ pc[q] = m /\ user[q] = u /\ post[q] = p}
    BY <1>1, <1>2 DEF Answers
  <2> QED
    BY <2>1 DEF Told
<1>4. LikesTold'
  <2>1. {"201", "204", "400", "500"} \subseteq Answers
    BY DEF Answers
  <2> SUFFICES ASSUME NEW u \in Users, NEW p \in posts PROVE Balanced(u, p)'
    BY <1>1 DEF LikesTold, Balanced, rows
  <2>2. Balanced(u, p)
    BY DEF CInv, LikesTold, Balanced
  <2> QED
    BY <1>1, <1>3, <2>1, <2>2 DEF Balanced, rows
<1>5. CountTold' /\ \A q \in Requests : Counted(q)'
  BY <1>1, <1>2 DEF CInv, CountTold, Counted, CommentsOf, rows, answer
<1>6. FiniteBusy'
  <2>1. {q \in Requests : pc'[q] # "idle"} = {q \in Requests : pc[q] # "idle"} \cup {r}
    BY <1>1, <1>2
  <2> QED
    BY <2>1, FS_AddElement DEF CInv, FiniteBusy
<1> QED
  BY <1>1, <1>4, <1>5, <1>6 DEF CInv, FiniteTables, rows

LEMMA InitCounts == Init => CInv
<1> SUFFICES ASSUME Init PROVE CInv
  OBVIOUS
<1>1. FiniteTables
  BY FS_EmptySet DEF Init, FiniteTables
<1>2. FiniteBusy
  <2>1. {r \in Requests : pc[r] # "idle"} = {}
    BY DEF Init
  <2> QED
    BY <2>1, FS_EmptySet DEF FiniteBusy
<1>3. LikesTold
  <2>1. ASSUME NEW k, NEW m \in Answers, NEW u, NEW p PROVE Told(k, m, u, p) = 0
    <3>1. {r \in Requests : kind[r] = k /\ pc[r] = m /\ user[r] = u /\ post[r] = p} = {}
      BY DEF Init, Answers
    <3> QED
      BY <3>1, FS_EmptySet DEF Told
  <2>2. {"201", "204", "400", "500"} \subseteq Answers /\ likes = {}
    BY DEF Init, Answers
  <2> QED
    BY <2>1, <2>2 DEF LikesTold
<1>4. CountTold /\ \A r \in Requests : Counted(r)
  BY DEF Init, CountTold, Counted
<1> QED
  BY <1>1, <1>2, <1>3, <1>4 DEF CInv

LEMMA NextCounts == IInv /\ IInv' /\ CInv /\ [Next]_vars => CInv'
<1> SUFFICES ASSUME IInv, IInv', CInv, [Next]_vars PROVE CInv'
  OBVIOUS
<1>1. ASSUME NEW r \in Requests, Start(r) \/ Handle(r) PROVE CInv'
  BY <1>1, StartCounts, GateCounts, LikeCounts, TagCounts, CommentCounts, DeletePostCounts,
     CountCommentsCounts, PageCommentsCounts DEF Handle
<1>2. CASE UNCHANGED vars
  <2>1. \A k, m, u, p : Told(k, m, u, p)' = Told(k, m, u, p)
    BY <1>2 DEF Told, vars, request
  <2>2. LikesTold'
    BY <1>2, <2>1 DEF CInv, LikesTold, vars, rows
  <2>3. FiniteTables' /\ FiniteBusy'
    BY <1>2 DEF CInv, FiniteTables, FiniteBusy, vars, rows
  <2>4. CountTold' /\ \A r \in Requests : Counted(r)'
    BY <1>2 DEF CInv, CountTold, Counted, CommentsOf, vars, rows, request, answer
  <2> QED
    BY <2>2, <2>3, <2>4 DEF CInv
<1> QED
  BY <1>1, <1>2 DEF Next, Quiet

(* What is counted stays finite and agrees, for any number of requests. *)
THEOREM CountsInvariance == Spec => []CInv
BY InitCounts, NextCounts, Invariance, PTL DEF Spec

(* The 201s, 204s, 400s and 500s of addLike and removeLike add up to the row, *)
(* however many requests of one user race (posts.go:449-501).                *)
THEOREM LikesAlwaysTold == Spec => []LikesTold
<1>1. CInv => LikesTold
  BY DEF CInv
<1> QED
  BY <1>1, CountsInvariance, PTL

(* A page of comments that did not break off is as long as its number and    *)
(* the count say, up to as many rows as comments of its post came or went    *)
(* between the two statements (one deletePost may take any number of them),  *)
(* and no page before the first is answered 200 (comments.go:138-175).       *)
THEOREM CountAlwaysTold == Spec => []CountTold
<1>1. CInv => CountTold
  BY DEF CInv
<1> QED
  BY <1>1, CountsInvariance, PTL

(* What getPost, getPostByUserID and getPostByTag show of a post, whatever   *)
(* hangs on it: every file and tag, repeated as the other tables multiply,   *)
(* and as many likes as there are, times the files and tags                  *)
(* (store/posts.go:57-68, 107-118, 308-320).                                 *)
THEOREM PostAlwaysShown == Spec => []PostShown
<1>1. TypeOK /\ CInv => PostShown
  BY ShownHolds DEF CInv
<1> QED
  BY <1>1, CountsInvariance, TypeCorrect, PTL

(* What the feeds show: every file and tag, the number of comments, and      *)
(* whether anybody likes the post (store/posts.go:193-217, 252-274).         *)
THEOREM FeedAlwaysShown == Spec => []FeedShown
<1>1. TypeOK /\ CInv => FeedShown
  BY FeedHolds DEF CInv
<1> QED
  BY <1>1, CountsInvariance, TypeCorrect, PTL
=============================================================================
