---------------------------- MODULE PagesProofs ----------------------------
(***************************************************************************)
(* Theorems about Pages and their proofs.  A page is the rows whose rank   *)
(* lies in a window; what others do moves the rank of a row by one at      *)
(* most, so it carries at most one row across the border of the window.    *)
(***************************************************************************)
EXTENDS Pages, FiniteSetTheorems, TLAPS

(* What the client has asked for so far ends at this rank. *)
Border == Offset(page)

(* Of the items that stayed, those it has passed and was not shown, though    *)
(* no read broke off before them.                                            *)
Lost == {i \in steady \ (seen \cup cut) : Rank(i) <= Border}

(* What it was shown twice, or was shown and will come to again. *)
Again == twice \cup {i \in live \cap seen : Rank(i) > Border}

Pushes == arrivals + (IF sort = "liked" THEN moves ELSE 0)

Fresh    == page = 1 => seen = {} /\ steady = {} /\ ~done
LostFew  == Cardinality(Lost) <= moves
AgainFew == Cardinality(Again) <= Pushes
LateFew  == sort = "oldest" => Cardinality(Again) <= late
Through  == done => \A i \in live : Rank(i) <= Border \/ i \in cut

PInv ==
  /\ TypeOK
  /\ seen \subseteq live \cup dead
  /\ Fresh /\ LostFew /\ AgainFew /\ LateFew /\ Through

-----------------------------------------------------------------------------
(* The dates of two rows differ. *)
LEMMA Dates ==
  ASSUME TypeOK
  PROVE  /\ \A i \in live : made[i] \in Nat
         /\ \A i, j \in live : made[i] = made[j] => i = j
BY DEF TypeOK, Dated, Made

(* ORDER BY is a strict total order of the rows there are. *)
LEMMA BeforeOrders ==
  ASSUME TypeOK
  PROVE  /\ \A i \in live : ~Before(i, i)
         /\ \A i, j \in live : i # j => Before(i, j) \/ Before(j, i)
         /\ \A i, j, n \in live : Before(i, j) /\ Before(j, n) => Before(i, n)
<1>1. sort \in {"newest", "oldest", "liked"}
  BY PagesAssumption DEF TypeOK, PagesAssumption, AllSorts
<1>2. /\ \A i \in live : made[i] \in Nat
      /\ \A i, j \in live : made[i] = made[j] => i = j
  BY Dates
<1>3. CASE sort = "newest"
  BY <1>2, <1>3 DEF Before, Older
<1>4. CASE sort = "oldest"
  BY <1>2, <1>4 DEF Before, Older
<1>5. CASE sort = "liked"
  BY <1>2, <1>5 DEF Before, Older
<1> QED
  BY <1>1, <1>3, <1>4, <1>5

LEMMA FiniteLive ==
  ASSUME TypeOK
  PROVE  /\ IsFiniteSet(live)
         /\ \A i : IsFiniteSet(UpTo(i)) /\ UpTo(i) \subseteq live
<1>1. live \subseteq Items
  BY DEF TypeOK, Made
<1>2. IsFiniteSet(live)
  BY <1>1, FS_Subset, PagesAssumption DEF PagesAssumption
<1>3. \A i : UpTo(i) \subseteq live
  BY DEF UpTo
<1> QED
  BY <1>2, <1>3, FS_Subset

(* Ranks number the rows in the query's order. *)
LEMMA RanksOrder ==
  ASSUME TypeOK
  PROVE  /\ \A i : Rank(i) \in Nat
         /\ \A i \in live : Rank(i) >= 1
         /\ \A i, j \in live : Before(i, j) => Rank(i) < Rank(j)
         /\ \A i, j \in live : Rank(i) = Rank(j) => i = j
<1>1. \A i : IsFiniteSet(UpTo(i)) /\ Rank(i) \in Nat
  BY FiniteLive, FS_CardinalityType DEF Rank
<1>2. ASSUME NEW i \in live PROVE Rank(i) >= 1
  <2>1. i \in UpTo(i)
    BY DEF UpTo
  <2>2. Rank(i) # 0
    BY <1>1, <2>1, FS_EmptySet DEF Rank
  <2> QED
    BY <1>1, <2>2
<1>3. ASSUME NEW i \in live, NEW j \in live, Before(i, j) PROVE Rank(i) < Rank(j)
  <2>1. UpTo(i) \subseteq UpTo(j)
    BY <1>3, BeforeOrders DEF UpTo
  <2>2. j \in UpTo(j) /\ j \notin UpTo(i)
    BY <1>3, BeforeOrders DEF UpTo
  <2>3. Rank(i) <= Rank(j) /\ Rank(i) # Rank(j)
    BY <1>1, <2>1, <2>2, FS_Subset DEF Rank
  <2> QED
    BY <1>1, <2>3
<1>4. ASSUME NEW i \in live, NEW j \in live, Rank(i) = Rank(j) PROVE i = j
  <2>1. CASE Before(i, j)
    BY <1>1, <1>3, <1>4, <2>1
  <2>2. CASE Before(j, i)
    BY <1>1, <1>3, <1>4, <2>2
  <2> QED
    BY <2>1, <2>2, BeforeOrders
<1> QED
  BY <1>1, <1>2, <1>3, <1>4

(* No rank is left out below one that there is. *)
LEMMA RanksDense ==
  ASSUME TypeOK, NEW i \in live
  PROVE  \A n \in 1 .. Rank(i) : \E j \in live : Rank(j) = n
<1> DEFINE S == UpTo(i)
           f == [j \in S |-> Rank(j)]
<1>1. IsFiniteSet(S) /\ S \subseteq live /\ Rank(i) \in Nat
  BY FiniteLive, RanksOrder
<1>2. ASSUME NEW j \in S PROVE Rank(j) \in 1 .. Rank(i)
  <2>1. j \in live /\ Rank(j) \in Nat /\ Rank(j) >= 1
    BY <1>1, RanksOrder
  <2>2. j = i \/ Before(j, i)
    BY DEF UpTo
  <2>3. Rank(j) <= Rank(i)
    BY <1>1, <2>1, <2>2, RanksOrder
  <2> QED
    BY <1>1, <2>1, <2>3
<1>3. f \in Injection(S, 1 .. Rank(i))
  <2>1. f \in [S -> 1 .. Rank(i)]
    BY <1>2
  <2>2. \A j, n \in S : f[j] = f[n] => j = n
    BY <1>1, RanksOrder
  <2> QED
    BY <2>1, <2>2 DEF Injection, IsInjective
<1>4. IsFiniteSet(1 .. Rank(i)) /\ Cardinality(1 .. Rank(i)) = Rank(i)
  BY <1>1, FS_Interval
<1>5. Cardinality(S) = Rank(i)
  BY DEF Rank
<1>6. f \in Surjection(S, 1 .. Rank(i))
  <2> HIDE DEF f, S
  <2> QED
    BY <1>3, <1>4, <1>5, FS_Injection
<1>7. \A n \in 1 .. Rank(i) : \E j \in S : f[j] = n
  BY <1>6 DEF Surjection
<1> QED
  BY <1>1, <1>7

(* A page with a row behind it is full. *)
LEMMA FullPage ==
  ASSUME TypeOK, NEW p \in Nat, Offset(p) \in Nat,
         NEW i \in live, Rank(i) > Offset(p) + PageSize
  PROVE  Cardinality(Rows(p)) >= PageSize
<1> DEFINE W == Offset(p) + 1 .. Offset(p) + PageSize
           f == [j \in Rows(p) |-> Rank(j)]
<1>1. PageSize \in Nat \ {0} /\ Rank(i) \in Nat
  BY PagesAssumption, RanksOrder DEF PagesAssumption
<1>2. IsFiniteSet(Rows(p))
  BY FiniteLive, FS_Subset DEF Rows
<1>3. f \in [Rows(p) -> W]
  BY DEF Rows
<1>4. ASSUME NEW n \in W PROVE \E j \in Rows(p) : f[j] = n
  <2>1. n \in 1 .. Rank(i)
    BY <1>1
  <2>2. PICK j \in live : Rank(j) = n
    BY <2>1, RanksDense
  <2>3. j \in Rows(p)
    BY <2>2 DEF Rows
  <2> QED
    BY <2>2, <2>3
<1>5. f \in Surjection(Rows(p), W)
  BY <1>3, <1>4 DEF Surjection
<1>6. Cardinality(W) = PageSize
  BY <1>1, FS_Interval
<1>7. Cardinality(W) <= Cardinality(Rows(p))
  <2> HIDE DEF f, W
  <2> QED
    BY <1>2, <1>5, FS_Surjection
<1> QED
  BY <1>2, <1>1, <1>6, <1>7, FS_CardinalityType

-----------------------------------------------------------------------------
(* Counting. *)
LEMMA OneMore ==
  ASSUME NEW S, NEW T, NEW x, IsFiniteSet(S), T \subseteq S \cup {x}
  PROVE  /\ IsFiniteSet(T)
         /\ Cardinality(S) \in Nat /\ Cardinality(T) \in Nat
         /\ Cardinality(T) <= Cardinality(S) + 1
<1>1. /\ IsFiniteSet(S \cup {x}) /\ Cardinality(S) \in Nat
      /\ Cardinality(S \cup {x}) <= Cardinality(S) + 1
  <2>1. Cardinality(S) \in Nat
    BY FS_CardinalityType
  <2>2. /\ IsFiniteSet(S \cup {x})
        /\ Cardinality(S \cup {x}) = IF x \in S THEN Cardinality(S)
                                             ELSE Cardinality(S) + 1
    BY FS_AddElement
  <2> QED
    BY <2>1, <2>2
<1>2. IsFiniteSet(T) /\ Cardinality(T) <= Cardinality(S \cup {x})
  BY <1>1, FS_Subset
<1> QED
  BY <1>1, <1>2, FS_CardinalityType

LEMMA NoMore ==
  ASSUME NEW S, NEW T, IsFiniteSet(S), T \subseteq S
  PROVE  /\ IsFiniteSet(T)
         /\ Cardinality(S) \in Nat /\ Cardinality(T) \in Nat
         /\ Cardinality(T) <= Cardinality(S)
BY FS_Subset, FS_CardinalityType

(* Of a page that breaks off after n rows, n at most are shown. *)
LEMMA ShownFew ==
  ASSUME TypeOK, NEW n \in Nat, n < PageSize
  PROVE  Cardinality(Shown(page, n)) < PageSize
<1> DEFINE S == Shown(page, n)
           W == Border + 1 .. Border + n
           f == [j \in S |-> Rank(j)]
<1>1. PageSize \in Nat \ {0} /\ Border \in Nat
  <2>1. PageSize \in Nat \ {0} /\ page - 1 \in Nat
    BY PagesAssumption DEF PagesAssumption, TypeOK
  <2> QED
    BY <2>1 DEF Border, Offset
<1>2. IsFiniteSet(W) /\ Cardinality(W) = n
  <2>1. Border + n - (Border + 1) + 1 = n /\ Border + 1 \in Int /\ Border + n \in Int
    BY <1>1
  <2> QED
    BY <1>1, <2>1, FS_Interval
<1>3. S \subseteq live /\ \A j \in S : Rank(j) \in W
  BY <1>1, RanksOrder DEF Shown, Rows, Border
<1>4. f \in Injection(S, W)
  <2>1. f \in [S -> W] /\ \A j, m \in S : f[j] = f[m] => j = m
    BY <1>3, RanksOrder
  <2> QED
    BY <2>1 DEF Injection, IsInjective
<1>5. Cardinality(S) <= Cardinality(W) /\ IsFiniteSet(S)
  <2> HIDE DEF f, S, W
  <2> QED
    BY <1>2, <1>4, FS_Injection
<1> QED
  BY <1>1, <1>2, <1>5, FS_CardinalityType

(* What the bounds are about is finite and numbers are numbers. *)
LEMMA Typed ==
  ASSUME TypeOK
  PROVE  /\ PageSize \in Nat \ {0} /\ Border \in Nat
         /\ page \in Nat \ {0}
         /\ Offset(page + 1) = Border + PageSize
         /\ IsFiniteSet(Lost) /\ IsFiniteSet(Again)
         /\ Cardinality(Lost) \in Nat /\ Cardinality(Again) \in Nat
         /\ moves \in Nat /\ arrivals \in Nat /\ late \in Nat /\ Pushes \in Nat
<1>1. /\ PageSize \in Nat \ {0} /\ page \in Nat \ {0}
      /\ moves \in Nat /\ arrivals \in Nat /\ late \in Nat /\ Pushes \in Nat
  BY PagesAssumption DEF PagesAssumption, TypeOK, Pushes
<1>2. Border \in Nat /\ Offset(page + 1) = Border + PageSize
  <2>1. page - 1 \in Nat /\ PageSize \in Nat
    BY <1>1
  <2>2. (page - 1) * PageSize \in Nat
    BY <2>1
  <2>3. ((page + 1) - 1) * PageSize = (page - 1) * PageSize + PageSize
    BY <1>1
  <2> QED
    BY <2>2, <2>3 DEF Border, Offset
<1>3. Lost \subseteq Items /\ Again \subseteq Items
  BY DEF TypeOK, Made, Lost, Again
<1>4. IsFiniteSet(Lost) /\ IsFiniteSet(Again)
  BY <1>3, FS_Subset, PagesAssumption DEF PagesAssumption
<1> QED
  BY <1>1, <1>2, <1>4, FS_CardinalityType

-----------------------------------------------------------------------------
(* Types, and that the client was shown only what there is or was. *)
Known == seen \subseteq live \cup dead

LEMMA InitTyped == Init => TypeOK /\ Known
<1> SUFFICES ASSUME Init PROVE TypeOK /\ Known
  OBVIOUS
<1>1. clock \in Nat
  BY FS_CardinalityType, PagesAssumption DEF Init, PagesAssumption
<1>2. liked \subseteq live
  BY DEF Init
<1>3. made \in [Items -> 0 .. clock] /\ Dated(made)
  BY DEF Init
<1>4. /\ live = Made /\ dead = {} /\ sort \in Sorts
      /\ page = 1 /\ seen = {} /\ twice = {} /\ done = FALSE
      /\ steady = {} /\ moves = 0 /\ arrivals = 0 /\ late = 0 /\ cut = {}
  BY DEF Init
<1>5. live \subseteq Made /\ dead \subseteq Made /\ live \cap dead = {}
  BY <1>4
<1>6. /\ page \in Nat \ {0} /\ moves \in 0 .. MaxMoves
      /\ arrivals \in Nat /\ late \in 0 .. arrivals
  BY <1>4, PagesAssumption DEF PagesAssumption
<1>7. done \in BOOLEAN /\ seen \subseteq Items /\ twice \subseteq seen /\ steady \subseteq live
  BY <1>4
<1> QED
  BY <1>1, <1>2, <1>3, <1>4, <1>5, <1>6, <1>7 DEF TypeOK, Known

LEMMA ReadTyped ==
  ASSUME TypeOK, Known, Read
  PROVE  TypeOK' /\ Known'
<1>1. PICK n \in 0 .. PageSize :
        /\ n = PageSize \/ Faults
        /\ twice' = twice \cup (seen \cap Shown(page, n))
        /\ seen' = seen \cup Shown(page, n)
        /\ done' = (Cardinality(Shown(page, n)) < PageSize)
        /\ cut' = IF n < PageSize THEN Behind(page, n) ELSE {}
  BY PagesAssumption DEF Read, PagesAssumption
<1>2. Shown(page, n) \subseteq live /\ Behind(page, n) \subseteq live /\ live \subseteq Items
  BY DEF Shown, Behind, Rows, TypeOK, Made
<1>3. cut' # {} => done' /\ Faults
  <2> SUFFICES ASSUME cut' # {} PROVE done'
    BY <1>1
  <2>1. n < PageSize /\ PageSize \in Nat /\ n \in Nat
    BY <1>1, PagesAssumption DEF PagesAssumption
  <2> QED
    BY <1>1, <2>1, ShownFew
<1> QED
  BY <1>1, <1>2, <1>3 DEF TypeOK, Known, Read, list, Made

LEMMA InsertTyped ==
  ASSUME TypeOK, Known, NEW i \in Items, Insert(i)
  PROVE  TypeOK' /\ Known'
<1>1. UNCHANGED <<live, dead, liked, client, past>>
  BY DEF Insert
<1>2. /\ clock' \in Nat /\ clock' = clock + 1
      /\ made' = [made EXCEPT ![i] = clock + 1]
      /\ made' \in [Items -> 0 .. clock']
  BY DEF Insert, TypeOK
<1>3. Made \subseteq Made'
  BY <1>2 DEF Made, TypeOK
<1>4. Dated(made)'
  <2> SUFFICES ASSUME NEW j \in Items, NEW n \in Items,
                      made'[j] = made'[n], made'[j] > 0
               PROVE  j = n
    BY DEF Dated
  <2>1. \A m \in Items : made[m] \in 0 .. clock
    BY DEF TypeOK
  <2> QED
    BY <1>2, <2>1 DEF TypeOK, Dated
<1> QED
  BY <1>1, <1>2, <1>3, <1>4 DEF TypeOK, Known, client, past

LEMMA CommitTyped ==
  ASSUME TypeOK, Known, NEW i \in Items, Commit(i)
  PROVE  TypeOK' /\ Known'
<1>1. UNCHANGED <<made, clock, dead, liked, sort, page, seen, twice, done, steady, moves, cut>>
  BY DEF Commit, client
<1>2. arrivals' \in Nat /\ late' \in 0 .. arrivals'
  BY DEF Commit, TypeOK
<1>3. /\ live' = live \cup {i} /\ i \in Made /\ i \notin dead
      /\ Made' = Made
  BY <1>1 DEF Commit, Made
<1> QED
  BY <1>1, <1>2, <1>3 DEF TypeOK, Known

LEMMA MoveTyped ==
  ASSUME TypeOK, Move
  PROVE  moves' \in 0 .. MaxMoves
BY PagesAssumption DEF TypeOK, Move, PagesAssumption

LEMMA DeleteTyped ==
  ASSUME TypeOK, Known, NEW i \in Items, Delete(i)
  PROVE  TypeOK' /\ Known'
<1>1. UNCHANGED <<made, clock, sort, page, seen, twice, done, arrivals, late, cut>>
  BY DEF Delete, client
<1>2. moves' \in 0 .. MaxMoves
  BY MoveTyped DEF Delete
<1>3. /\ live' = live \ {i} /\ dead' = dead \cup {i} /\ i \in live
      /\ liked' = liked \ {i} /\ steady' = steady \ {i}
      /\ Made' = Made
  BY <1>1 DEF Delete, Unliked, Made
<1>4. ~done /\ cut = {}
  BY DEF Delete, Move, TypeOK
<1> QED
  BY <1>1, <1>2, <1>3, <1>4 DEF TypeOK, Known

LEMMA LikeTyped ==
  ASSUME TypeOK, Known, NEW i \in Items, Like(i)
  PROVE  TypeOK' /\ Known'
<1>1. /\ UNCHANGED <<made, clock, live, dead, steady, arrivals, late, cut>>
      /\ UNCHANGED <<sort, page, seen, twice, done>>
  BY DEF Like, client
<1>2. moves' \in 0 .. MaxMoves
  BY MoveTyped DEF Like
<1>3. liked' \subseteq live /\ Made' = Made
  BY <1>1 DEF Like, TypeOK, Made
<1> QED
  BY <1>1, <1>2, <1>3 DEF TypeOK, Known

LEMMA StutterTyped ==
  ASSUME TypeOK, Known, UNCHANGED vars
  PROVE  TypeOK' /\ Known'
BY DEF TypeOK, Known, vars, list, client, past, Made, Dated

LEMMA NextTyped == TypeOK /\ Known /\ [Next]_vars => TypeOK' /\ Known'
<1> SUFFICES ASSUME TypeOK, Known, [Next]_vars PROVE TypeOK' /\ Known'
  OBVIOUS
<1> QED
  BY ReadTyped, InsertTyped, CommitTyped, DeleteTyped, LikeTyped, StutterTyped DEF Next, Over

-----------------------------------------------------------------------------
(* How a step moves the ranks of the others. *)

(* A row of a page goes: those behind it move up by one. *)
LEMMA DeleteMoves ==
  ASSUME TypeOK, NEW i \in Items, Delete(i)
  PROVE  \A j \in live' : /\ Rank(j)' \in Nat
                          /\ Rank(j)' <= Rank(j) /\ Rank(j) <= Rank(j)' + 1
<1> SUFFICES ASSUME NEW j \in live'
             PROVE  /\ Rank(j)' \in Nat
                    /\ Rank(j)' <= Rank(j) /\ Rank(j) <= Rank(j)' + 1
  OBVIOUS
<1>1. UpTo(j)' = UpTo(j) \ {i}
  <2>1. /\ live' = live \ {i} /\ liked' = liked \ {i}
        /\ made' = made /\ sort' = sort
    BY DEF Delete, Unliked, client
  <2>2. \A n \in live' : Before(n, j)' <=> Before(n, j)
    BY <2>1 DEF Before, Older
  <2> QED
    BY <2>1, <2>2 DEF UpTo
<1>2. IsFiniteSet(UpTo(j))
  BY FiniteLive
<1>3. /\ IsFiniteSet(UpTo(j)')
      /\ Cardinality(UpTo(j)') = IF i \in UpTo(j) THEN Cardinality(UpTo(j)) - 1
                                                 ELSE Cardinality(UpTo(j))
  BY <1>1, <1>2, FS_RemoveElement
<1>4. Cardinality(UpTo(j)) \in Nat /\ Cardinality(UpTo(j)') \in Nat
  BY <1>2, <1>3, FS_CardinalityType
<1> QED
  BY <1>3, <1>4 DEF Rank

(* A row comes: those behind it move down by one, those before it stay. *)
LEMMA CommitMoves ==
  ASSUME TypeOK, NEW i \in Items, Commit(i)
  PROVE  \A j \in live :
           /\ Rank(j)' \in Nat
           /\ Rank(j) <= Rank(j)' /\ Rank(j)' <= Rank(j) + 1
           /\ ~Before(i, j) => Rank(j)' = Rank(j)
<1> SUFFICES ASSUME NEW j \in live
             PROVE  /\ Rank(j)' \in Nat
                    /\ Rank(j) <= Rank(j)' /\ Rank(j)' <= Rank(j) + 1
                    /\ ~Before(i, j) => Rank(j)' = Rank(j)
  OBVIOUS
<1>1. /\ live' = live \cup {i} /\ i \notin live /\ liked' = liked
      /\ made' = made /\ sort' = sort
  BY DEF Commit, client
<1>2. \A n : Before(n, j)' <=> Before(n, j)
  BY <1>1 DEF Before, Older
<1>3. IsFiniteSet(UpTo(j)) /\ Cardinality(UpTo(j)) \in Nat
  BY FiniteLive, FS_CardinalityType
<1>4. CASE Before(i, j)
  <2>1. UpTo(j)' = UpTo(j) \cup {i} /\ i \notin UpTo(j)
    BY <1>1, <1>2, <1>4 DEF UpTo
  <2>2. Cardinality(UpTo(j)') = Cardinality(UpTo(j)) + 1
    BY <1>3, <2>1, FS_AddElement
  <2> QED
    BY <1>3, <1>4, <2>2 DEF Rank
<1>5. CASE ~Before(i, j)
  <2>1. UpTo(j)' = UpTo(j)
    BY <1>1, <1>2, <1>5 DEF UpTo
  <2> QED
    BY <1>3, <2>1 DEF Rank
<1> QED
  BY <1>4, <1>5

(* A post gets its first like, or loses its last: it moves forward, or back, *)
(* the others by one at most the other way.                                  *)
LEMMA LikeMoves ==
  ASSUME TypeOK, NEW i \in Items, Like(i)
  PROVE  /\ \A j \in live : Rank(j)' \in Nat
         /\ \/ /\ \A j \in live \ {i} : Rank(j) <= Rank(j)' /\ Rank(j)' <= Rank(j) + 1
               /\ Rank(i)' <= Rank(i)
            \/ /\ \A j \in live \ {i} : Rank(j)' <= Rank(j) /\ Rank(j) <= Rank(j)' + 1
               /\ Rank(i) <= Rank(i)'
<1>1. /\ live' = live /\ made' = made /\ sort' = sort /\ sort = "liked"
      /\ i \in live /\ liked \subseteq live
  BY DEF Like, client, TypeOK
<1>2. \A j : IsFiniteSet(UpTo(j)) /\ UpTo(j) \subseteq live
  BY FiniteLive
<1>3. \A j : IsFiniteSet(UpTo(j)')
  <2>1. \A j : UpTo(j)' \subseteq live
    BY <1>1 DEF UpTo
  <2> QED
    BY <2>1, FiniteLive, FS_Subset
<1>4. \A j, n \in live :
        Before(j, n) <=> \/ j \in liked /\ n \notin liked
                         \/ (j \in liked <=> n \in liked) /\ made[n] < made[j]
  BY <1>1 DEF Before, Older
<1>5. \A j, n \in live :
        Before(j, n)' <=> \/ j \in liked' /\ n \notin liked'
                          \/ (j \in liked' <=> n \in liked') /\ made[n] < made[j]
  BY <1>1 DEF Before, Older
<1>6. CASE i \notin liked /\ liked' = liked \cup {i}
  <2>1. \A j \in live \ {i} : UpTo(j) \subseteq UpTo(j)' /\ UpTo(j)' \subseteq UpTo(j) \cup {i}
    BY <1>1, <1>4, <1>5, <1>6 DEF UpTo
  <2>2. UpTo(i)' \subseteq UpTo(i)
    BY <1>1, <1>4, <1>5, <1>6 DEF UpTo
  <2> QED
    BY <1>1, <1>2, <1>3, <2>1, <2>2, NoMore, OneMore DEF Rank
<1>7. CASE i \in liked /\ liked' = liked \ {i}
  <2>1. \A j \in live \ {i} : UpTo(j)' \subseteq UpTo(j) /\ UpTo(j) \subseteq UpTo(j)' \cup {i}
    BY <1>1, <1>4, <1>5, <1>7 DEF UpTo
  <2>2. UpTo(i) \subseteq UpTo(i)'
    BY <1>1, <1>4, <1>5, <1>7 DEF UpTo
  <2> QED
    BY <1>1, <1>2, <1>3, <2>1, <2>2, NoMore, OneMore DEF Rank
<1> QED
  BY <1>6, <1>7 DEF Like

-----------------------------------------------------------------------------
(* The bounds, action by action. *)
Bounds == Fresh /\ LostFew /\ AgainFew /\ LateFew /\ Through

LEMMA OneAt ==
  ASSUME TypeOK, NEW n
  PROVE  \E x : \A j \in live : Rank(j) = n => j = x
<1>1. CASE \E x \in live : Rank(x) = n
  BY <1>1, RanksOrder
<1>2. CASE ~ \E x \in live : Rank(x) = n
  BY <1>2
<1> QED
  BY <1>1, <1>2

(* Before the first page there is nothing to bound. *)
LEMMA Begin ==
  ASSUME TypeOK', page' = 1, seen' = {}, steady' = {}, ~done'
  PROVE  Bounds'
<1>1. Lost' = {} /\ Again' = {}
  BY DEF Lost, Again, TypeOK
<1>2. moves' \in Nat /\ late' \in Nat /\ Pushes' \in Nat
  <2>1. moves' \in 0 .. MaxMoves /\ arrivals' \in Nat /\ late' \in 0 .. arrivals'
    BY DEF TypeOK
  <2>2. moves' \in Nat /\ late' \in Nat
    BY <2>1, PagesAssumption DEF PagesAssumption
  <2>3. Pushes' \in Nat
    <3>1. Pushes' = arrivals' + moves' \/ Pushes' = arrivals' + 0
      BY DEF Pushes
    <3> QED
      BY <2>1, <2>2, <3>1
  <2> QED
    BY <2>2, <2>3
<1>3. Cardinality(Lost') = 0 /\ Cardinality(Again') = 0
  BY <1>1, FS_EmptySet
<1> QED
  BY <1>2, <1>3 DEF Bounds, Fresh, LostFew, AgainFew, LateFew, Through

LEMMA InitBounds ==
  ASSUME Init
  PROVE  Bounds
<1>1. TypeOK
  BY InitTyped
<1>2. seen = {} /\ twice = {} /\ steady = {} /\ page = 1 /\ ~done
  BY DEF Init
<1>3. Lost = {} /\ Again = {}
  BY <1>2 DEF Lost, Again
<1>4. Cardinality(Lost) = 0 /\ Cardinality(Again) = 0
  BY <1>3, FS_EmptySet
<1>5. moves \in Nat /\ late \in Nat /\ Pushes \in Nat
  BY <1>1, Typed
<1> QED
  BY <1>2, <1>4, <1>5 DEF Bounds, Fresh, LostFew, AgainFew, LateFew, Through

(* A page shows nothing it has passed over and nothing behind its border; one *)
(* that is not full has nothing behind it, or broke off.                      *)
LEMMA ReadBounds ==
  ASSUME TypeOK, Known, Bounds, Read
  PROVE  Bounds'
<1>0. PICK n \in 0 .. PageSize :
        /\ twice' = twice \cup (seen \cap Shown(page, n))
        /\ seen' = seen \cup Shown(page, n)
        /\ done' = (Cardinality(Shown(page, n)) < PageSize)
        /\ cut' = IF n < PageSize THEN Behind(page, n) ELSE {}
  BY PagesAssumption DEF Read, PagesAssumption
<1> PICK got : got = Shown(page, n)
  OBVIOUS
<1>1. /\ live' = live /\ liked' = liked /\ made' = made /\ sort' = sort
      /\ moves' = moves /\ arrivals' = arrivals /\ late' = late
      /\ seen' = seen \cup got /\ twice' = twice \cup (seen \cap got)
      /\ page' = page + 1
      /\ steady' = IF page = 1 THEN live ELSE steady
      /\ done' = (Cardinality(got) < PageSize)
      /\ ~done
  BY <1>0 DEF Read, list
<1>2. /\ PageSize \in Nat \ {0} /\ Border \in Nat /\ page \in Nat \ {0}
      /\ Offset(page + 1) = Border + PageSize
      /\ IsFiniteSet(Lost) /\ IsFiniteSet(Again)
  BY Typed
<1>3. Border' = Border + PageSize
  BY <1>1, <1>2 DEF Border, Offset
<1>4. \A j : Rank(j)' = Rank(j)
  BY <1>1 DEF Rank, UpTo, Before, Older
<1>5. \A j \in live : Rank(j) \in Nat /\ Rank(j) >= 1
  BY RanksOrder
<1>6. /\ n \in Nat /\ n <= PageSize /\ got \subseteq live
      /\ \A j \in live : j \in got <=> Border < Rank(j) /\ Rank(j) <= Border + n
  BY <1>2, <1>5 DEF Shown, Rows, Border
<1>15. \A j \in live : Rank(j) > Border + n /\ j \notin cut' => n = PageSize
  BY <1>0, <1>6, <1>2 DEF Behind, Border
<1>7. steady' \subseteq live
  BY <1>1 DEF TypeOK
<1>8. Lost' \subseteq Lost
  <2> SUFFICES ASSUME NEW j \in Lost' PROVE j \in Lost
    OBVIOUS
  <2>1. /\ j \in live /\ j \in steady' /\ j \notin seen /\ j \notin got
        /\ j \notin cut' /\ Rank(j) <= Border + PageSize
    BY <1>1, <1>3, <1>4, <1>7 DEF Lost
  <2>2. Rank(j) <= Border
    BY <1>2, <1>5, <1>6, <1>15, <2>1
  <2>4. cut = {}
    BY <1>1 DEF TypeOK
  <2>3. page # 1
    <3> SUFFICES ASSUME page = 1 PROVE FALSE
      OBVIOUS
    <3>1. Border = 0
      BY <1>2 DEF Border, Offset
    <3> QED
      BY <1>5, <2>1, <2>2, <3>1
  <2> QED
    BY <1>1, <2>1, <2>2, <2>3, <2>4 DEF Lost
<1>9. Again' \subseteq Again
  <2> SUFFICES ASSUME NEW j \in Again' PROVE j \in Again
    OBVIOUS
  <2>1. CASE j \in twice
    BY <2>1 DEF Again
  <2>2. CASE j \in seen \cap got
    <3>1. j \in live
      BY <1>6, <2>2
    <3> QED
      BY <1>6, <2>2, <3>1 DEF Again
  <2>3. CASE j \in live \cap (seen \cup got) /\ Rank(j) > Border + PageSize
    <3>1. Rank(j) > Border /\ j \notin got
      BY <1>2, <1>5, <1>6, <2>3
    <3> QED
      BY <2>3, <3>1 DEF Again
  <2> QED
    BY <1>1, <1>3, <1>4, <2>1, <2>2, <2>3 DEF Again
<1>10. Cardinality(Lost') <= Cardinality(Lost) /\ Cardinality(Again') <= Cardinality(Again)
  BY <1>2, <1>8, <1>9, NoMore
<1>11. /\ Cardinality(Lost') \in Nat /\ Cardinality(Again') \in Nat
       /\ Cardinality(Lost) \in Nat /\ Cardinality(Again) \in Nat
       /\ moves \in Nat /\ late \in Nat /\ Pushes \in Nat
  BY <1>2, <1>8, <1>9, NoMore, Typed
<1>12. Pushes' = Pushes
  BY <1>1 DEF Pushes
<1>13. Through'
  <2> SUFFICES ASSUME done', NEW j \in live, j \notin cut' PROVE Rank(j) <= Border + PageSize
    BY <1>1, <1>3, <1>4 DEF Through
  <2> SUFFICES ASSUME Rank(j) > Border + PageSize PROVE FALSE
    BY <1>2, <1>5
  <2>1. n = PageSize
    BY <1>2, <1>5, <1>6, <1>15
  <2>2. got = Rows(page)
    BY <1>2, <2>1 DEF Shown, Rows
  <2>3. Cardinality(got) >= PageSize
    BY <1>2, <2>2, FullPage DEF Border
  <2>4. Cardinality(got) < PageSize
    BY <1>1
  <2>5. Cardinality(got) \in Nat
    BY <1>6, FiniteLive, FS_Subset, FS_CardinalityType
  <2> QED
    BY <1>2, <2>3, <2>4, <2>5
<1>14. Fresh'
  BY <1>1, <1>2 DEF Fresh
<1> QED
  BY <1>1, <1>10, <1>11, <1>12, <1>13, <1>14 DEF Bounds, LostFew, AgainFew, LateFew

(* What is not committed has no rank. *)
LEMMA InsertBounds ==
  ASSUME TypeOK, Bounds, NEW i \in Items, Insert(i)
  PROVE  Bounds'
<1>1. /\ UNCHANGED <<live, dead, liked, client, past>>
      /\ made' = [made EXCEPT ![i] = clock + 1]
      /\ i \notin live
  BY DEF Insert, TypeOK
<1>2. UNCHANGED <<live, liked, sort, page, seen, twice, done, steady, moves, arrivals, late, cut>>
  BY <1>1 DEF client, past
<1>3. \A j \in live : made'[j] = made[j]
  BY <1>1 DEF TypeOK, Made
<1>4. \A j \in live : Rank(j)' = Rank(j)
  <2> SUFFICES ASSUME NEW j \in live PROVE UpTo(j)' = UpTo(j)
    BY DEF Rank
  <2> QED
    BY <1>2, <1>3 DEF UpTo, Before, Older
<1>5. Border' = Border /\ Pushes' = Pushes
  BY <1>2 DEF Border, Offset, Pushes
<1>6. Lost' = Lost /\ Again' = Again
  BY <1>2, <1>4, <1>5 DEF Lost, Again, TypeOK
<1> QED
  BY <1>2, <1>4, <1>5, <1>6 DEF Bounds, Fresh, LostFew, AgainFew, LateFew, Through

(* Nothing that stayed is lost, and one row at most comes again: none when it *)
(* is the youngest and the oldest come first.                                 *)
LEMMA CommitBounds ==
  ASSUME TypeOK, Known, Bounds, NEW i \in Items, Commit(i)
  PROVE  Bounds'
<1>1. /\ UNCHANGED <<made, liked, sort, page, seen, twice, done, steady, moves, cut>>
      /\ live' = live \cup {i} /\ i \notin live /\ i \notin dead /\ ~done
      /\ arrivals' = IF Reading THEN arrivals + 1 ELSE arrivals
      /\ late' = IF Reading /\ Younger(i) # {} THEN late + 1 ELSE late
  BY DEF Commit, client
<1>2. CASE page = 1
  <2>1. TypeOK'
    BY CommitTyped
  <2> QED
    BY <1>1, <1>2, <2>1, Begin DEF Bounds, Fresh
<1>3. CASE page # 1
  <2>1. Reading
    BY <1>1, <1>3, Typed DEF Reading
  <2>2. \A j \in live : /\ Rank(j) \in Nat /\ Rank(j)' \in Nat
                        /\ Rank(j) <= Rank(j)' /\ Rank(j)' <= Rank(j) + 1
                        /\ ~Before(i, j) => Rank(j)' = Rank(j)
    BY CommitMoves, RanksOrder
  <2>3. /\ Border \in Nat /\ Border' = Border
        /\ IsFiniteSet(Lost) /\ IsFiniteSet(Again)
        /\ Cardinality(Lost) \in Nat /\ Cardinality(Again) \in Nat
        /\ moves \in Nat /\ arrivals \in Nat /\ late \in Nat /\ Pushes \in Nat
    BY <1>1, Typed DEF Border, Offset
  <2>4. Lost' \subseteq Lost
    BY <1>1, <2>2, <2>3 DEF Lost, TypeOK
  <2>5. i \notin seen
    BY <1>1 DEF Known
  <2>6. Pushes' = Pushes + 1
    BY <1>1, <2>1, <2>3 DEF Pushes, TypeOK
  <2>7. PICK x : \A j \in live : Rank(j) = Border => j = x
    BY OneAt
  <2>8. Again' \subseteq Again \cup {x}
    <3> SUFFICES ASSUME NEW j \in Again', j \notin twice PROVE j \in Again \cup {x}
      BY DEF Again
    <3>1. j \in live /\ j \in seen /\ Rank(j)' > Border
      BY <1>1, <2>3, <2>5 DEF Again
    <3>2. Rank(j) > Border \/ Rank(j) = Border
      BY <2>2, <2>3, <3>1
    <3> QED
      BY <2>7, <3>1, <3>2 DEF Again
  <2>9. Cardinality(Again') \in Nat /\ Cardinality(Again') <= Cardinality(Again) + 1
    BY <2>3, <2>8, OneMore
  <2>10. LateFew'
    <3> SUFFICES ASSUME sort = "oldest" PROVE Cardinality(Again') <= late'
      BY <1>1 DEF LateFew
    <3>1. Cardinality(Again) <= late
      BY DEF Bounds, LateFew
    <3>2. CASE Younger(i) # {}
      BY <1>1, <2>1, <2>3, <2>9, <3>1, <3>2
    <3>3. CASE Younger(i) = {}
      <4>1. \A j \in live : Rank(j)' = Rank(j)
        BY <2>2, <3>3 DEF Younger, Before
      <4>2. Again' \subseteq Again
        BY <1>1, <2>3, <2>5, <4>1 DEF Again
      <4> QED
        BY <1>1, <2>3, <3>1, <3>3, <4>2, NoMore
    <3> QED
      BY <3>2, <3>3
  <2>11. Cardinality(Lost') <= Cardinality(Lost) /\ Cardinality(Lost') \in Nat
    BY <2>3, <2>4, NoMore
  <2>12. LostFew' /\ AgainFew'
    BY <1>1, <2>3, <2>6, <2>9, <2>11 DEF Bounds, LostFew, AgainFew
  <2> QED
    BY <1>1, <1>3, <2>10, <2>12 DEF Bounds, Fresh, Through
<1> QED
  BY <1>2, <1>3

(* One row at most is lost, none comes again. *)
LEMMA DeleteBounds ==
  ASSUME TypeOK, Known, Bounds, NEW i \in Items, Delete(i)
  PROVE  Bounds'
<1>1. /\ UNCHANGED <<made, sort, page, seen, twice, done, arrivals, late, cut>>
      /\ live' = live \ {i} /\ steady' = steady \ {i} /\ ~done
      /\ moves' = IF Reading THEN moves + 1 ELSE moves
  BY DEF Delete, Move, client
<1>2. CASE page = 1
  <2>1. TypeOK'
    BY DeleteTyped
  <2> QED
    BY <1>1, <1>2, <2>1, Begin DEF Bounds, Fresh
<1>3. CASE page # 1
  <2>1. Reading
    BY <1>1, <1>3, Typed DEF Reading
  <2>2. \A j \in live' : /\ Rank(j) \in Nat /\ Rank(j)' \in Nat
                         /\ Rank(j)' <= Rank(j) /\ Rank(j) <= Rank(j)' + 1
    BY DeleteMoves, RanksOrder
  <2>3. /\ Border \in Nat /\ Border' = Border
        /\ IsFiniteSet(Lost) /\ IsFiniteSet(Again)
        /\ Cardinality(Lost) \in Nat /\ Cardinality(Again) \in Nat
        /\ moves \in Nat /\ arrivals \in Nat /\ late \in Nat /\ Pushes \in Nat
    BY <1>1, Typed DEF Border, Offset
  <2>4. Again' \subseteq Again
    BY <1>1, <2>2, <2>3 DEF Again
  <2>5. PICK x : \A j \in live : Rank(j) = Border + 1 => j = x
    BY OneAt
  <2>6. Lost' \subseteq Lost \cup {x}
    <3> SUFFICES ASSUME NEW j \in Lost' PROVE j \in Lost \cup {x}
      OBVIOUS
    <3>1. /\ j \in steady /\ j \in live /\ j \in live' /\ j \notin seen \cup cut
          /\ Rank(j)' <= Border
      BY <1>1, <2>3 DEF Lost, TypeOK
    <3>2. Rank(j) <= Border \/ Rank(j) = Border + 1
      BY <2>2, <2>3, <3>1
    <3> QED
      BY <2>5, <3>1, <3>2 DEF Lost
  <2>7. /\ Cardinality(Lost') \in Nat /\ Cardinality(Lost') <= Cardinality(Lost) + 1
        /\ Cardinality(Again') \in Nat /\ Cardinality(Again') <= Cardinality(Again)
    BY <2>3, <2>4, <2>6, OneMore, NoMore
  <2>8. Pushes' \in Nat /\ Pushes <= Pushes'
    BY <1>1, <2>1, <2>3 DEF Pushes
  <2>9. LostFew' /\ AgainFew' /\ LateFew'
    BY <1>1, <2>1, <2>3, <2>7, <2>8 DEF Bounds, LostFew, AgainFew, LateFew
  <2> QED
    BY <1>1, <1>3, <2>9 DEF Bounds, Fresh, Through
<1> QED
  BY <1>2, <1>3

(* The post itself, or the one at the border, is lost or comes again. *)
LEMMA LikeBounds ==
  ASSUME TypeOK, Known, Bounds, NEW i \in Items, Like(i)
  PROVE  Bounds'
<1>1. /\ UNCHANGED <<made, live, sort, page, seen, twice, done, steady, arrivals, late, cut>>
      /\ ~done /\ sort = "liked"
      /\ moves' = IF Reading THEN moves + 1 ELSE moves
  BY DEF Like, Move, client
<1>2. CASE page = 1
  <2>1. TypeOK'
    BY LikeTyped
  <2> QED
    BY <1>1, <1>2, <2>1, Begin DEF Bounds, Fresh
<1>3. CASE page # 1
  <2>1. Reading
    BY <1>1, <1>3, Typed DEF Reading
  <2>2. \A j \in live : Rank(j) \in Nat /\ Rank(j)' \in Nat
    BY LikeMoves, RanksOrder
  <2>3. /\ Border \in Nat /\ Border' = Border
        /\ IsFiniteSet(Lost) /\ IsFiniteSet(Again)
        /\ Cardinality(Lost) \in Nat /\ Cardinality(Again) \in Nat
        /\ moves \in Nat /\ arrivals \in Nat /\ late \in Nat /\ Pushes \in Nat
    BY <1>1, Typed DEF Border, Offset
  <2>4. Pushes' = Pushes + 1
    BY <1>1, <2>1, <2>3 DEF Pushes
  <2>5. steady \subseteq live /\ i \in live
    BY DEF TypeOK, Like
  <2>6. \E x, y : Lost' \subseteq Lost \cup {x} /\ Again' \subseteq Again \cup {y}
    <3>1. CASE /\ \A j \in live \ {i} : Rank(j) <= Rank(j)' /\ Rank(j)' <= Rank(j) + 1
               /\ Rank(i)' <= Rank(i)
      <4>1. PICK y : \A j \in live : Rank(j) = Border => j = y
        BY OneAt
      <4>2. Lost' \subseteq Lost \cup {i}
        BY <1>1, <2>2, <2>3, <2>5, <3>1 DEF Lost
      <4>3. \A j \in live : Rank(j)' > Border => Rank(j) > Border \/ j = y
        BY <2>2, <2>3, <3>1, <4>1
      <4>4. Again' \subseteq Again \cup {y}
        BY <1>1, <2>3, <4>3 DEF Again
      <4> QED
        BY <4>2, <4>4
    <3>2. CASE /\ \A j \in live \ {i} : Rank(j)' <= Rank(j) /\ Rank(j) <= Rank(j)' + 1
               /\ Rank(i) <= Rank(i)'
      <4>1. PICK x : \A j \in live : Rank(j) = Border + 1 => j = x
        BY OneAt
      <4>2. \A j \in live : Rank(j)' <= Border => Rank(j) <= Border \/ j = x
        BY <2>2, <2>3, <3>2, <4>1
      <4>3. Lost' \subseteq Lost \cup {x}
        BY <1>1, <2>3, <2>5, <4>2 DEF Lost
      <4>4. Again' \subseteq Again \cup {i}
        BY <1>1, <2>2, <2>3, <3>2 DEF Again
      <4> QED
        BY <4>3, <4>4
    <3> QED
      BY <3>1, <3>2, LikeMoves
  <2>7. /\ Cardinality(Lost') \in Nat /\ Cardinality(Lost') <= Cardinality(Lost) + 1
        /\ Cardinality(Again') \in Nat /\ Cardinality(Again') <= Cardinality(Again) + 1
    BY <2>3, <2>6, OneMore
  <2>8. LostFew' /\ AgainFew' /\ LateFew'
    BY <1>1, <2>1, <2>3, <2>4, <2>7 DEF Bounds, LostFew, AgainFew, LateFew
  <2> QED
    BY <1>1, <1>3, <2>8 DEF Bounds, Fresh, Through
<1> QED
  BY <1>2, <1>3

LEMMA StutterBounds ==
  ASSUME Bounds, UNCHANGED vars
  PROVE  Bounds'
<1>1. /\ UNCHANGED <<made, live, liked, steady, moves, arrivals, late, cut>>
      /\ UNCHANGED <<sort, page, seen, twice, done>>
  BY DEF vars, list, client, past
<1>2. /\ \A j : Rank(j)' = Rank(j)
      /\ Border' = Border /\ Pushes' = Pushes
  BY <1>1 DEF Rank, UpTo, Before, Older, Border, Offset, Pushes
<1>3. Lost' = Lost /\ Again' = Again
  BY <1>1, <1>2 DEF Lost, Again
<1> QED
  BY <1>1, <1>2, <1>3 DEF Bounds, Fresh, LostFew, AgainFew, LateFew, Through

-----------------------------------------------------------------------------
(* The inductive invariant: what the client has passed and not seen, and what *)
(* it will come to again, are few at every page, not only at the last.        *)
THEOREM Invariance == Spec => []PInv
<1>1. Init => PInv
  BY InitTyped, InitBounds DEF PInv, Known, Bounds
<1>2. PInv /\ [Next]_vars => PInv'
  <2> SUFFICES ASSUME PInv, [Next]_vars PROVE PInv'
    OBVIOUS
  <2>1. TypeOK /\ Known /\ Bounds
    BY DEF PInv, Known, Bounds
  <2>2. TypeOK' /\ Known'
    BY <2>1, NextTyped
  <2>3. Bounds'
    BY <2>1, ReadBounds, InsertBounds, CommitBounds, DeleteBounds, LikeBounds, StutterBounds
    DEF Next, Over
  <2> QED
    BY <2>2, <2>3 DEF PInv, Known, Bounds
<1> QED
  BY <1>1, <1>2, PTL DEF Spec

(* The variables of Pages keep their types: no two rows have one date, a like *)
(* goes with its post (migration 00009).                                      *)
THEOREM TypeCorrect == Spec => []TypeOK
<1>1. PInv => TypeOK
  BY DEF PInv
<1> QED
  BY <1>1, Invariance, PTL

(* Who pages to the end misses at most one item that stayed for each deletion *)
(* or change of likes meanwhile (OFFSET over a list that has moved up), and   *)
(* the rows behind the point where his last page broke off unnoticed          *)
(* (rows.Err(), store/comments.go:155-174, posts.go:224-246, 281-303).        *)
THEOREM AlwaysMissedPerMove == Spec => []MissedPerMove
<1>1. PInv => MissedPerMove
  <2> SUFFICES ASSUME PInv, done PROVE Cardinality(steady \ (seen \cup cut)) <= moves
    BY DEF MissedPerMove
  <2>1. steady \subseteq live
    BY DEF PInv, TypeOK
  <2>2. steady \ (seen \cup cut) = Lost
    BY <2>1 DEF PInv, Through, Lost
  <2> QED
    BY <2>2 DEF PInv, LostFew
<1> QED
  BY <1>1, Invariance, PTL

LEMMA TwiceAgain ==
  ASSUME TypeOK
  PROVE  /\ Cardinality(twice) \in Nat /\ Cardinality(Again) \in Nat
         /\ Cardinality(twice) <= Cardinality(Again)
<1>1. IsFiniteSet(Again) /\ twice \subseteq Again
  BY Typed DEF Again
<1> QED
  BY <1>1, NoMore

(* A row that others add, or in the public feed a change of likes, shows the  *)
(* client one item a second time at most (OFFSET over a list that moved down).*)
THEOREM AlwaysTwicePerArrival == Spec => []TwicePerArrival
<1>1. PInv => TwicePerArrival
  <2> SUFFICES ASSUME PInv PROVE TwicePerArrival
    OBVIOUS
  <2>1. Cardinality(Again) <= Pushes /\ Pushes \in Nat
    BY Typed DEF PInv, AgainFew
  <2> QED
    BY <2>1, TwiceAgain DEF PInv, TwicePerArrival, Pushes
<1> QED
  BY <1>1, Invariance, PTL

(* Comments with the oldest first come twice only where a row commits after   *)
(* a younger one (created_at is the start of the transaction).                *)
THEOREM AlwaysOldestOnce == Spec => []OldestOnce
<1>1. PInv => OldestOnce
  <2> SUFFICES ASSUME PInv, sort = "oldest" PROVE Cardinality(twice) <= late
    BY DEF OldestOnce
  <2>1. Cardinality(Again) <= late /\ late \in Nat
    BY Typed DEF PInv, LateFew
  <2> QED
    BY <2>1, TwiceAgain DEF PInv
<1> QED
  BY <1>1, Invariance, PTL
=============================================================================
