------------------------------- MODULE Pages -------------------------------
(***************************************************************************)
(* A client reads a list page by page while posts or comments come and go: *)
(* the public feed, the feed of a user (cmd/api/feed.go, store/posts.go)   *)
(* and the comments of a post (cmd/api/comments.go, store/comments.go).    *)
(* Every page is a query of its own, ORDER BY ... LIMIT 20 OFFSET          *)
(* (page-1)*20, so the list may change between two pages.                  *)
(*                                                                         *)
(* created_at is NOW(), the start of the transaction that inserts the row; *)
(* the row is seen once that transaction commits, perhaps after younger    *)
(* ones.  Lists with no ORDER BY (GetByTag), or ordered by comments.likes, *)
(* which nothing ever changes, promise nothing over pages: not modelled.   *)
(***************************************************************************)
EXTENDS Naturals, FiniteSets

CONSTANTS
  Items,      \* posts, or comments of one post
  PageSize,   \* rows to a page: 20 in the code
  Sorts,      \* the orders a client may ask for
  MaxMoves,   \* bound on the deletions and changes of likes while one reads
  Faults      \* may a read break off?

AllSorts == {"newest", "oldest", "liked"}

ASSUME PagesAssumption ==
  /\ IsFiniteSet(Items)
  /\ PageSize \in Nat \ {0} /\ MaxMoves \in Nat
  /\ Sorts \subseteq AllSorts
  /\ Faults \in BOOLEAN

VARIABLES
  made,       \* created_at of an item; 0 before it is inserted
  clock,      \* NOW() of the last transaction that inserted one
  live,       \* those that are committed and not deleted
  dead,       \* those that were deleted
  liked,      \* the posts with a like
  sort,       \* the order the client asks for
  page,       \* the page it asks for next
  seen,       \* what it was shown
  twice,      \* what it was shown on two pages
  done,       \* it got a page that is not full, the last
  \* history, since the first page:
  steady,     \* the items that were there, and still are
  moves,      \* how many deletions and changes of likes
  arrivals,   \* how many commits
  late,       \* how many of them with an older created_at than a row there is
  cut         \* the rows behind the point where the last page broke off

list   == <<made, clock, live, dead, liked>>
client == <<sort, page, seen, twice, done>>
past   == <<steady, moves, arrivals, late, cut>>
vars   == <<list, client, past>>

Reading == page > 1 /\ ~done

Made == {i \in Items : made[i] > 0}
Dated(f) == \A i, j \in Items : f[i] = f[j] /\ f[i] > 0 => i = j

TypeOK ==
  /\ clock \in Nat /\ made \in [Items -> 0 .. clock] /\ Dated(made)
  /\ live \subseteq Made /\ dead \subseteq Made /\ live \cap dead = {}
  /\ liked \subseteq live
  /\ sort \in Sorts /\ page \in Nat \ {0} /\ done \in BOOLEAN
  /\ seen \subseteq Items /\ twice \subseteq seen
  /\ steady \subseteq live
  /\ moves \in 0 .. MaxMoves /\ arrivals \in Nat /\ late \in 0 .. arrivals
  /\ cut \subseteq live /\ (cut # {} => done /\ Faults)

(* The list as it may be before the client comes: any rows, any liked. *)
Init ==
  /\ clock \in 0 .. Cardinality(Items)
  /\ made \in {f \in [Items -> 0 .. clock] : Dated(f)}
  /\ Cardinality(Made) = clock
  /\ live = Made /\ dead = {}
  /\ sort \in Sorts
  /\ liked \in IF sort = "liked" THEN SUBSET live ELSE {{}}
  /\ page = 1 /\ seen = {} /\ twice = {} /\ done = FALSE
  /\ steady = {} /\ moves = 0 /\ arrivals = 0 /\ late = 0 /\ cut = {}

-----------------------------------------------------------------------------
Older(i, j) == made[i] < made[j]

(* The row i comes before j in the query's ORDER BY: store/posts.go:216-217,  *)
(* 273-274; store/comments.go:139-148.  like_count is                         *)
(* COUNT(DISTINCT pl.post_id): 1 for a post with a like, else 0.              *)
BeforeNewest(i, j) == Older(j, i)    \* mutant: the sort is not looked at
Before(i, j) ==
  CASE sort = "newest" -> Older(j, i)
    [] sort = "oldest" -> Older(i, j)
    [] sort = "liked"  -> \/ i \in liked /\ j \notin liked
                          \/ (i \in liked <=> j \in liked) /\ Older(j, i)

(* The number of a row in the whole result. *)
UpTo(i) == {j \in live : j = i \/ Before(j, i)}
Rank(i) == Cardinality(UpTo(i))

(* feed.go:22, 28 and comments.go:164. *)
OffsetFromZero(p) == p * PageSize                  \* mutant: pages count from 0
OffsetOverlap(p)  == (p - 1) * (PageSize - 1)      \* mutant: the two 20s of the call differ
Offset(p) == (p - 1) * PageSize

(* LIMIT PageSize OFFSET Offset(p). *)
Rows(p) == {i \in live : Rank(i) \in Offset(p) + 1 .. Offset(p) + PageSize}

(* A read that breaks off gives the rows up to there and no error: rows.Err() *)
(* is not looked at (store/comments.go:155-174, posts.go:224-246, 281-303).   *)
Shown(p, n)  == {i \in Rows(p) : Rank(i) <= Offset(p) + n}
Behind(p, n) == {i \in live : Rank(i) > Offset(p) + n}

(* A client asks for the next page until one is not full; one that is        *)
(* answered 500 leaves him where he was.                                     *)
Read ==
  /\ ~done
  /\ \E n \in IF Faults THEN 0 .. PageSize ELSE {PageSize} :
       LET got == Shown(page, n)
       IN  /\ twice' = twice \cup (seen \cap got)
           /\ seen' = seen \cup got
           /\ done' = (Cardinality(got) < PageSize)
           /\ cut' = IF n < PageSize THEN Behind(page, n) ELSE {}
  /\ page' = page + 1
  /\ steady' = IF page = 1 THEN live ELSE steady
  /\ UNCHANGED <<list, sort, moves, arrivals, late>>

(* INSERT: created_at is taken. *)
Insert(i) ==
  /\ ~done /\ i \notin Made
  /\ clock' = clock + 1
  /\ made' = [made EXCEPT ![i] = clock']
  /\ UNCHANGED <<live, dead, liked, client, past>>

(* The INSERT commits, a comment's by itself (store/comments.go:28-50), a    *)
(* post's with the transaction of createPost: the row is seen.               *)
Younger(i) == {j \in live : Older(i, j)}
Commit(i) ==
  /\ ~done /\ i \in Made \ (live \cup dead)
  /\ live' = live \cup {i}
  /\ arrivals' = IF Reading THEN arrivals + 1 ELSE arrivals
  /\ late' = IF Reading /\ Younger(i) # {} THEN late + 1 ELSE late
  /\ UNCHANGED <<made, clock, dead, liked, client, steady, moves, cut>>

Move == ~done /\ moves < MaxMoves /\ moves' = IF Reading THEN moves + 1 ELSE moves

(* A post or a comment is deleted; its likes go by ON DELETE CASCADE. *)
UnlikedNot(i) == liked      \* mutant: the likes stay
Unliked(i) == liked \ {i}

Delete(i) ==
  /\ Move /\ i \in live
  /\ live' = live \ {i} /\ dead' = dead \cup {i}
  /\ liked' = Unliked(i)
  /\ steady' = steady \ {i}
  /\ UNCHANGED <<made, clock, client, arrivals, late, cut>>

(* addLike, the first of a post, and removeLike, the last (posts.go:449-501). *)
Like(i) ==
  /\ Move /\ sort = "liked"
  /\ \/ i \in live \ liked /\ liked' = liked \cup {i}
     \/ i \in liked /\ liked' = liked \ {i}
  /\ UNCHANGED <<made, clock, live, dead, client, steady, arrivals, late, cut>>

Over == done /\ UNCHANGED vars

Next == Read \/ (\E i \in Items : Insert(i) \/ Commit(i) \/ Delete(i) \/ Like(i)) \/ Over

Spec == Init /\ [][Next]_vars

-----------------------------------------------------------------------------
(* Who reads to the last page misses, of what was there all the time, at     *)
(* most one item for each deletion or change of likes meanwhile, and what    *)
(* lies behind the point where the last page broke off: that page came with  *)
(* a 200, and he cannot tell it from the end.  What others add makes him     *)
(* miss nothing.                                                             *)
MissedPerMove == done => Cardinality(steady \ (seen \cup cut)) <= moves

(* He is shown at most one item twice for each one that others add, or whose *)
(* likes change; a deletion shows nothing twice.                             *)
TwicePerArrival == Cardinality(twice) <= arrivals + (IF sort = "liked" THEN moves ELSE 0)

(* With the oldest first, only a row that commits after a younger one makes  *)
(* him see an item twice.                                                    *)
OldestOnce == sort = "oldest" => Cardinality(twice) <= late
=============================================================================
