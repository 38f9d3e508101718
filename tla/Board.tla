------------------------------- MODULE Board -------------------------------
(***************************************************************************)
(* Board: what hangs on a post.  The rows of post_likes, tags, post_tags   *)
(* and comments under concurrent requests of the /posts/{postID} and /tags *)
(* routes (cmd/api/posts.go, tags.go, comments.go), with the gates before  *)
(* them (postContextMiddleware, checkPostOwnership, checkResourceAccess)   *)
(* and the cascades of the schema (migrations/00006-00009).  The closures  *)
(* given to WithTx use app.store, so every statement commits by itself and *)
(* is one action; two handlers read first and act on what they read.       *)
(*                                                                         *)
(* A comment's text and a row's times are not modelled; a body or a path   *)
(* parameter that does not parse is refused before anything is read.  The  *)
(* files of a post are in PostFiles.                                       *)
(***************************************************************************)
EXTENDS Integers, PostQueries

CONSTANTS
  Requests,      \* HTTP requests, each served once by a goroutine of its own
  Users, Posts,
  Names,         \* tag names
  Tags,          \* ids of the tags table (a bound: ids are never reused)
  Comments,      \* ids of the comments table (a bound, likewise)
  Files,         \* the files a post may show
  Mixes,         \* sets of handlers whose requests meet: {AllKinds} is no bound
  SeedTag,       \* the names of the tags there are at first, Null for other ids
  SeedComment,   \* the posts of the comments there are at first, likewise
  Level,         \* the level of a user's role
  Author,        \* the posts.user_id of every post
  PageLimit,     \* comments per page: 20 in the code (comments.go:164)
  Pages,         \* the pages that are asked for
  PostRouteAuth, \* is AuthMiddleware on the /{postID} routes?  As committed
                 \* api.go:131 is commented out (FALSE)
  Faults         \* may calls fail?

UserKinds == {"like", "unlike", "deletePost"}       \* look at the user
PostKinds == UserKinds \cup {"addTag", "removeTag", "listTag", "comment", "edit",
                             "deleteComment", "getComment", "list"}
TagKinds  == {"createTag", "deleteTag"}             \* need a role
OtherKinds == {"getPost", "getTag"}
AllKinds  == PostKinds \cup TagKinds \cup OtherKinds

(* migrations/00002:10-18. *)
Moderator == 2
Admin     == 3

ASSUME BoardAssumption ==
  /\ Null \notin Posts \cup Users \cup Names \cup Tags \cup Comments \cup Files
  /\ Mixes \subseteq SUBSET AllKinds
  /\ SeedTag \in [Tags -> Names \cup {Null}]
  /\ \A s, t \in Tags : SeedTag[s] = SeedTag[t] => s = t \/ SeedTag[s] = Null
  /\ SeedComment \in [Comments -> Posts \cup {Null}]
  /\ Level \in [Users -> Nat] /\ Author \in Users
  /\ PageLimit \in Nat \ {0} /\ Pages \subseteq Int
  /\ IsFiniteSet(Files) /\ IsFiniteSet(Comments)
  /\ PostRouteAuth \in BOOLEAN /\ Faults \in BOOLEAN

VARIABLES
  posts,      \* the posts rows
  likes,      \* the post_likes rows
  tags,       \* the tags rows
  tagName,    \* the name of a tag, kept once its row is gone
  postTags,   \* the post_tags rows
  comments,   \* the comments rows
  commentOf,  \* the post of a comment, kept once its row is gone
  pc,         \* where a request is, or its answer
  kind,       \* the handler serving it
  user,       \* who asks, where the handler looks at it
  post,       \* the {postID} of the path
  arg,        \* the tag name, tag id, comment id or page it names
  found,      \* addTag: the tag id its subselect found; list: the count
  moved,      \* list: comments of the post that came or went since the count
  got         \* list: the length of its page, -1 if the reading broke off

rows    == <<posts, likes, tags, tagName, postTags, comments, commentOf>>
request == <<kind, user, post, arg>>
answer  == <<found, moved, got>>
vars    == <<rows, pc, request, answer>>

Active  == {"gate", "role", "run", "insert", "page"}
Answers == {"200", "201", "204", "400", "403", "404", "409", "500"}

TypeOK ==
  /\ posts \subseteq Posts
  /\ likes \subseteq [user : Users, post : Posts]
  /\ tags \subseteq Tags /\ tagName \in [Tags -> Names \cup {Null}]
  /\ postTags \subseteq [post : Posts, tag : Tags, name : Names]
  /\ comments \subseteq Comments /\ commentOf \in [Comments -> Posts \cup {Null}]
  /\ pc \in [Requests -> {"idle"} \cup Active \cup Answers]
  /\ kind \in [Requests -> AllKinds \cup {"none"}]
  /\ user \in [Requests -> Users \cup {Null}]
  /\ post \in [Requests -> Posts \cup {Null}]
  /\ arg \in [Requests -> Names \cup Tags \cup Comments \cup Pages \cup {Null}]
  /\ found \in [Requests -> Tags \cup Nat \cup {Null}]
  /\ moved \in [Requests -> Nat]
  /\ got \in [Requests -> Nat \cup {-1, Null}]

-----------------------------------------------------------------------------
(* "late": the store did it, but the caller gets an error: a deadline, or a  *)
(* failed Commit of the empty transaction around it.                         *)
Outcomes == IF Faults THEN {"ok", "late", "fail"} ELSE {"ok"}

CommentsOf(p) == {c \in comments : commentOf[c] = p}
Goto(r, l) == pc' = [pc EXCEPT ![r] = l]

(* One statement: it can take effect, or is refused with the answer no.      *)
Tell(r, o, can, yes, no) ==
  Goto(r, IF o = "fail" \/ (o = "late" /\ can) THEN "500" ELSE IF can THEN yes ELSE no)

(* db/seed.go: posts, tags and comments are there, no likes and no post_tags. *)
Init ==
  /\ posts = Posts
  /\ likes = {} /\ postTags = {}
  /\ tagName = SeedTag
  /\ tags = {t \in Tags : SeedTag[t] # Null}
  /\ commentOf = SeedComment
  /\ comments = {c \in Comments : SeedComment[c] # Null}
  /\ pc = [r \in Requests |-> "idle"]
  /\ kind = [r \in Requests |-> "none"]
  /\ user = [r \in Requests |-> Null]
  /\ post = [r \in Requests |-> Null]
  /\ arg = [r \in Requests |-> Null]
  /\ found = [r \in Requests |-> Null]
  /\ moved = [r \in Requests |-> 0]
  /\ got = [r \in Requests |-> Null]

(* What a handler takes from its path or its body.  Ids that never were are  *)
(* asked for like those that are gone.                                       *)
Args(k) ==
  CASE k \in {"addTag", "createTag"}        -> Names
    [] k \in {"removeTag", "deleteTag", "getTag"} -> Tags
    [] k \in {"edit", "deleteComment", "getComment"} -> Comments
    [] k = "list"                           -> Pages
    [] OTHER                                -> {Null}

(* Bounds: which handlers meet, and an id left for every row to be created. *)
Meets(k) == \E m \in Mixes : k \in m /\ {kind[q] : q \in Requests} \subseteq m \cup {"none"}
Room(k) ==
  Cardinality({q \in Requests : kind[q] = k /\ pc[q] \in Active})
    < Cardinality(IF k = "createTag" THEN {t \in Tags : tagName[t] = Null}
                                     ELSE {c \in Comments : commentOf[c] = Null})

(* api.go:117-169: the routes.  Those under /tags are behind AuthMiddleware. *)
Start(r) ==
  /\ pc[r] = "idle"
  /\ \E k \in AllKinds :
       /\ Meets(k)
       /\ k \in {"createTag", "comment"} => Room(k)
       /\ kind' = [kind EXCEPT ![r] = k]
       /\ \E a \in Args(k) : arg' = [arg EXCEPT ![r] = a]
       /\ \E u \in IF k \in UserKinds \cup TagKinds THEN Users ELSE {Null} :
            user' = [user EXCEPT ![r] = u]
       /\ \E p \in IF k \in PostKinds \cup {"getPost"} THEN Posts ELSE {Null} :
            post' = [post EXCEPT ![r] = p]
       /\ Goto(r, IF k \in PostKinds THEN "gate" ELSE IF k \in TagKinds THEN "role" ELSE "run")
  /\ UNCHANGED <<rows, answer>>

(* posts.go:424-447: a missing post is store.ErrNotFound, not the            *)
(* pgx.ErrNoRows it is compared with: 500.  Without AuthMiddleware there is  *)
(* no user, and the handlers that look at one panic: Recoverer answers 500.  *)
MissingPostPanics == "panic"     \* mutant: goes on with a nil post
MissingPost == "500"

PostContext(r) ==
  /\ pc[r] = "gate"
  /\ \/ /\ post[r] \in posts
        /\ kind[r] \in UserKinds \cup {"comment"} => PostRouteAuth
        /\ Goto(r, IF kind[r] = "deletePost" THEN "role" ELSE "run")
     \/ post[r] \notin posts /\ Goto(r, MissingPost)
     \/ /\ Faults \/ (kind[r] \in UserKinds \cup {"comment"} /\ ~PostRouteAuth)
        /\ Goto(r, "500")
  /\ UNCHANGED <<rows, request, answer>>

(* middleware.go:119-129 *)
AllowedUpTo(r, level) == Level[user[r]] <= level       \* mutant: wrong way round
Allowed(r, level) == Level[user[r]] >= level

(* middleware.go:75-117, api.go:135, 164, 166. *)
Entitled(r) ==
  IF kind[r] = "deletePost" THEN user[r] = Author \/ Allowed(r, Admin)
                            ELSE Allowed(r, Moderator)

CheckRole(r) ==
  /\ pc[r] = "role"
  /\ \/ Goto(r, IF Entitled(r) THEN "run" ELSE "403")
     \/ Faults /\ Goto(r, "500")
  /\ UNCHANGED <<rows, request, answer>>

Serves(r, k) == pc[r] = "run" /\ kind[r] = k

-----------------------------------------------------------------------------
(* posts.go:449-481, post_likes.go:18-35, migrations/00009.                  *)
Like(r) == [user |-> user[r], post |-> post[r]]
LikedNever(r) == FALSE           \* mutant: no primary key on post_likes
Liked(r) == Like(r) \in likes

AddLike(r) ==
  /\ Serves(r, "like")
  /\ \E o \in Outcomes :
       LET can == ~Liked(r) /\ post[r] \in posts
       IN  /\ likes' = IF can /\ o # "fail" THEN likes \cup {Like(r)} ELSE likes
           /\ Tell(r, o, can, "201", IF Liked(r) THEN "400" ELSE "500")
  /\ UNCHANGED <<posts, tags, tagName, postTags, comments, commentOf, request, answer>>

(* posts.go:483-501, post_likes.go:37-52: ErrNotFound is a 500. *)
RemoveLike(r) ==
  /\ Serves(r, "unlike")
  /\ \E o \in Outcomes :
       /\ likes' = IF o = "fail" THEN likes ELSE likes \ {Like(r)}
       /\ Tell(r, o, Liked(r), "204", "500")
  /\ UNCHANGED <<posts, tags, tagName, postTags, comments, commentOf, request, answer>>

-----------------------------------------------------------------------------
(* tags.go:16-57, store/tags.go:21-37; the unique tags.name.                 *)
CreateTag(r) ==
  /\ Serves(r, "createTag")
  /\ \E t \in Tags, o \in Outcomes :
       LET can == \A s \in tags : tagName[s] # arg[r]
       IN  /\ tagName[t] = Null
           /\ IF can /\ o # "fail"
              THEN tags' = tags \cup {t} /\ tagName' = [tagName EXCEPT ![t] = arg[r]]
              ELSE UNCHANGED <<tags, tagName>>
           /\ Tell(r, o, can, "201", "409")
  /\ UNCHANGED <<posts, likes, postTags, comments, commentOf, request, answer>>

(* tags.go:84-105, store/tags.go:85-100; post_tags.tag_id and tag_name both  *)
(* ON DELETE CASCADE (migrations/00007:5-6).                                 *)
Hanging(t) == {x \in postTags : x.tag = t \/ x.name = tagName[t]}

DeleteTag(r) ==
  /\ Serves(r, "deleteTag")
  /\ \E o \in Outcomes :
       LET can == arg[r] \in tags
       IN  /\ IF can /\ o # "fail"
              THEN tags' = tags \ {arg[r]} /\ postTags' = postTags \ Hanging(arg[r])
              ELSE UNCHANGED <<tags, postTags>>
           /\ Tell(r, o, can, "204", "500")
  /\ UNCHANGED <<posts, likes, tagName, comments, commentOf, request, answer>>

(* post_tags.go:19-36: the INSERT's subselect reads its own snapshot ...     *)
FindTag(r) ==
  /\ Serves(r, "addTag")
  /\ Goto(r, "insert")
  /\ \/ \E t \in tags : tagName[t] = arg[r] /\ found' = [found EXCEPT ![r] = t]
     \/ (\A t \in tags : tagName[t] # arg[r]) /\ UNCHANGED found
  /\ UNCHANGED <<rows, request, moved, got>>

(* ... while its keys are checked against what is committed when it inserts  *)
(* (tags.go:107-161).  No tag is a NULL tag_id: 500.                         *)
ReferencedByName(r) ==           \* mutant: tag_id references nothing
  post[r] \in posts /\ \E t \in tags : tagName[t] = arg[r]
Referenced(r) ==
  /\ post[r] \in posts
  /\ found[r] \in tags
  /\ \E t \in tags : tagName[t] = arg[r]

AddTag(r) ==
  /\ pc[r] = "insert"
  /\ \E o \in Outcomes :
       LET dup == \E x \in postTags : x.post = post[r] /\ x.tag = found[r]
           can == ~dup /\ found[r] # Null /\ Referenced(r)
           row == [post |-> post[r], tag |-> found[r], name |-> arg[r]]
       IN  /\ postTags' = IF can /\ o # "fail" THEN postTags \cup {row} ELSE postTags
           /\ Tell(r, o, can, "201", IF dup THEN "409" ELSE "500")
  /\ UNCHANGED <<posts, likes, tags, tagName, comments, commentOf, request, answer>>

(* tags.go:163-191, post_tags.go:38-53. *)
RemoveTag(r) ==
  /\ Serves(r, "removeTag")
  /\ \E o \in Outcomes :
       LET gone == {x \in postTags : x.post = post[r] /\ x.tag = arg[r]}
       IN  /\ postTags' = IF o = "fail" THEN postTags ELSE postTags \ gone
           /\ Tell(r, o, gone # {}, "204", "500")
  /\ UNCHANGED <<posts, likes, tags, tagName, comments, commentOf, request, answer>>

-----------------------------------------------------------------------------
(* A comment that comes or goes while a list is between its two statements.  *)
Bump(cs) == moved' = [q \in Requests |->
  moved[q] + IF pc[q] = "page" THEN Cardinality({c \in cs : commentOf'[c] = post[q]}) ELSE 0]

(* comments.go:15-49, store/comments.go:28-50. *)
CreateComment(r) ==
  /\ Serves(r, "comment")
  /\ \E c \in Comments, o \in Outcomes :
       LET can == post[r] \in posts
       IN  /\ commentOf[c] = Null
           /\ IF can /\ o # "fail"
              THEN /\ comments' = comments \cup {c}
                   /\ commentOf' = [commentOf EXCEPT ![c] = post[r]]
                   /\ Bump({c})
              ELSE UNCHANGED <<comments, commentOf, moved>>
           /\ Tell(r, o, can, "201", "500")
  /\ UNCHANGED <<posts, likes, tags, tagName, postTags, request, found, got>>

(* comments.go:76-113, store/comments.go:83-106: no row is pgx.ErrNoRows. *)
UpdateComment(r) ==
  /\ Serves(r, "edit")
  /\ \E o \in Outcomes : Tell(r, o, arg[r] \in comments, "200", "500")
  /\ UNCHANGED <<rows, request, answer>>

(* comments.go:115-136, store/comments.go:108-123.  The comment need not be  *)
(* one of the post in the path.                                              *)
GoneTwice(c) == TRUE             \* mutant: RowsAffected is not looked at
GoneNow(c) == c \in comments

DeleteComment(r) ==
  /\ Serves(r, "deleteComment")
  /\ \E o \in Outcomes :
       /\ IF arg[r] \in comments /\ o # "fail"
          THEN comments' = comments \ {arg[r]} /\ UNCHANGED commentOf /\ Bump({arg[r]})
          ELSE UNCHANGED <<comments, commentOf, moved>>
       /\ Tell(r, o, GoneNow(arg[r]), "204", "500")
  /\ UNCHANGED <<posts, likes, tags, tagName, postTags, request, found, got>>

(* comments.go:138-175, store/comments.go:125-130: the count, ... *)
CountComments(r) ==
  /\ Serves(r, "list")
  /\ \/ /\ found' = [found EXCEPT ![r] = Cardinality(CommentsOf(post[r]))]
        /\ Goto(r, "page")
     \/ Faults /\ Goto(r, "500") /\ UNCHANGED found
  /\ UNCHANGED <<rows, request, moved, got>>

(* ... and the page (store/comments.go:132-174): PostgreSQL refuses a        *)
(* negative OFFSET, and rows.Err() is not looked at, so a reading that       *)
(* breaks off is a shorter page.                                             *)
OffsetOfZero(n) == n * PageLimit             \* mutant: the first page is 0
Offset(n) == (n - 1) * PageLimit
PageLength(n, offset) == IF n <= offset THEN 0
                         ELSE IF n - offset < PageLimit THEN n - offset ELSE PageLimit

PageComments(r) ==
  /\ pc[r] = "page"
  /\ \/ /\ Offset(arg[r]) >= 0
        /\ Goto(r, "200")
        /\ \E n \in {PageLength(Cardinality(CommentsOf(post[r])), Offset(arg[r]))}
                      \cup IF Faults THEN {-1} ELSE {} : got' = [got EXCEPT ![r] = n]
     \/ /\ Offset(arg[r]) < 0 \/ Faults
        /\ Goto(r, "500") /\ UNCHANGED got
  /\ UNCHANGED <<rows, request, found, moved>>

-----------------------------------------------------------------------------
(* posts.go:293-343: deletePost has work on files before and after this      *)
(* statement (PostFiles), which may fail or find the post gone: 500.  The    *)
(* rows that reference the post go with it (migrations/00007-00009).         *)
OfPost(p)     == {x \in postTags : x.post = p}
LikesOf(p)    == {x \in likes : x.post = p}

DeletePost(r) ==
  /\ Serves(r, "deletePost")
  /\ \/ /\ post[r] \in posts
        /\ posts' = posts \ {post[r]}
        /\ likes' = likes \ LikesOf(post[r])
        /\ postTags' = postTags \ OfPost(post[r])
        /\ comments' = comments \ CommentsOf(post[r])
        /\ UNCHANGED commentOf
        /\ Bump(CommentsOf(post[r]))
        /\ \E l \in {"204", "500"} : Goto(r, l)
     \/ Goto(r, "500") /\ UNCHANGED <<posts, likes, postTags, comments, commentOf, moved>>
  /\ UNCHANGED <<tags, tagName, request, found, got>>

(* The reads of one row: getPost (posts.go:90-126), getTag (tags.go:59-82),  *)
(* getComment (comments.go:51-74), whose missing row is ErrNotFound and 404, *)
(* and listTag (tags.go:193-211).  Fetching the links of files may fail too. *)
There(r) ==
  CASE kind[r] = "getPost"    -> post[r] \in posts
    [] kind[r] = "getTag"     -> arg[r] \in tags
    [] kind[r] = "getComment" -> arg[r] \in comments
    [] kind[r] = "listTag"    -> TRUE

Read(r) ==
  /\ pc[r] = "run" /\ kind[r] \in OtherKinds \cup {"getComment", "listTag"}
  /\ \/ Goto(r, IF There(r) THEN "200" ELSE "404")
     \/ Faults /\ Goto(r, "500")
  /\ UNCHANGED <<rows, request, answer>>

Quiet == (\A r \in Requests : pc[r] \notin Active) /\ UNCHANGED vars

Handle(r) ==
  \/ PostContext(r) \/ CheckRole(r)
  \/ AddLike(r) \/ RemoveLike(r)
  \/ CreateTag(r) \/ DeleteTag(r) \/ FindTag(r) \/ AddTag(r) \/ RemoveTag(r)
  \/ CreateComment(r) \/ UpdateComment(r) \/ DeleteComment(r)
  \/ CountComments(r) \/ PageComments(r) \/ DeletePost(r) \/ Read(r)

Next == (\E r \in Requests : Start(r) \/ Handle(r)) \/ Quiet

Spec == Init /\ [][Next]_vars

-----------------------------------------------------------------------------
(* The tables agree, whatever is deleted meanwhile: nothing hangs on a post  *)
(* that is gone, and a post_tags row has the id and the name of one tag, even *)
(* if the tag was deleted and created again between addTag's subselect and   *)
(* its key checks (post_tags.go:23).                                         *)
RowsAgree ==
  /\ \A x \in likes : x.post \in posts
  /\ \A c \in comments : commentOf[c] \in posts
  /\ \A x \in postTags : x.post \in posts /\ x.tag \in tags /\ tagName[x.tag] = x.name
  /\ \A s, t \in tags : tagName[s] = tagName[t] => s = t

(* The answers of addLike and removeLike add up to the row, however a user's *)
(* requests interleave: of a live post, the likes told 201 and the unlikes   *)
(* told 204 differ by the row, but for those told 500, which may have taken  *)
(* effect.  A 400 needs a like that did, or may have.                        *)
Told(k, l, u, p) ==
  Cardinality({r \in Requests : kind[r] = k /\ pc[r] = l /\ user[r] = u /\ post[r] = p})
LikesTold ==
  \A u \in Users, p \in posts :
    LET row     == IF [user |-> u, post |-> p] \in likes THEN 1 ELSE 0
        balance == Told("like", "201", u, p) - Told("unlike", "204", u, p)
    IN  /\ balance <= row + Told("unlike", "500", u, p)
        /\ balance >= row - Told("like", "500", u, p)
        /\ Told("like", "400", u, p) > 0 =>
             Told("like", "201", u, p) + Told("like", "500", u, p) > 0

(* Of the requests to delete one comment, tag or post, at most one is told   *)
(* 204, and then it is gone for good; so is what was there at first and a    *)
(* read answered 404.                                                        *)
Absent(r) == \/ kind[r] \in {"getPost", "deletePost"} /\ post[r] \notin posts
             \/ kind[r] \in {"getTag", "deleteTag"} /\ arg[r] \notin tags
             \/ kind[r] \in {"getComment", "deleteComment"} /\ arg[r] \notin comments
AtFirst(r) == /\ kind[r] = "getTag" => SeedTag[arg[r]] # Null
              /\ kind[r] = "getComment" => SeedComment[arg[r]] # Null
Target(r) == IF kind[r] = "deletePost" THEN post[r] ELSE arg[r]
Gone(r) == pc[r] = "204" /\ kind[r] \in {"deleteComment", "deleteTag", "deletePost"}
GoneOnce ==
  /\ \A r \in Requests : Gone(r) \/ (pc[r] = "404" /\ AtFirst(r)) => Absent(r)
  /\ \A q, r \in Requests :
       q # r /\ Gone(q) /\ Gone(r) /\ kind[q] = kind[r] => Target(q) # Target(r)

(* No post is gone but by its author or an admin, no tag but by a moderator  *)
(* or an admin (middleware.go:75-129), and nobody below made a tag.          *)
ByRight ==
  /\ \A p \in Posts \ posts : \E r \in Requests :
       /\ kind[r] = "deletePost" /\ post[r] = p
       /\ user[r] = Author \/ Level[user[r]] >= Admin
  /\ \A t \in Tags \ tags : tagName[t] # Null => \E r \in Requests :
       kind[r] = "deleteTag" /\ arg[r] = t /\ Level[user[r]] >= Moderator
  /\ \A r \in Requests :
       kind[r] = "createTag" /\ pc[r] = "201" => Level[user[r]] >= Moderator

(* The comment_count of a list and its page are of two moments, and differ   *)
(* by no more than the comments that came or went between: a page holds as   *)
(* many as its number and the count say, unless reading it broke off.  A     *)
(* page before the first is never answered 200.                              *)
Due(n, page) ==
  Cardinality({i \in 1 .. n : (page - 1) * PageLimit < i /\ i <= page * PageLimit})
CountTold ==
  \A r \in Requests : kind[r] = "list" /\ pc[r] = "200" =>
    /\ arg[r] >= 1
    /\ got[r] # -1 => /\ got[r] <= Due(found[r], arg[r]) + moved[r]
                      /\ got[r] >= Due(found[r], arg[r]) - moved[r]

(* What getPost, getPostByUserID and getPostByTag show of a post, whatever   *)
(* its files: every file, each as often, as the tags (but one, by tag) and   *)
(* the likes multiply the rows; as many likes as there are, times the files  *)
(* and the tags; 0 only if nobody likes it.  The tags are exact.             *)
LikersOf(p) == {x.user : x \in LikesOf(p)}
TagsOf(p)   == {x.name : x \in OfPost(p)}
AtLeast1(n) == IF n = 0 THEN 1 ELSE n
PostShown ==
  \A p \in posts, F \in SUBSET Files :
    LET all  == Group(F, LikersOf(p), TagsOf(p))
        ways == AtLeast1(Cardinality(F))
        l    == Cardinality(LikersOf(p))
        t    == AtLeast1(Cardinality(TagsOf(p)))
    IN  /\ Shown(all) = F /\ \A f \in F : Repeats(all, f) = AtLeast1(l) * t
        /\ Likes(all) = l * ways * t
        /\ TagsShown(all) = TagsOf(p)
        /\ \A n \in TagsOf(p) :
             LET one == Tagged(all, n)
             IN  /\ Shown(one) = F /\ TagsShown(one) = {n}
                 /\ Likes(one) = l * ways

(* What the feeds show: every file and tag, the exact number of comments,    *)
(* and whether anybody likes the post, not how many do (posts.go:201, 260).  *)
FeedShown ==
  \A p \in posts, F \in SUBSET Files :
    LET all == FeedGroup(F, LikersOf(p), TagsOf(p), CommentsOf(p))
    IN  /\ Shown(all) = F /\ TagsShown(all) = TagsOf(p)
        /\ CommentCount(all) = Cardinality(CommentsOf(p))
        /\ LikeCount(all) = (IF LikersOf(p) = {} THEN 0 ELSE 1)
=============================================================================
