---------------------------- MODULE PostFiles ----------------------------
(***************************************************************************)
(* The files of a post: rows of post_files in PostgreSQL and objects in    *)
(* the R2 bucket, under concurrent createPost, updatePost, deletePost and  *)
(* uploadPostFiles requests (cmd/api/posts.go).  No transaction spans the  *)
(* two stores, and every statement of these handlers but two runs on the   *)
(* pool and commits by itself (store/storage.go:107), so each call to a    *)
(* store is one action, and requests interleave between any two calls.     *)
(*                                                                         *)
(* A file is its uuid (posts.go:391): the row's file_id and the object's   *)
(* key.  A post's title and content, and a file's bytes, are not modelled. *)
(***************************************************************************)
EXTENDS Naturals, FiniteSets

CONSTANTS
  Requests,         \* HTTP requests, each served once by a goroutine of its own
  Posts,            \* ids of the posts table (a bound: ids are never reused)
  Files,            \* uuids (a bound: uuid.New is taken to be unique)
  None,             \* no post, no file
  Kinds,            \* the handlers that are called
  FileLimit,        \* files accepted per form: 4 in the code (posts.go:46)
  MaxInput,         \* bound on the number of files a client sends
  PostRouteAuth,    \* is AuthMiddleware on the /{postID} routes?  As committed
                    \* api.go:131 is commented out (FALSE)
  UpdateFormValid,  \* can updatePost's form be valid?  As committed posts.go:187
                    \* validates a PostForm with no Title, which is required
                    \* (FALSE): the next refusal, once the gate lets anybody pass
  Faults            \* may calls fail and the process crash?

AllKinds == {"create", "update", "delete", "upload"}

ASSUME PostFilesAssumption ==
  /\ None \notin Posts /\ None \notin Files
  /\ Kinds \subseteq AllKinds
  /\ FileLimit \in Nat /\ MaxInput \in Nat
  /\ PostRouteAuth \in BOOLEAN /\ UpdateFormValid \in BOOLEAN /\ Faults \in BOOLEAN

VARIABLES
  post,      \* the posts table: "unused", "live" or "deleted", per id
  rows,      \* the post_files rows that exist, by file
  postOf,    \* the post_id of a file's row, kept once the row is gone
  objects,   \* the keys in the bucket
  pc,        \* where a request is, or its answer
  kind,      \* the handler serving a request
  target,    \* the post a request works on
  want,      \* the number of files in its form
  cur,       \* the file it has stored but not linked
  mine,      \* the files it has stored and linked
  list,      \* the files GetByPostID gave it
  work       \* the files the loop it is in has still to visit

db   == <<post, rows, postOf>>
form == <<kind, want>>
vars == <<db, objects, pc, form, target, cur, mine, list, work>>

(* A request is one that AuthMiddleware let through, where a route has it: its *)
(* 401 is in Sessions.  No handler here answers 404 or 409.                  *)
Answers == {"200", "201", "204", "400", "403", "500", "lost"}
Active  == {"gate", "content", "insert", "list", "upload", "link", "rows",
            "objects", "cleanup"}

Live(p)   == post[p] = "live"
RowsOf(p) == {f \in rows : postOf[f] = p}

TypeOK ==
  /\ post \in [Posts -> {"unused", "live", "deleted"}]
  /\ rows \subseteq Files
  /\ postOf \in [Files -> Posts \cup {None}]
  /\ objects \subseteq Files
  /\ pc \in [Requests -> {"idle"} \cup Active \cup Answers]
  /\ kind \in [Requests -> Kinds \cup {"none"}]
  /\ target \in [Requests -> Posts \cup {None}]
  /\ want \in [Requests -> Nat]
  /\ cur \in [Requests -> Files \cup {None}]
  /\ mine \in [Requests -> SUBSET Files]
  /\ list \in [Requests -> SUBSET Files]
  /\ work \in [Requests -> SUBSET Files]

-----------------------------------------------------------------------------
(* The outcome of a call to a store.  "late": the store did it, but the      *)
(* caller gets an error (a lost answer, a failed Commit after a statement    *)
(* that ran on the pool, a request context that ended).  "fail": an error,   *)
(* and nothing was done.                                                     *)
Outcomes == IF Faults THEN {"ok", "late", "fail"} ELSE {"ok"}

(* A uuid nobody has used.  Mutant: a key taken from the client's filename.  *)
FreshByName(f) == f \notin rows
Fresh(f) == f \notin objects /\ postOf[f] = None

(* Bounds: a request that stores files starts only while the uuids it may   *)
(* need, and the post id, are left in Files and Posts.                      *)
Pending(r) == IF pc[r] \in {"gate", "content", "insert", "list", "upload", "link"}
              THEN {<<r, i>> : i \in 1 .. (want[r] - Cardinality(mine[r]))}
              ELSE {}
FilesLeft(n) == Cardinality(UNION {Pending(r) : r \in Requests}) + n
                  <= Cardinality({f \in Files : Fresh(f)})
PostsLeft == Cardinality({r \in Requests : pc[r] = "insert"})
               < Cardinality({p \in Posts : post[p] = "unused"})

(* The store starts as any earlier requests that all succeeded left it: each *)
(* row belongs to a live post and has its object.                            *)
Init ==
  /\ post \in [Posts -> {"unused", "live"}]
  /\ postOf \in [Files -> Posts \cup {None}]
  /\ rows = {f \in Files : postOf[f] # None}
  /\ objects = rows
  /\ \A f \in rows : Live(postOf[f])
  /\ \A p \in Posts : Cardinality(RowsOf(p)) <= FileLimit
  /\ pc = [r \in Requests |-> "idle"]
  /\ kind = [r \in Requests |-> "none"]
  /\ target = [r \in Requests |-> None]
  /\ want = [r \in Requests |-> 0]
  /\ cur = [r \in Requests |-> None]
  /\ mine = [r \in Requests |-> {}]
  /\ list = [r \in Requests |-> {}]
  /\ work = [r \in Requests |-> {}]

-----------------------------------------------------------------------------
Goto(r, l) == pc' = [pc EXCEPT ![r] = l]

(* posts.go:30-56: a form with too many files is refused before anything is  *)
(* stored.  So is one that is not valid for another reason: forms, here and  *)
(* below, are valid but for the number of files.                             *)
StartCreate(r) ==
  /\ pc[r] = "idle" /\ "create" \in Kinds
  /\ PostsLeft
  /\ \E n \in 0 .. MaxInput :
       /\ FilesLeft(n)
       /\ want' = [want EXCEPT ![r] = n]
       /\ Goto(r, IF n > FileLimit THEN "400" ELSE "insert")
  /\ kind' = [kind EXCEPT ![r] = "create"]
  /\ UNCHANGED <<db, objects, target, cur, mine, list, work>>

(* posts.go:503-513: the file is stored under no post. *)
StartUpload(r) ==
  /\ pc[r] = "idle" /\ "upload" \in Kinds
  /\ FilesLeft(1)
  /\ want' = [want EXCEPT ![r] = 1]
  /\ kind' = [kind EXCEPT ![r] = "upload"]
  /\ Goto(r, "upload")
  /\ UNCHANGED <<db, objects, target, cur, mine, list, work>>

(* api.go:134-135: PATCH and DELETE name any post id, used or not. *)
StartOnPost(r) ==
  /\ pc[r] = "idle"
  /\ \E k \in Kinds \cap {"update", "delete"}, p \in Posts :
       /\ kind' = [kind EXCEPT ![r] = k]
       /\ target' = [target EXCEPT ![r] = p]
       /\ \E n \in IF k = "update" THEN 0 .. MaxInput ELSE {0} :
            FilesLeft(n) /\ want' = [want EXCEPT ![r] = n]
  /\ Goto(r, "gate")
  /\ UNCHANGED <<db, objects, cur, mine, list, work>>

(* The first step of the handler proper; updatePost first checks its form    *)
(* (posts.go:181-200).                                                       *)
Handler(r) ==
  IF kind[r] = "delete" THEN "list"
  ELSE IF UpdateFormValid /\ want[r] <= FileLimit THEN "content" ELSE "400"

(* postContextMiddleware (a missing post is ErrNotFound, which it does not   *)
(* compare with: 500), then checkPostOwnership, which dereferences a nil     *)
(* user where AuthMiddleware did not run (a panic: Recoverer answers 500).   *)
GateAnswers404(r) ==    \* mutant: an answer nothing here expects
  IF ~Live(target[r]) THEN {"404"} ELSE {Handler(r), "403"}
GateAnswers(r) ==
  IF ~Live(target[r]) \/ ~PostRouteAuth THEN {"500"}
  ELSE {Handler(r), "403"} \cup (IF Faults THEN {"500"} ELSE {})

PostGate(r) ==
  /\ pc[r] = "gate"
  /\ \E l \in GateAnswers(r) : Goto(r, l)
  /\ UNCHANGED <<db, objects, form, target, cur, mine, list, work>>

(* posts.go:203-214: UPDATE posts, which finds no row once the post is gone. *)
UpdateContent(r) ==
  /\ pc[r] = "content"
  /\ \E o \in Outcomes : Goto(r, IF o = "ok" /\ Live(target[r]) THEN "list" ELSE "500")
  /\ UNCHANGED <<db, objects, form, target, cur, mine, list, work>>

(* posts.go:58-69: INSERT INTO posts, in the transaction. *)
InsertPost(r) ==
  /\ pc[r] = "insert"
  /\ \E p \in Posts, o \in Outcomes :
       /\ post[p] = "unused"
       /\ post' = IF o = "fail" THEN post ELSE [post EXCEPT ![p] = "live"]
       /\ target' = IF o = "ok" THEN [target EXCEPT ![r] = p] ELSE target
       /\ Goto(r, IF o = "ok" THEN "upload" ELSE "500")
  /\ UNCHANGED <<rows, postOf, objects, form, cur, mine, list, work>>

(* GetByPostID (post_files.go:43-72) does not look at rows.Err(), so a read  *)
(* that breaks off gives the rows seen so far and no error.                  *)
Listed(p) == IF Faults THEN SUBSET RowsOf(p) ELSE {RowsOf(p)}

(* posts.go:219-232, 269-279 (updatePost) and 301-312 (deletePost). *)
ListFiles(r) ==
  /\ pc[r] = "list"
  /\ \/ \E fs \in Listed(target[r]) :
          /\ list' = [list EXCEPT ![r] = fs]
          /\ work' = [work EXCEPT ![r] = IF kind[r] = "delete" THEN fs ELSE {}]
          /\ Goto(r, IF kind[r] = "delete" THEN "rows"
                     ELSE IF want[r] = 0 THEN "200" ELSE "upload")
     \/ /\ Faults
        /\ Goto(r, "500")
        /\ UNCHANGED <<list, work>>
  /\ UNCHANGED <<db, objects, form, target, cur, mine>>

(* What an error does: updatePost first deletes the objects of the files it  *)
(* has linked (cleanupUploadedFiles), the others answer 500 at once.         *)
Undo(r) == IF kind[r] = "update" THEN mine[r] ELSE {}
AbortRetry(r) ==        \* mutant: a refused INSERT is tried again
  IF pc[r] = "link" THEN UNCHANGED <<pc, work>> ELSE Goto(r, "500") /\ UNCHANGED work
Abort(r) ==
  /\ Goto(r, IF kind[r] = "update" THEN "cleanup" ELSE "500")
  /\ work' = [work EXCEPT ![r] = Undo(r)]

(* posts.go:391-397 (processFileUpload) and 516-534 (uploadPostFiles, where  *)
(* "late" is also an error of GetFromR2).                                    *)
SaveAnyway(o) == TRUE   \* mutant: the error of PutObject is dropped
Saved(o) == o = "ok"

SaveToR2(r) ==
  /\ pc[r] = "upload" /\ Cardinality(mine[r]) < want[r]
  /\ \E f \in Files, o \in Outcomes :
       /\ Fresh(f)
       /\ objects' = IF o = "fail" THEN objects ELSE objects \cup {f}
       /\ IF Saved(o)
          THEN /\ Goto(r, IF kind[r] = "upload" THEN "200" ELSE "link")
               /\ cur' = [cur EXCEPT ![r] = f]
               /\ UNCHANGED work
          ELSE /\ Abort(r)
               /\ cur' = IF o = "fail" THEN cur ELSE [cur EXCEPT ![r] = f]
  /\ UNCHANGED <<db, form, target, mine, list>>

(* The foreign key post_files.post_id: the row needs its post. *)
LinkableAlways(r) == TRUE   \* mutant: post_id references nothing
Linkable(r) == Live(target[r])

(* posts.go:399-409: INSERT INTO post_files, on the pool. *)
LinkFile(r) ==
  /\ pc[r] = "link"
  /\ \E o \in Outcomes :
       /\ IF o # "fail" /\ Linkable(r)
          THEN /\ rows' = rows \cup {cur[r]}
               /\ postOf' = [postOf EXCEPT ![cur[r]] = target[r]]
          ELSE UNCHANGED <<rows, postOf>>
       /\ IF o = "ok" /\ Linkable(r)
          THEN /\ mine' = [mine EXCEPT ![r] = @ \cup {cur[r]}]
               /\ cur' = [cur EXCEPT ![r] = None]
               /\ Goto(r, "upload")
               /\ UNCHANGED work
          ELSE Abort(r) /\ UNCHANGED <<mine, cur>>
  /\ UNCHANGED <<post, objects, form, target, list>>

(* posts.go:83 (createPost answers) and 247 (updatePost goes on). *)
FilesDone(r) ==
  /\ pc[r] = "upload" /\ kind[r] # "upload" /\ Cardinality(mine[r]) = want[r]
  /\ Goto(r, IF kind[r] = "create" THEN "201" ELSE "rows")
  /\ work' = [work EXCEPT ![r] = list[r]]
  /\ UNCHANGED <<db, objects, form, target, cur, mine, list>>

(* posts.go:247-260 and 314-328: DELETE FROM post_files, on the pool; a row  *)
(* that is gone already is ErrNotFound.  The list has no ORDER BY.           *)
DroppedTwice(o, f) == o = "ok"  \* mutant: RowsAffected is not looked at
DroppedIt(o, f) == o = "ok" /\ f \in rows

DropRow(r) ==
  /\ pc[r] = "rows"
  /\ \E f \in work[r], o \in Outcomes :
       /\ rows' = IF o = "fail" THEN rows ELSE rows \ {f}
       /\ IF DroppedIt(o, f)
          THEN work' = [work EXCEPT ![r] = @ \ {f}] /\ UNCHANGED pc
          ELSE Abort(r)
  /\ UNCHANGED <<post, postOf, objects, form, target, cur, mine, list>>

(* What DELETE FROM posts takes with it: post_files.post_id ON DELETE CASCADE. *)
CascadedAll(p) == rows      \* mutant: the rows of every post
Cascaded(p) == RowsOf(p)

(* posts.go:330-333: DELETE FROM posts, on the pool. *)
DeletePost(r) ==
  /\ pc[r] = "rows" /\ work[r] = {} /\ kind[r] = "delete"
  /\ \E o \in Outcomes :
       /\ IF o # "fail" /\ Live(target[r])
          THEN /\ post' = [post EXCEPT ![target[r]] = "deleted"]
               /\ rows' = rows \ Cascaded(target[r])
          ELSE UNCHANGED <<post, rows>>
       /\ IF o = "ok" /\ Live(target[r])
          THEN Goto(r, "objects") /\ work' = [work EXCEPT ![r] = list[r]]
          ELSE Goto(r, "500") /\ UNCHANGED work
  /\ UNCHANGED <<postOf, objects, form, target, cur, mine, list>>

(* posts.go:262: updatePost goes on to the old objects. *)
RowsDroppedMine(r) ==   \* mutant: erases the new objects, not the old
  /\ pc[r] = "rows" /\ work[r] = {} /\ kind[r] = "update"
  /\ Goto(r, "objects")
  /\ work' = [work EXCEPT ![r] = mine[r]]
  /\ UNCHANGED <<db, objects, form, target, cur, mine, list>>
RowsDropped(r) ==
  /\ pc[r] = "rows" /\ work[r] = {} /\ kind[r] = "update"
  /\ Goto(r, "objects")
  /\ work' = [work EXCEPT ![r] = list[r]]
  /\ UNCHANGED <<db, objects, form, target, cur, mine, list>>

(* posts.go:262-267: an error is logged and the loop goes on; 335-341: an    *)
(* error answers 500.                                                        *)
EraseObject(r) ==
  /\ pc[r] = "objects"
  /\ \E f \in work[r], o \in Outcomes :
       /\ objects' = IF o = "fail" THEN objects ELSE objects \ {f}
       /\ work' = [work EXCEPT ![r] = @ \ {f}]
       /\ IF o # "ok" /\ kind[r] = "delete" THEN Goto(r, "500") ELSE UNCHANGED pc
  /\ UNCHANGED <<db, form, target, cur, mine, list>>

ObjectsLeft(r) ==       \* mutant: answers before the loop is over
  /\ pc[r] = "objects"
  /\ Goto(r, IF kind[r] = "delete" THEN "204" ELSE "200")
  /\ UNCHANGED <<db, objects, form, target, cur, mine, list, work>>
ObjectsErased(r) ==
  /\ pc[r] = "objects" /\ work[r] = {}
  /\ Goto(r, IF kind[r] = "delete" THEN "204" ELSE "200")
  /\ UNCHANGED <<db, objects, form, target, cur, mine, list, work>>

(* posts.go:414-418: errors are ignored. *)
CleanUp(r) ==
  /\ pc[r] = "cleanup"
  /\ \E f \in work[r], o \in Outcomes :
       /\ objects' = IF o = "fail" THEN objects ELSE objects \ {f}
       /\ work' = [work EXCEPT ![r] = @ \ {f}]
  /\ UNCHANGED <<db, pc, form, target, cur, mine, list>>

CleanedUp(r) ==
  /\ pc[r] = "cleanup" /\ work[r] = {}
  /\ Goto(r, "500")
  /\ UNCHANGED <<db, objects, form, target, cur, mine, list, work>>

(* The process dies; what it served is lost, and nothing is persisted that a *)
(* restart would go on with.                                                 *)
Crash ==
  /\ Faults
  /\ \E r \in Requests : pc[r] \in Active
  /\ pc' = [r \in Requests |-> IF pc[r] \in Active THEN "lost" ELSE pc[r]]
  /\ UNCHANGED <<db, objects, form, target, cur, mine, list, work>>

(* Nothing in flight: the server waits for requests. *)
Quiet == (\A r \in Requests : pc[r] \notin Active) /\ UNCHANGED vars

Start(r)   == StartCreate(r) \/ StartUpload(r) \/ StartOnPost(r)
Handle(r)  ==
  \/ PostGate(r) \/ UpdateContent(r) \/ InsertPost(r) \/ ListFiles(r)
  \/ SaveToR2(r) \/ LinkFile(r) \/ FilesDone(r)
  \/ DropRow(r) \/ DeletePost(r) \/ RowsDropped(r)
  \/ EraseObject(r) \/ ObjectsErased(r) \/ CleanUp(r) \/ CleanedUp(r)

Next == (\E r \in Requests : Start(r) \/ Handle(r)) \/ Crash \/ Quiet

Spec == Init /\ [][Next]_vars

(* net/http runs every handler in a goroutine of its own, so a request that  *)
(* can take its next step eventually does; nothing makes clients send one.   *)
FairSpec == Spec /\ \A r \in Requests : WF_vars(Handle(r))

-----------------------------------------------------------------------------
(* Every row of post_files has its object in the bucket: no post shows a     *)
(* broken file.  processFileUpload stores the object before the row and both *)
(* handlers drop the row before the object.  The one exception is            *)
(* updatePost's error path, which erases the objects of the files it has     *)
(* linked and leaves their rows (posts.go:239, 256).                         *)
RowsBacked ==
  \A f \in rows : \/ f \in objects
                  \/ \E r \in Requests : /\ kind[r] = "update" /\ f \in mine[r]
                                          /\ pc[r] \in {"cleanup", "500", "lost"}

(* A row names a post that exists: the foreign key and its cascade.          *)
RowsOwned == \A f \in rows : postOf[f] \in Posts /\ Live(postOf[f])

(* Every object without a row is there for a reason one can name: a request  *)
(* stored it and did not link it (or it is an upload); a delete or an update *)
(* that has listed it is still at work or broke off; or a delete removed the *)
(* post without having listed the file.  Nothing else leaks.                 *)
Unlinked(r, f)   == cur[r] = f /\ (kind[r] # "create" \/ pc[r] # "201")
BrokenOff(r, f)  == /\ f \in list[r]
                    /\ \/ pc[r] \in {"rows", "objects", "cleanup", "500", "lost"}
                       \/ Faults /\ kind[r] = "update" /\ pc[r] = "200"
Overlooked(r, f) == /\ kind[r] = "delete" /\ target[r] = postOf[f] /\ f \notin list[r]
                    /\ ~Live(postOf[f])
StraysExplained ==
  \A f \in objects \ rows : \E r \in Requests :
    Unlinked(r, f) \/ BrokenOff(r, f) \/ Overlooked(r, f)

(* A leak needs a fault or two requests on one post: where no request is in  *)
(* flight and no two named the same post, the bucket holds the files of the  *)
(* posts and of uploads, and nothing else.                                   *)
NoLeakAlone ==
  Faults \/ (\E r \in Requests : pc[r] \in Active)
         \/ (\E q, r \in Requests : q # r /\ target[q] # None /\ target[q] = target[r])
         \/ objects = rows \cup {cur[r] : r \in {q \in Requests : pc[q] = "200" /\ kind[q] = "upload"}}

(* What a 201, or a 200 for an update with files, tells the client holds: the *)
(* files it sent are rows of the post, with objects, until an update or a    *)
(* delete that listed them, or a delete of the post, takes them.             *)
Taken(f) == \E q \in Requests : kind[q] \in {"update", "delete"} /\ f \in list[q]
AnsweredKept ==
  \A r \in Requests :
    pc[r] = "201" \/ (kind[r] = "update" /\ pc[r] = "200") =>
      \A f \in mine[r] : \/ f \in rows /\ f \in objects /\ postOf[f] = target[r]
                         \/ ~Live(target[r]) \/ Taken(f)

(* A 204 is final: the post is gone, no row of it is there (not even one a   *)
(* slower createPost or updatePost links), and no file the delete listed is  *)
(* left in the bucket.                                                       *)
DeletedGone ==
  \A r \in Requests : pc[r] = "204" =>
    /\ ~Live(target[r])
    /\ RowsOf(target[r]) = {}
    /\ list[r] \cap objects = {}

(* At most one request is told that it removed a file: of two deletes or     *)
(* updates that listed the same row, the one that finds it gone fails.       *)
Dropped(r) == /\ kind[r] \in {"update", "delete"} /\ (kind[r] = "update" => want[r] > 0)
              /\ pc[r] \in {"objects", "200", "204"}
DroppedOnce ==
  \A q, r \in Requests : q # r /\ Dropped(q) /\ Dropped(r) => list[q] \cap list[r] = {}

(* Every request is answered, whatever the others do: the loops over files   *)
(* end and no handler waits for another.                                     *)
Answered == \A r \in Requests : pc[r] \in Active ~> pc[r] \in Answers

(* migrations/00002:17-18 says the admin role can delete posts: without a    *)
(* fault or another request, a delete of a live post does not answer 500.    *)
AdminsDelete ==
  \A r \in Requests :
    kind[r] = "delete" /\ Live(target[r]) /\ (\A q \in Requests \ {r} : pc[q] = "idle")
      => pc[r] # "500"

-----------------------------------------------------------------------------
(* PostFiles implements Attachments: what a file's life may look like.       *)
stage == [f \in Files |->
  CASE f \in rows /\ f \in objects -> "attached"
    [] f \in rows /\ f \notin objects -> "broken"
    [] f \notin rows /\ f \in objects -> IF postOf[f] = None THEN "stored" ELSE "detached"
    [] OTHER -> IF postOf[f] = None THEN "absent" ELSE "erased"]

A == INSTANCE Attachments WITH owner <- postOf, MayBreak <- "update" \in Kinds
AttachmentsSpec == A!Spec
=============================================================================
