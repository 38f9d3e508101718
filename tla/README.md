# glimpze: a verification project in TLA+

glimpze is a Go web API for posts with images, comments, likes and tags
(module `newsdrop.org`). It serves HTTP with chi, keeps its rows in PostgreSQL
(pgx), its images in an R2 bucket, and its sessions in Valkey. It has no tests.
This directory holds TLA+ modules of the parts where several requests, several
stores and failures meet, the TLC configurations that check them on small
instances, and proofs of the main invariants for every instance.

Paths below are relative to `src/`; `posts.go`, `auth.go`, `api.go`,
`middleware.go`, `feed.go`, `comments.go`, `tags.go` and `helpers.go` are in
`cmd/api/`.

## 1. Inventory

| component | state | operations | interacts with |
|---|---|---|---|
| post files (`posts.go`, `store/posts.go`, `store/post_files.go`, `storage/r2.go`) | rows of `posts`, `post_files`; objects in R2 | `createPost`, `updatePost`, `deletePost`, `uploadPostFiles` | PostgreSQL and R2, one call after another; no transaction spans them |
| connection pool, `Storage.WithTx` (`store/storage.go`, `db/db.go`) | at most `MaxConns` connections, a queue of waiters | `Begin`, the closure, `Commit`, deferred `Rollback` | every handler that writes; most closures ask the pool again |
| sessions (`auth.go`, `middleware.go`, `auth/auth.go`, `store/cache/sessions.go`) | Valkey keys `access:`+jti, `refresh:`+jti with a time to live | `login`, `refreshToken`, `logout`, `AuthMiddleware`, `optionalAuthMiddleware` | Valkey, `users`, cookies or bearer tokens |
| accounts (`auth.go`, `store/users.go`, `store/tokens.go`, `helpers.go`, `mailer/`) | rows of `users`, `user_tokens`; mails in flight | `register`, `activateUser`, `login` | PostgreSQL; a background goroutine that shares the `ResponseWriter` |
| paged lists (`feed.go`, `comments.go`, `store/posts.go`, `store/comments.go`) | none of its own | `userFeed`, `listComment` | one query per page, while others write |
| access (`middleware.go`, `posts.go:424`, `store/roles.go`) | roles with a level | `postContextMiddleware`, `checkPostOwnership`, `checkResourceAccess` | needs the user `AuthMiddleware` puts into the context |
| likes, tags, comments (`posts.go:449-501`, `tags.go`, `comments.go`) | rows of `post_likes`, `tags`, `post_tags`, `comments` | add, remove, list | foreign keys and cascades from `posts`, `users` |
| post queries (`store/posts.go`: `GetByID`, `GetByUserID`, `GetByTag`, feeds) | none | joins with aggregates | – |
| server lifecycle (`api.go:181`, `main.go`) | listening, shutting down | `run`, signal goroutine | five seconds for handlers; background work is not waited for |
| middleware stack (`api.go:78-99`) | rate counters | rate limit, CORS, timeout, recoverer | library code |
| profile and roles of users (`users.go`), user cache (`store/cache/users.go`), mailer clients, migrations, seed, configuration | – | one read; not routed; not called; I/O; a tool; reading the environment | – |

### What is hard

* **Two stores, no transaction.** A file is an object and a row. The handlers
  order their calls so that a row always has an object; an error, a lost answer
  or a crash between two calls leaves something behind.
* **`WithTx` is mostly not a transaction.** It hands its closure a `Storage`
  bound to the transaction, but all closures except `posts.go:61, 206, 222` call
  `app.store`, which runs on the pool and commits by itself. So every statement
  of a handler is a step that others may interleave with, an error of `Commit`
  is reported after the statement has committed, and the request holds two
  connections.
* **Stale lists.** `updatePost` and `deletePost` list the files and then work
  through the list, statement by statement.
* **Check, then act in Valkey.** `refreshToken` reads the key, deletes it
  without looking at the result, then writes two new keys one after the other.
* **Background work.** The activation mail is sent by a goroutine that nobody
  waits for and that may answer in the place of `register`.
* **Paging by offset** over a list that changes, and a count read before the page.
* **Rows that hang on others.** Likes, tags and comments refer to posts and tags
  that others delete; `addTag` finds a tag by name before its keys are checked.
* **Joins that multiply.** The queries join likes, files, tags and comments to a
  post at once, and aggregate over all combinations.
* **A shutdown in two goroutines.** `ListenAndServe` returns before `Shutdown`
  does, and every error is `log.Fatal`.

What makes each component correct is stated below with the properties;
`PROJECT.json` lists the hazards at their lines.

## 2. Modules

| module | models | composes / used by |
|---|---|---|
| `PostFiles` | the four handlers on posts and files | `PostFilesInv`, implements `Attachments` |
| `Attachments` | abstract: what a file's life may look like | refinement target of `PostFiles` |
| `PostFilesInv` | the inductive invariant of `PostFiles` | `PostFilesProofs`, `MCPostFiles` |
| `PostFilesProofs` | theorems and proofs about `PostFiles` | |
| `ConnPool` | the pool and `WithTx` | `ConnPoolProofs`, `MCConnPool` |
| `ConnPoolProofs` | theorems and proofs about `ConnPool` | |
| `Sessions` | session keys in Valkey | `SessionsProofs`, `MCSessions` |
| `SessionsProofs` | theorems and proofs about `Sessions` | |
| `Accounts` | registration, activation, the mail | `AccountsProofs`, `MCAccounts`, implements `AccountLife` |
| `AccountLife` | abstract: what becomes of the account of a name | refinement target of `Accounts` |
| `AccountsProofs` | theorems and proofs about `Accounts` | |
| `Pages` | a client that pages through a list | `PagesProofs`, `MCPages` |
| `PagesProofs` | theorems and proofs about `Pages` | |
| `PostQueries` | the joins and aggregates of `store/posts.go`, for the rows of one post | `Board` |
| `Board` | likes, tags, comments, their gates and cascades | extends `PostQueries`; `BoardProofs`, `BoardCountProofs`, `MCBoard` |
| `BoardProofs` | theorems and proofs about `Board` | `BoardCountProofs` |
| `BoardCountProofs` | theorems about what `Board` counts: answers, pages, joined rows | extends `BoardProofs` |
| `Lifecycle` | boot, serving, signals, shutdown | `LifecycleProofs`, `MCLifecycle`, implements `Process` |
| `Process` | abstract: what the end of the process may do to requests; the `Crash` of the other modules is its `End` | refinement target of `Lifecycle` |
| `LifecycleProofs` | theorems and proofs about `Lifecycle` | |
| `MC*` | instances for TLC; symmetry of model values | the `.cfg` files |

### Correspondence with the code

**PostFiles.** A request is a member of `Requests` with a program counter `pc`;
each label stands for the next call the handler makes: `gate`
(`postContextMiddleware`, `checkPostOwnership`), `content` (`UPDATE posts`),
`insert` (`INSERT INTO posts`), `list` (`GetByPostID`), `upload` (`PutObject`),
`link` (`INSERT INTO post_files`), `rows` (`DELETE FROM post_files`, one by one,
then `DELETE FROM posts`), `objects` (`DeleteObject`), `cleanup`
(`cleanupUploadedFiles`). When it is over `pc` is the status of the answer, or
`lost`. `rows`, `postOf`, `post` are the tables, `objects` the bucket, `list` is
`oldPostFiles`/`postFiles`, `mine` is `filenames`, `cur` a file stored and not
yet linked, `work` what a loop has left. Each call has three outcomes: `ok`,
`fail` (an error, nothing done) and `late` (done, and an error to the caller:
a lost answer, a failed `Commit`, an expired context). `GetByPostID` ignores
`rows.Err()`, so under faults it may give any subset of the rows. Forms are
valid but for the number of files. Two constants describe the code as committed
and as meant: `PostRouteAuth` (api.go:131 is commented out: `FALSE` as
committed) and `UpdateFormValid` (posts.go:187 refuses every form: `FALSE` as
committed). As committed the gate answers 500 to every PATCH and DELETE of a
live post, and to every one of a missing post; were the gate repaired, every
PATCH would get the form's 400. The passing runs set both to `TRUE`, so that the
code behind the checks is verified. Whoever is refused by role is a `403` the
gate may always give; a `401` is `AuthMiddleware`'s and in `Sessions`, so a
request here is one that has passed it.

**ConnPool.** `tx` and `stmt` are the connections of the transaction and of the
statement on the pool; `nested` says whose closure uses `app.store`, which may
still fail before it asks for the second one (`addLike` without a user,
posts.go:456, panics). `Deadline` is the context of `middleware.Timeout`. The order of the queue is external
(pgx's puddle pool is first come, first served).

**Sessions.** A member of `Tokens` is what one `IssueTokens` makes, with two
jtis. `valkey` is the set of keys there are, by prefix and pair; logout's
prefixes without a colon are there as the code writes them. `Expire` is the time
to live. `given` are the pairs a client was handed; only those can be presented,
which is what signatures are for. `before` and `unspent` are history.

**Accounts.** A name stands for an email address and a user name. `tokens` are
the `user_tokens` rows, `owner` their `user_id`, kept when the row is gone;
`mail` is the background goroutine. `Mailer = "nil"` is the program as committed
(main.go:98-106 never sets `app.mailer`: the goroutine panics and recovers);
`"sandbox"` and `"api"` are the two modes of `SendAPI`. The run uses `"api"`,
the mode in which accounts can be activated at all.

**Pages.** `made` is `created_at`, the start of the transaction that inserts,
read from `clock` (no two rows share a date: a microsecond's tie would be broken
in any order by each query); `Insert` takes the time and `Commit` makes the row
visible. `Before` is the ORDER BY: newest, oldest, or `like_count DESC,
created_at DESC` where `like_count` is 0 or 1, because the query counts distinct
`post_id`s. `Rank` is the number of a row in the whole result, and a page is the
rows whose rank is in the window of LIMIT and OFFSET. With `Faults` a read may
break off after any number of rows: `rows.Err()` is not asked, so a short page
comes with a 200, and the client, who stops at a page that is not full, stops.
`cut` remembers what lay behind.

**Board.** A request goes through `gate` (`postContextMiddleware`), `role`
(`checkPostOwnership`, `checkResourceAccess`) and `run`; `insert` is `addTag`
between its subselect and its key checks, `page` is `listComment` between its
count and its page. Every other handler is one statement, since its closure runs
on the pool. `Tell` gives a statement the three outcomes of `PostFiles`. The four
tables are sets of rows; `tagName` and `commentOf` are columns, kept when a row is
gone, because ids are never used again. `Hanging`, `LikesOf`, `OfPost` and
`CommentsOf` are the cascades of migrations 00007 to 00009. A post that is
missing is answered 500 by `postContextMiddleware`, which compares with
`pgx.ErrNoRows` where the store gives `ErrNotFound` (posts.go:436), and 404 by
`getPost`. `deletePost` is the row and its cascades here; its files are in
`PostFiles`. `moved` counts, for each list between its two statements, the
comments of its post that came or went.

**PostQueries.** A group of a query is every combination of a file, a like, a
tag (and, in the feeds, a comment) of one post, with `Null` where a table has no
row: that is what the LEFT JOINs and the GROUP BY give. Each aggregate is an
operator on a group. The file ids repeat as often as the other tables multiply
them, so `getPost` asks R2 for a link as often (posts.go:112).

**Lifecycle.** `main` is where the main goroutine is: the five steps of
main.go:47-96, then `start`, `serve`, `wait`, `return` in `run`, then how the
process ended. `stop` is the signal goroutine and what `Shutdown` gave it. Every
`log.Fatal` is `End("exit1")`, which runs no deferred call. A signal before
`signal.Notify` kills the process; the goroutine is started before
`ListenAndServe` but nothing waits until it has asked for signals. `Closed` is
what net/http does on `Shutdown`: no new connection, and `ErrServerClosed` at
once. Connections, their requests and handlers are net/http's and external.

## 3. Runs

| run | instance | checks | states |
|---|---|---|---|
| `post_files` | 3 requests (all kinds; an update meets one other request), 2 posts, 3 files, 2 files to a form, faults | type, `IInv`, rows have objects, leaks have a cause, 201 and 204 hold, no file removed twice, refinement of `Attachments` | 360 thousand |
| `post_files_live` | 2 requests (all kinds), 2 posts, 3 files, no faults, fairness | nothing leaks without overlap; every request is answered | 209 thousand |
| `admins_delete` | 2 requests, delete only | **violated**: admins cannot delete | – |
| `conn_pool` | 3 requests, 2 connections, 2 transactions each | type, stall needs nesting, no leak, every stall ends | 39 thousand |
| `sessions` | 3 requests, 2 users, 3 pairs, faults | single use, sessions end only by a named cause, access is traced to a login | 685 thousand |
| `logout` | 2 requests, no faults | **violated**: logout ends no session | – |
| `accounts` | 4 requests, 2 names, 2 ids, 2 tokens, faults | type, answers of register, stranded accounts explained, an activation is done, refinement of `AccountLife` | 125 thousand |
| `confirm_first` | 2 requests | **violated**: login without confirmation | – |
| `pages` | 5 items, pages of 2, 2 deletions or changes of likes, reads that break off | bounds on what is missed and seen twice | 266 thousand |
| `board` | 3 requests, a user of each role, 2 posts, 2 names, 3 tag ids, 3 comment ids, 2 files, pages 0 to 2 of one comment, faults | rows agree, answers agree with rows, deletions by right and told once, what queries show | 658 thousand |
| `lifecycle` | 3 connections, Valkey on, fairness | who is cut off, a caught signal ends the process, refinement of `Process` | 6 thousand |

**What the properties say.** *RowsBacked*: a row has its object, except for
files `updatePost` linked and cleaned up after an error (posts.go:239, 256).
*StraysExplained*: an object without a row was stored and never linked, or
belongs to an update or delete that broke off (or dropped an error), or was
overlooked by a delete that removed its post. *NoLeakAlone*: without a fault and
without two requests on one post the only objects without a row are those of
`uploadPostFiles`, which makes none. *AnsweredKept*: what a 201
(or an update's 200) reported stays until somebody takes it. *DeletedGone*: a
204 is final, even against a slower `createPost`. *DroppedOnce*: one request
removes a file. *Attachments*: a file is stored, attached to a live post at most
once, detached, erased, in this order. *Answered*: handlers end. *NoStall*,
*Ends*: the pool blocks only when as many nested closures are in flight as there
are connections, and then until a deadline. *SingleUse*, *SessionsLast*,
*Traced*: refresh tokens serve once (one after the other: two that overlap, or
one after a `Delete` that failed, may both be answered 201); a key of a pair that
was handed out goes only by lapse, by a logout of the pair, or by a refresh that
spent it and hands out another or is cut off; and who is let in had a pair of a
login of that user. A logout that deleted the right keys would satisfy all of
them: `logout` is judged by `LoggedOut`, in a run of its own.
*RegisterTold*, *ActivatedOnce*, *StrandedExplained*: answers of register are
true, an activation that was answered is done and has spent all of the user's
tokens, and an account that cannot be activated is one whose register is not that
far or broke off, whose mail was not sent, or whose token has expired (three
days; nothing sends another). *AccountLife*: of a name an account is made, sent a token,
activated, in this order and for good; where no mail is sent (the program as
committed) it is never activated. *MissedPerMove*, *TwicePerArrival*, *OldestOnce*: a reader
misses at most one row per deletion or like, and what lies behind the point where
the last page broke off, and sees at most one twice per arrival (or like). *RowsAgree*: nothing hangs on a post that is gone, and a
`post_tags` row has the id and the name of one tag, even if the tag was deleted
and made again under `addTag`. *LikesTold*: the 201s of likes and the 204s of
unlikes add up to the row, but for those answered 500. *GoneOnce*: of the
requests to delete one thing at most one is told 204, and it stays gone; a read
told 404 was right. *ByRight*: what is gone was deleted by who may. *CountTold*:
the length of a page that did not break off and the one its number and
`comment_count` give differ by no more than the comments of the post that came or
went between the two statements, and no page before the first is answered 200. *PostShown*, *FeedShown*: what
each query gives of a post, exactly: every file and tag; likes multiplied by
files and tags in the single-post queries and cut down to 0 or 1 in the feeds;
comments exact. *CutExplained*: a handler is cut off only by the five seconds, by
a signal too early to be caught or by a failing listener; when `run` returns nil
no handler runs. *Stops*: a caught signal ends the process. *Process*: requests
are lost all together with the process and only if it does not end cleanly;
background work may be lost at any end.

**Bounds.** `Posts`, `Files`, `Tokens`, `Ids` bound ids the program draws without
limit; a request that needs one starts only while enough are left, so no request
is ever stopped halfway by a bound. `FileLimit` is 4 in the code and 2 in the
runs: two files are the least for "linked one, failed on the next"; three are
sent to meet the refusal. Two requests on one post make every pairwise race,
three let a third see what the two left. `MCPostFiles!Bounded` keeps three
requests from meeting when one is an update, whose loops make that instance too
large; updates still meet every kind of request, two posts and faults. In
`board`, `Mixes` lists the handlers that meet, in sets of three or four that touch
the same rows; handlers on different tables are not mixed, but for one set that
does. Three tag ids over two names let a name be
deleted and made again; pages of one comment (20 in the code) put three comments
on different pages. Ids and rows there at first are those of `db/seed.go`, a few
of each. `MaxRounds = 2` is a transaction after
another; two connections and three requests are the least with a stall and a
waiter behind it. Five items in pages of two give three pages, so a row can
cross two borders. Three connections let one be cut off, one be refused and one
end. The proofs remove these bounds for every module (`PostQueries` as part of
`Board`); only liveness depends on them.

**Symmetry** is used for requests, posts, files, users, names, ids, tokens and
items in safety runs only (in `board` for requests: its users, posts and tags
differ); no definition tells them apart and no run checks a temporal property
under it (each refinement is an initial condition and an action property).

**Fairness.** `PostFiles!FairSpec` is weak fairness of each request's `Handle`:
net/http runs every handler in its own goroutine and every call ends, at the
latest with its context. Starting a request is not fair: nothing makes clients
send one. The run has no faults, so no crash cuts handlers off.
`ConnPool!FairSpec` is weak fairness of each request's step and of its deadline:
a context with a timeout ends. `Lifecycle!FairSpec` is weak fairness of the main
goroutine's next step and of the five seconds of `Shutdown`'s context; no handler
is assumed to end, no client to send, no signal to come. Other modules state no
liveness.

**Deadlock** is checked in every run; `Quiet` (and `Over`) is the server with
nothing in flight, `Dead` a process that has ended.

## 4. What the violated runs show

1. `admins_delete`: migration 00002:17-18 says admins "can update and delete
   posts and comments". With api.go:131 commented out the gate dereferences a
   nil user (middleware.go:80): every DELETE of a post is answered 500. A PATCH
   goes through the same gate and fares alike, a moderator's too; behind it,
   posts.go:187 validates a form whose required `Title` is never set.
2. `logout`: auth.go:206, 212 delete `access<jti>` and `refresh<jti>`;
   auth/auth.go:81, 84 set `access:<jti>` and `refresh:<jti>`. The answer is
   "success" and the session goes on.
3. `confirm_first`: the welcome mail says the address has to be confirmed
   "before you can start using NewsDrop" (mailer/templates/user_welcome.tmpl:12);
   nothing looks at `Activated`.

## 5. What is proved

TLAPS proves, for every value of the constants that meets the assumption of each
module (`PostFilesAssumption`, `ConnPoolAssumption`, `SessionsAssumption`,
`AccountsAssumption`, `PagesAssumption`, `BoardAssumption`,
`LifecycleAssumption`: null values are not members of the sets they stand beside,
numbers are naturals, seeds have one row to a name, the pool has finitely many
connections and at least one, and there are finitely many items to page through,
files and comments, so that counting them means something):

* **PostFilesProofs**: `Invariance` (`Spec => []IInv`) and from it `TypeCorrect`,
  `NoBrokenFiles`, `LeaksExplained`, `AnswersHold`, `DeletesAreFinal`,
  `DropsAreUnique`, `AloneNoLeak`, and `Refinement` (`Spec => AttachmentsSpec`).
* **ConnPoolProofs**: `Invariance`, `TypeCorrect`, `ConnectionsReturned`,
  `PoolMoves`.
* **SessionsProofs**: `Invariance`, `TypeCorrect`, `RefreshedOnce`,
  `SessionsKept`, `ServedAsOwner`.
* **AccountsProofs**: `Invariance`, `TypeCorrect`, `RegisterToldTrue`,
  `ActivatedOnlyByMail`, `NoneStranded`, `ActivatedForGood`, and `Refinement`
  (`Spec => AccountLifeSpec`).
* **BoardProofs**: `Invariance`, `TypeCorrect`, `RowsAlwaysAgree`,
  `DeletesToldOnce`, `DeletedByRight`.
* **BoardCountProofs**: `CountsInvariance`, `LikesAlwaysTold`, `CountAlwaysTold`,
  `PostAlwaysShown`, `FeedAlwaysShown`.
* **PagesProofs**: `Invariance`, `TypeCorrect`, `AlwaysMissedPerMove`,
  `AlwaysTwicePerArrival`, `AlwaysOldestOnce`.
* **LifecycleProofs**: `Invariance`, `TypeCorrect`, `CutsExplained`, and
  `Refinement` (`Spec => ProcessSpec`).

**The inductive invariant of PostFiles.** None of the properties is inductive.
`RowsBacked` needs to know that a file about to be linked is in the bucket, has
no row, and is in nobody else's hand (`InHand`), and that whoever erases objects
in a loop has deleted their rows first and nothing links them again (`Loops`,
`Known`: what has been listed or linked has an owner, so it is not fresh and not
in hand). `DeletedGone` needs that rows belong to live posts (`RowsOwned`: the
foreign key) and that ids are not reused (`Deleting`, `Dated`). `AnsweredKept`
needs `Linked`: a request's files are its own and leave only by a request that
listed them. `StraysExplained` needs `EmptyHanded`, to know that a file out of
the hand was linked. `DroppedOnce` needs `Claimed`, the rows a request has
deleted so far: a row is deleted by one request, because the second one's DELETE
affects no row. The proof has a lemma per action, each with a step per conjunct
the action can disturb.

`NoLeakAlone` holds where there are no faults and no two requests have named one
post (`Alone`), so it has an invariant of its own, `AloneInv`, proved beside
`IInv`. Part of it holds always: what a request listed was linked to the post it
names (`OwnTarget`), and what an upload stored nobody links (`Uploaded`). The
rest is for `Alone`, which, once false, stays false: a handler past the gate is
never hindered (`Unhindered`: its post is there, what it listed and has not
dropped yet is a row, and a delete drops every row of the post), and an object
without a row is in the hands of a request at work, or an upload's (`Tidy`,
`Holds`). When all have answered only the uploads' objects are left.

The refinement maps the five combinations of row, object and owner of a file to
the stages of `Attachments`; each action is one step of it or a stutter.

**The pool.** The invariant carries `QueueExact`, a fact of the external queue:
who waits is in it once, so a grant or a deadline concerns whom it should. For `NoStall`: if no connection is
free and nobody runs, each connection is held by a request at its second
acquisition (nobody else holds one, `NoLeak`, `OneStmt`, `Acquiring`), by one
request each (`Exclusive`), so there are as many nested requests as connections.

**Sessions.** `SingleUse` needs `UsedOnce`: a refresh that began after another
one had spent the same token is still at its lookup or refused; that needs
`Spent` (past its DELETE, and unless that failed, the key is not in Valkey), and
that nobody sets a key of a pair a second time, which is `Issue` and the
uniqueness of `new`. `SessionsLast` follows a key from the moment it is set to
its end: a new pair has both keys, or their time is over, before it is handed out
(`Issue`), the only DELETEs are `refreshToken`'s of the key it looked up and
`logout`'s of what it was presented, and who spent a key is on its way to another
pair, has handed it out, or was stopped.

**Accounts.** `StrandedExplained` follows, but for expired tokens, which are an
excuse of their own, from `Left` (a token that is gone
belonged to an activated account), `Owned` and `Registered`: an account has the
register that made it, and `Registering` says how far that one got.
`ActivatedByMail` is inductive with `Activating`: who is past the lookup holds a
token that was mailed and whose owner is the account at hand. The refinement maps
the rows of a name to its stage in `AccountLife`: `CreateUser` on a free name,
`SendMail` and `UpdateUser` each move one name by one stage, or leave it (a second
mail or activation); all other actions keep the four variables the stage is read
from. That needs `Issue` and `Owned` (a mailed token has an owner with a row) and
`Activating`.

**Board.** `RowsAgree` needs `FoundNamed` in `Spent`: the tag the subselect found
has the name it looked for, whatever became of its row, because ids are not used
again; the key check then finds the row of that id. `GoneOnce` needs the same of
ids that a request was told it deleted, `ByRight` needs `Gated`: who runs was
entitled. Each action either only answers, or removes rows, or adds one row whose
references exist: one lemma for each of these shapes does most of the work.

**What Board counts.** `LikesTold` is a balance of three counts of requests and a
row. A step adds one request to one count (`ToldStep`: a request that is answered
leaves no other answer), so each of the outcomes of `AddLike` and `RemoveLike`
is an equation, and every other action keeps counts and row (`LikesKept`), or
removes the post with its likes. `CountTold` needs `Counted`: between its two
statements, what `list` counted is off by no more than `moved`; `LengthOff` then
carries that bound from the count to the page (a page's length changes by no more
than the count does), whatever the page's number. `PostShown` and `FeedShown`
hold in every state in which the tables are finite: a group is in bijection with
the product of the joined tables (`RowsCounted`), a LEFT JOIN makes an empty
table one row (`OuterCounted`), and WHERE and FILTER select a smaller product
(`GroupParts`).

**Pages.** The ORDER BY is a strict total order of the rows there are
(`BeforeOrders`), so ranks number them without a tie (`RanksOrder`) or a gap
(`RanksDense`, by counting: the rows up to one of rank n have n different ranks,
none above n); hence a page with a row behind it that did not break off is full
(`FullPage`), and after a short page nothing is left to read but what the break
hid (`Through`). A delete moves the rows behind
it up by one, a commit down by one, a like moves one row past the others
(`DeleteMoves`, `CommitMoves`, `LikeMoves`): each carries one row at most across
the `Border` of what has been asked for. The bounds on what was missed and shown
twice are not inductive, as they say nothing of what will be missed: the
invariant bounds `Lost`, the rows behind the client that it was not shown, and
`Again`, those it was shown twice or was shown and has ahead of it once more.

**Lifecycle.** `CutExplained` needs that `run` returns nil only after `Shutdown`
gave nil, at which moment no connection is open or served and none is accepted
any more (`Conn`), and that main is past `serve` only once `Shutdown` was called.

**Only model-checked**: liveness (`Answered`, `Ends`, `Stops`), which is beyond
the prover. Every safety property of every passing run is a theorem.

## 6. What is not modelled

Text, bytes, cookies, JSON and SQL columns; `uuid.New` and random tokens are
taken as unique, passwords as right or wrong. Requests that are refused before
any call to a store (a body that is not JSON, a missing cookie, a token that does
not parse). The write timeout of the server (30 s) only loses answers, as `late`
does. Valkey is off by default (main.go:31, 60-67), in which case every session
call is a nil dereference: the model has it on. `updateUserRole`, `Send`, and the user cache are
never called; seed, migrations, configuration and the mail templates are I/O; `profile` is one
read; the rate limiter is a library's. A comment's text and author are not in
`Board`: no handler looks at the author when it changes or deletes a comment.
Lists that break off go unnoticed everywhere (`rows.Err()` is never asked):
`PostFiles` has it for a list of files, `Pages` and `Board` for a page. Which file types are
taken is not modelled (the message of `ErrUnsupportedFile`, posts.go:23, names
one that the list of extensions does not).
`GetByTag` (no ORDER BY) and comments by `likes` (never changed) promise nothing
over pages.

## 7. Plan

The modules were written in this order: `PostFiles` with `Attachments`,
`ConnPool`, `Sessions`, `Accounts`, `Pages`, then the proofs about `Sessions` and
`Accounts`, `PostQueries` and `Board`, `Lifecycle` with `Process`, and their
proofs; then what counts requests, rows and ranks (`BoardCountProofs`,
`PagesProofs`, `AloneNoLeak`) and the account life (`AccountLife`). What is left:

1. Sessions composed with the gate of `PostFiles` and `Board`: who passes it had
   a session. Both take the user as given now.
