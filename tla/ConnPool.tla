----------------------------- MODULE ConnPool -----------------------------
(***************************************************************************)
(* How requests share the connections of the pgx pool (db/db.go).  A       *)
(* handler that calls Storage.WithTx holds one connection for the          *)
(* transaction (store/storage.go:108).  Most closures then call app.store, *)
(* not the Storage they are given, so their statement waits for a second   *)
(* connection while the first is held; createPost and updatePost use the   *)
(* one of the transaction.  The pool hands connections out in the order of *)
(* the requests for one (external: puddle's queue).                        *)
(***************************************************************************)
EXTENDS Naturals, Sequences, FiniteSets

CONSTANTS
  Requests,    \* HTTP requests, each served once
  Conns,       \* the connections of the pool: MaxConns of them, 30 by default
  None,        \* no connection
  MaxRounds,   \* bound on the transactions of a request (one per file, and more)
  Deadlines    \* may the request's context end?  (api.go:99: after a minute)

ASSUME ConnPoolAssumption ==
  /\ None \notin Conns
  /\ IsFiniteSet(Requests) /\ IsFiniteSet(Conns) /\ Conns # {}
  /\ MaxRounds \in Nat
  /\ Deadlines \in BOOLEAN

VARIABLES
  pc,      \* where a request is
  tx,      \* the connection of its transaction
  stmt,    \* the connection of the statement it runs on the pool
  queue,   \* the requests waiting for a connection, in order
  rounds,  \* the transactions it has still to run
  nested   \* the requests whose closure at hand runs its statement on the pool

vars == <<pc, tx, stmt, queue, rounds, nested>>

Waiting == {"begin", "acquire"}               \* blocked in pool.Acquire
Running == {"inTx", "inStmt", "commit", "rollback"}
Ended   == {"answered", "failed"}

TypeOK ==
  /\ pc \in [Requests -> {"idle"} \cup Waiting \cup Running \cup Ended]
  /\ tx \in [Requests -> Conns \cup {None}]
  /\ stmt \in [Requests -> Conns \cup {None}]
  /\ queue \in Seq(Requests)
  /\ rounds \in [Requests -> 0 .. MaxRounds]
  /\ nested \subseteq Requests

Held(r) == {tx[r], stmt[r]} \ {None}
Free    == {c \in Conns : \A r \in Requests : c \notin Held(r)}

Init ==
  /\ pc = [r \in Requests |-> "idle"]
  /\ tx = [r \in Requests |-> None]
  /\ stmt = [r \in Requests |-> None]
  /\ queue = <<>>
  /\ rounds = [r \in Requests |-> 0]
  /\ nested = {}

Goto(r, l) == pc' = [pc EXCEPT ![r] = l]
Enqueue(r) == queue' = Append(queue, r)

(* s without its i-th element. *)
DropAt(s, i) == [j \in 1 .. Len(s) - 1 |-> s[IF j < i THEN j ELSE j + 1]]

(* A handler calls WithTx: pool.Begin first acquires (storage.go:108).  Each *)
(* closure uses app.store or s.                                              *)
CallWithTx(r) ==
  /\ Goto(r, "begin") /\ Enqueue(r)
  /\ nested' \in {nested \ {r}, nested \cup {r}}

Start(r) ==
  /\ pc[r] = "idle"
  /\ \E n \in 1 .. MaxRounds : rounds' = [rounds EXCEPT ![r] = n]
  /\ CallWithTx(r)
  /\ UNCHANGED <<tx, stmt>>

(* The pool gives a free connection to the first in the queue. *)
Grant(r) ==
  /\ queue # <<>> /\ Head(queue) = r
  /\ \E c \in Free :
       IF pc[r] = "begin"
       THEN tx' = [tx EXCEPT ![r] = c] /\ Goto(r, "inTx") /\ UNCHANGED stmt
       ELSE stmt' = [stmt EXCEPT ![r] = c] /\ Goto(r, "inStmt") /\ UNCHANGED tx
  /\ queue' = DropAt(queue, 1)
  /\ UNCHANGED <<rounds, nested>>

(* storage.go:129: the closure.  With app.store its statement asks the pool  *)
(* for a connection of its own, unless the closure panics before (no user,   *)
(* posts.go:456); with s it runs in the transaction.                         *)
TwoConnsAlways(r) == TRUE   \* mutant: every closure uses app.store
TwoConns(r) == r \in nested

Closure(r) ==
  /\ pc[r] = "inTx"
  /\ \/ TwoConns(r) /\ Goto(r, "acquire") /\ Enqueue(r)
     \/ ~TwoConns(r) /\ Goto(r, "commit") /\ UNCHANGED queue
     \/ Goto(r, "rollback") /\ UNCHANGED queue
  /\ UNCHANGED <<tx, stmt, rounds, nested>>

(* The statement on the pool ends, and its connection goes back; with an     *)
(* error, or a panic, the closure ends too.                                  *)
EndStatement(r) ==
  /\ pc[r] = "inStmt"
  /\ stmt' = [stmt EXCEPT ![r] = None]
  /\ \E l \in {"commit", "rollback"} : Goto(r, l)
  /\ UNCHANGED <<tx, queue, rounds, nested>>

(* The connection of the transaction goes back, at Commit or at the deferred *)
(* Rollback, which also runs when the closure panics.                        *)
KeepTx(r) == UNCHANGED tx   \* mutant: no deferred Rollback
GiveBack(r) == tx' = [tx EXCEPT ![r] = None]

(* The handlers' loops run a transaction for each file (posts.go:72, 247).   *)
MoreAlways(r) == TRUE       \* mutant: the loop runs past its last file
More(r) == rounds[r] > 1

(* storage.go:133: then the handler's next transaction, or its answer.  The  *)
(* connection goes back from a COMMIT that fails, too.                       *)
Commit(r) ==
  /\ pc[r] = "commit"
  /\ tx' = [tx EXCEPT ![r] = None]
  /\ rounds' = [rounds EXCEPT ![r] = @ - 1]
  /\ \/ More(r) /\ CallWithTx(r)
     \/ ~More(r) /\ Goto(r, "answered") /\ UNCHANGED <<queue, nested>>
     \/ Goto(r, "failed") /\ UNCHANGED <<queue, nested>>
  /\ UNCHANGED stmt

(* storage.go:112, 129-131. *)
Rollback(r) ==
  /\ pc[r] = "rollback"
  /\ GiveBack(r)
  /\ Goto(r, "failed")
  /\ UNCHANGED <<stmt, queue, rounds, nested>>

(* The request's context ends while it waits: Acquire returns an error.  A   *)
(* failed Begin fails WithTx at once (storage.go:109-111).                   *)
DeadlineRetry(r) ==          \* mutant: what waited is tried again
  /\ Deadlines /\ pc[r] \in Waiting
  /\ \E i \in DOMAIN queue : queue[i] = r /\ queue' = Append(DropAt(queue, i), r)
  /\ UNCHANGED <<pc, tx, stmt, rounds, nested>>
Deadline(r) ==
  /\ Deadlines /\ pc[r] \in Waiting
  /\ Goto(r, IF pc[r] = "begin" THEN "failed" ELSE "rollback")
  /\ \E i \in DOMAIN queue : queue[i] = r /\ queue' = DropAt(queue, i)
  /\ UNCHANGED <<tx, stmt, rounds, nested>>

Quiet == (\A r \in Requests : pc[r] \in {"idle"} \cup Ended) /\ UNCHANGED vars

Step(r) == Grant(r) \/ Closure(r) \/ EndStatement(r) \/ Commit(r) \/ Rollback(r)

Next == (\E r \in Requests : Start(r) \/ Step(r) \/ Deadline(r)) \/ Quiet

Spec == Init /\ [][Next]_vars

(* Goroutines run, and the pool serves its queue.  A context that is not     *)
(* cancelled before ends at its deadline.                                    *)
FairSpec == Spec /\ \A r \in Requests : WF_vars(Step(r)) /\ WF_vars(Deadline(r))

-----------------------------------------------------------------------------
(* A connection serves one request, in one place.                            *)
Exclusive ==
  \A q, r \in Requests :
    /\ q # r => Held(q) \cap Held(r) = {}
    /\ tx[r] # None => tx[r] # stmt[r]

(* Requests that wait for nothing but a connection, and no connection free:  *)
(* everyone waits for everyone.                                              *)
Stalled ==
  /\ Free = {}
  /\ \A r \in Requests : pc[r] \notin Running

(* The pool stalls only when as many nested requests are served at a time as *)
(* it has connections (store/storage.go:107, db/db.go:21).                   *)
InFlight == {r \in nested : pc[r] \notin {"idle"} \cup Ended}
NoStall == Cardinality(InFlight) < Cardinality(Conns) => ~Stalled

(* A request that ended holds no connection: WithTx gives it back on every   *)
(* path, an error of Begin, of the closure or of Commit, and a panic.        *)
NoLeak == \A r \in Requests : pc[r] \in {"idle", "begin"} \cup Ended => Held(r) = {}

(* A stall ends: every request that started ends, if only by its deadline.   *)
Ends == \A r \in Requests : pc[r] # "idle" ~> pc[r] \in Ended
=============================================================================
