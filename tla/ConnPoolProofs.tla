-------------------------- MODULE ConnPoolProofs --------------------------
(***************************************************************************)
(* Proofs about ConnPool, for any number of requests, connections and      *)
(* transactions, with or without deadlines: connections are never leaked,  *)
(* and the pool stalls only under as many nested requests as it has        *)
(* connections.                                                            *)
(***************************************************************************)
EXTENDS ConnPool, FiniteSetTheorems, TLAPS

(* A request that waits for its second connection is nested and holds one. *)
Acquiring == \A r \in Requests : pc[r] = "acquire" => r \in nested /\ stmt[r] = None

(* It holds a second connection only while it runs the statement. *)
OneStmt == \A r \in Requests : stmt[r] # None => pc[r] = "inStmt"

(* While it has a transaction, that one counts. *)
RoundsLeft == \A r \in Requests : pc[r] \in Waiting \cup Running => rounds[r] > 0

(* Who waits is in the pool's queue, once; nobody else is. *)
QueueExact ==
  /\ \A r \in Requests : pc[r] \in Waiting <=> \E i \in DOMAIN queue : queue[i] = r
  /\ \A i, j \in DOMAIN queue : queue[i] = queue[j] => i = j

IInv == TypeOK /\ RoundsLeft /\ NoLeak /\ Acquiring /\ OneStmt /\ QueueExact /\ Exclusive

LEMMA InitIInv == Init => IInv
<1> SUFFICES ASSUME Init PROVE IInv
  OBVIOUS
<1> USE ConnPoolAssumption DEF Init, Held
<1>1. TypeOK
  BY DEF TypeOK
<1>2. NoLeak /\ Acquiring /\ OneStmt /\ Exclusive
  BY DEF NoLeak, Acquiring, OneStmt, Exclusive
<1>3. QueueExact /\ RoundsLeft
  BY DEF QueueExact, RoundsLeft, Waiting, Running
<1> QED  BY <1>1, <1>2, <1>3 DEF IInv

-----------------------------------------------------------------------------
(* What each kind of step does to the queue. *)

(* The requests other than r wait, or not, as before. *)
Others(r) == pc' \in [Requests -> {"idle"} \cup Waiting \cup Running \cup Ended]
             /\ \A q \in Requests \ {r} : pc'[q] = pc[q]

(* A request that begins to wait comes last. *)
LEMMA QueueAppend ==
  ASSUME NEW r \in Requests, queue \in Seq(Requests), QueueExact, Others(r),
         pc[r] \notin Waiting, pc'[r] \in Waiting, queue' = Append(queue, r)
  PROVE  QueueExact' /\ queue' \in Seq(Requests)
<1>1. queue' \in Seq(Requests) /\ Len(queue') = Len(queue) + 1 /\ queue'[Len(queue) + 1] = r
      /\ \A i \in 1 .. Len(queue) : queue'[i] = queue[i]
  OBVIOUS
<1>2. DOMAIN queue = 1 .. Len(queue) /\ DOMAIN queue' = 1 .. Len(queue) + 1 /\ Len(queue) \in Nat
  BY <1>1
<1>3. \A i \in DOMAIN queue : queue[i] # r
  BY DEF QueueExact
<1>4. \A q \in Requests : pc'[q] \in Waiting <=> \E i \in DOMAIN queue' : queue'[i] = q
  BY <1>1, <1>2, <1>3 DEF QueueExact, Others
<1>5. \A i, j \in DOMAIN queue' : queue'[i] = queue'[j] => i = j
  BY <1>1, <1>2, <1>3 DEF QueueExact
<1> QED  BY <1>1, <1>4, <1>5 DEF QueueExact

(* A request that no longer waits has left its place. *)
LEMMA QueueDrop ==
  ASSUME NEW r \in Requests, queue \in Seq(Requests), QueueExact, Others(r),
         pc'[r] \notin Waiting, NEW i \in DOMAIN queue, queue[i] = r, queue' = DropAt(queue, i)
  PROVE  QueueExact' /\ queue' \in Seq(Requests)
<1> DEFINE n == Len(queue)
<1>0. n \in Nat /\ DOMAIN queue = 1 .. n /\ i \in 1 .. n /\ \A j \in 1 .. n : queue[j] \in Requests
  OBVIOUS
<1> HIDE DEF n
<1>1. queue' = [j \in 1 .. n - 1 |-> queue[IF j < i THEN j ELSE j + 1]]
  BY DEF DropAt, n
<1>2. DOMAIN queue' = 1 .. n - 1 /\ \A j \in 1 .. n - 1 : queue'[j] = queue[IF j < i THEN j ELSE j + 1]
  BY <1>1
<1>3. \A j \in 1 .. n : queue[j] = r => j = i
  BY <1>0 DEF QueueExact
<1>4. queue' \in Seq(Requests)
  <2>1. \A j \in 1 .. n - 1 : queue'[j] \in Requests
    BY <1>0, <1>2
  <2>2. n - 1 \in Nat
    BY <1>0
  <2> QED  BY <1>1, <2>1, <2>2
<1>5. \A j \in 1 .. n - 1 : queue'[j] # r
  BY <1>0, <1>2, <1>3
<1>6. ASSUME NEW j \in 1 .. n, queue[j] # r
      PROVE  \E k \in 1 .. n - 1 : queue'[k] = queue[j]
  <2>1. CASE j < i
    <3>1. j \in 1 .. n - 1 /\ queue'[j] = queue[j]
      BY <1>0, <1>2, <2>1
    <3> QED  BY <3>1
  <2>2. CASE j > i
    <3>1. j - 1 \in 1 .. n - 1 /\ ~(j - 1 < i) /\ (j - 1) + 1 = j
      BY <1>0, <2>2
    <3>2. queue'[j - 1] = queue[j]
      BY <1>2, <3>1
    <3> QED  BY <3>1, <3>2
  <2> QED  BY <1>0, <1>6, <2>1, <2>2
<1>7. ASSUME NEW j \in 1 .. n - 1
      PROVE  \E k \in 1 .. n : queue[k] = queue'[j]
  BY <1>0, <1>2
<1>8. \A q \in Requests : pc'[q] \in Waiting <=> \E j \in DOMAIN queue' : queue'[j] = q
  <2>1. \A q \in Requests \ {r} : pc[q] \in Waiting <=> \E j \in 1 .. n : queue[j] = q
    BY <1>0 DEF QueueExact
  <2>2. \A q \in Requests \ {r} : pc'[q] \in Waiting <=> \E j \in 1 .. n - 1 : queue'[j] = q
    BY <1>6, <1>7, <2>1 DEF Others
  <2> QED  BY <1>2, <1>5, <2>2
<1>9. \A j, k \in DOMAIN queue' : queue'[j] = queue'[k] => j = k
  <2> SUFFICES ASSUME NEW j \in 1 .. n - 1, NEW k \in 1 .. n - 1, queue'[j] = queue'[k]
               PROVE  j = k
    BY <1>2
  <2> DEFINE a == IF j < i THEN j ELSE j + 1
             b == IF k < i THEN k ELSE k + 1
  <2>1. a \in 1 .. n /\ b \in 1 .. n
    BY <1>0
  <2>2. queue[a] = queue[b]
    BY <1>2
  <2>3. a = b
    BY <1>0, <2>1, <2>2 DEF QueueExact
  <2> QED  BY <2>3, <1>0
<1> QED  BY <1>4, <1>8, <1>9 DEF QueueExact

(* The queue stays when nobody begins or ceases to wait. *)
LEMMA QueueStays ==
  ASSUME NEW r \in Requests, QueueExact, Others(r),
         pc[r] \notin Waiting, pc'[r] \notin Waiting, UNCHANGED queue
  PROVE  QueueExact'
BY DEF QueueExact, Others

-----------------------------------------------------------------------------
(* Every action preserves the invariant. *)

LEMMA StartKeeps == ASSUME NEW r \in Requests, IInv, Start(r) PROVE IInv'
<1>1. Others(r) /\ pc[r] = "idle" /\ pc'[r] = "begin" /\ queue' = Append(queue, r)
  BY DEF IInv, TypeOK, Start, CallWithTx, Goto, Enqueue, Others, Waiting
<1>2. QueueExact' /\ queue' \in Seq(Requests)
  BY <1>1, QueueAppend DEF IInv, TypeOK, Waiting
<1>3. PICK n \in 1 .. MaxRounds : rounds' = [rounds EXCEPT ![r] = n]
  BY DEF Start
<1>4. TypeOK' /\ RoundsLeft'
  <2>1. rounds' \in [Requests -> 0 .. MaxRounds] /\ RoundsLeft'
    BY <1>1, <1>3, ConnPoolAssumption DEF IInv, TypeOK, RoundsLeft, Others
  <2>2. nested' \subseteq Requests /\ UNCHANGED <<tx, stmt>>
    BY DEF IInv, TypeOK, Start, CallWithTx
  <2> QED  BY <1>1, <1>2, <2>1, <2>2 DEF IInv, TypeOK, Others
<1>5. nested' \ {r} = nested \ {r} /\ UNCHANGED <<tx, stmt>>
  BY DEF Start, CallWithTx
<1>6. NoLeak' /\ Acquiring' /\ OneStmt' /\ Exclusive'
  BY <1>1, <1>5 DEF IInv, TypeOK, Others, NoLeak, Acquiring, OneStmt, Exclusive, Held
<1> QED  BY <1>2, <1>4, <1>6 DEF IInv

LEMMA GrantKeeps == ASSUME NEW r \in Requests, IInv, Grant(r) PROVE IInv'
<1>1. queue \in Seq(Requests) /\ queue # <<>> /\ queue[1] = r /\ queue' = DropAt(queue, 1)
      /\ 1 \in DOMAIN queue
  BY DEF IInv, TypeOK, Grant
<1>2. pc[r] \in Waiting
  BY <1>1 DEF IInv, QueueExact
<1>3. Others(r) /\ pc'[r] = IF pc[r] = "begin" THEN "inTx" ELSE "inStmt"
  BY <1>2 DEF IInv, TypeOK, Grant, Goto, Others, Running
<1>4. QueueExact' /\ queue' \in Seq(Requests)
  BY <1>1, <1>3, QueueDrop DEF IInv, Waiting
<1>5. PICK c \in Free :
        IF pc[r] = "begin" THEN tx' = [tx EXCEPT ![r] = c] /\ UNCHANGED stmt
                           ELSE stmt' = [stmt EXCEPT ![r] = c] /\ UNCHANGED tx
  BY DEF Grant
<1>6. c \in Conns /\ \A q \in Requests : c # tx[q] /\ c # stmt[q]
  BY <1>5, ConnPoolAssumption DEF Free, Held
<1>7. TypeOK'
  <2>1. tx' \in [Requests -> Conns \cup {None}] /\ stmt' \in [Requests -> Conns \cup {None}]
    BY <1>5, <1>6 DEF IInv, TypeOK
  <2>2. /\ pc' \in [Requests -> {"idle"} \cup Waiting \cup Running \cup Ended]
        /\ UNCHANGED <<rounds, nested>>
    BY DEF IInv, TypeOK, Grant, Goto, Running
  <2> QED  BY <1>4, <2>1, <2>2 DEF IInv, TypeOK
<1>8. NoLeak'
  BY <1>2, <1>3, <1>5 DEF IInv, TypeOK, Others, NoLeak, Held, Ended
<1>9. Acquiring' /\ OneStmt'
  BY <1>2, <1>3, <1>5 DEF IInv, TypeOK, Grant, Others, Acquiring, OneStmt, Waiting
<1>10. Exclusive'
  <2>1. CASE pc[r] = "begin"
    <3>1. tx' = [tx EXCEPT ![r] = c] /\ stmt' = stmt
      BY <2>1, <1>5
    <3>2. ASSUME NEW p \in Requests, NEW q \in Requests, p # q PROVE (Held(p) \cap Held(q) = {})'
      BY <3>1, <3>2, <1>6 DEF IInv, TypeOK, Exclusive, Held
    <3>3. ASSUME NEW q \in Requests, tx'[q] # None PROVE tx'[q] # stmt'[q]
      BY <3>1, <3>3, <1>6 DEF IInv, TypeOK, Exclusive
    <3> QED  BY <3>2, <3>3 DEF Exclusive
  <2>2. CASE pc[r] # "begin"
    <3>1. stmt' = [stmt EXCEPT ![r] = c] /\ tx' = tx
      BY <2>2, <1>5
    <3>2. ASSUME NEW p \in Requests, NEW q \in Requests, p # q PROVE (Held(p) \cap Held(q) = {})'
      BY <3>1, <3>2, <1>6 DEF IInv, TypeOK, Exclusive, Held
    <3>3. ASSUME NEW q \in Requests, tx'[q] # None PROVE tx'[q] # stmt'[q]
      BY <3>1, <3>3, <1>6 DEF IInv, TypeOK, Exclusive
    <3> QED  BY <3>2, <3>3 DEF Exclusive
  <2> QED  BY <2>1, <2>2
<1>11. RoundsLeft'
  BY <1>2, <1>3 DEF IInv, RoundsLeft, Grant, Others
<1> QED  BY <1>4, <1>7, <1>8, <1>9, <1>10, <1>11 DEF IInv

LEMMA ClosureKeeps == ASSUME NEW r \in Requests, IInv, Closure(r) PROVE IInv'
<1>1. Others(r) /\ pc[r] = "inTx"
  BY DEF IInv, TypeOK, Closure, Goto, Others, Waiting, Running
<1>2. \/ r \in nested /\ pc'[r] = "acquire" /\ queue' = Append(queue, r)
      \/ pc'[r] \in {"commit", "rollback"} /\ UNCHANGED queue
  BY DEF IInv, TypeOK, Closure, Goto, TwoConns, Enqueue
<1>3. QueueExact' /\ queue' \in Seq(Requests)
  BY <1>1, <1>2, QueueAppend, QueueStays DEF IInv, TypeOK, Waiting
<1>4. TypeOK'
  BY <1>1, <1>3 DEF IInv, TypeOK, Closure, Others
<1>5. NoLeak' /\ Acquiring' /\ OneStmt' /\ Exclusive'
  BY <1>1, <1>2 DEF IInv, TypeOK, Closure, Others, NoLeak, Acquiring, OneStmt, Exclusive, Held, Ended
<1>6. RoundsLeft'
  BY <1>1 DEF IInv, RoundsLeft, Closure, Others, Running
<1> QED  BY <1>3, <1>4, <1>5, <1>6 DEF IInv

LEMMA EndStatementKeeps == ASSUME NEW r \in Requests, IInv, EndStatement(r) PROVE IInv'
<1>1. Others(r) /\ pc[r] = "inStmt" /\ pc'[r] \in {"commit", "rollback"}
  BY DEF IInv, TypeOK, EndStatement, Goto, Others, Running
<1>2. QueueExact'
  BY <1>1, QueueStays DEF IInv, TypeOK, Waiting, EndStatement
<1>3. TypeOK'
  BY <1>1 DEF IInv, TypeOK, EndStatement, Others
<1>4. NoLeak' /\ Acquiring' /\ OneStmt'
  BY <1>1 DEF IInv, TypeOK, EndStatement, Others, NoLeak, Acquiring, OneStmt, Held, Ended
<1>5. Exclusive'
  BY DEF IInv, TypeOK, EndStatement, Exclusive, Held
<1>6. RoundsLeft'
  BY <1>1 DEF IInv, RoundsLeft, EndStatement, Others, Running
<1> QED  BY <1>2, <1>3, <1>4, <1>5, <1>6 DEF IInv

LEMMA CommitKeeps == ASSUME NEW r \in Requests, IInv, Commit(r) PROVE IInv'
<1>1. Others(r) /\ pc[r] = "commit" /\ stmt[r] = None
  BY DEF IInv, TypeOK, OneStmt, Commit, More, CallWithTx, Goto, Others, Waiting, Ended
<1>2. /\ \/ rounds[r] > 1 /\ pc'[r] = "begin" /\ queue' = Append(queue, r)
         \/ pc'[r] \in Ended /\ UNCHANGED queue
      /\ nested' \subseteq Requests /\ nested' \ {r} = nested \ {r}
  BY DEF IInv, TypeOK, Commit, More, CallWithTx, Goto, Enqueue, Ended
<1>3. QueueExact' /\ queue' \in Seq(Requests)
  BY <1>1, <1>2, QueueAppend, QueueStays DEF IInv, TypeOK, Waiting, Ended
<1>4. rounds' \in [Requests -> 0 .. MaxRounds]
  <2>1. rounds[r] > 0 /\ rounds[r] \in 0 .. MaxRounds
    BY <1>1 DEF IInv, TypeOK, RoundsLeft, Running
  <2>2. rounds[r] - 1 \in 0 .. MaxRounds
    BY <2>1, ConnPoolAssumption
  <2> QED  BY <2>2 DEF IInv, TypeOK, Commit
<1>5. TypeOK'
  BY <1>1, <1>2, <1>3, <1>4 DEF IInv, TypeOK, Commit, Others
<1>6. NoLeak' /\ Acquiring' /\ OneStmt'
  BY <1>1, <1>2 DEF IInv, TypeOK, Commit, Others, NoLeak, Acquiring, OneStmt, Held, Ended
<1>7. Exclusive'
  BY DEF IInv, TypeOK, Commit, Exclusive, Held
<1>8. RoundsLeft'
  BY <1>1, <1>2, <1>4, ConnPoolAssumption
  DEF IInv, TypeOK, RoundsLeft, Commit, More, Others, Waiting, Running, Ended
<1> QED  BY <1>3, <1>5, <1>6, <1>7, <1>8 DEF IInv

LEMMA RollbackKeeps == ASSUME NEW r \in Requests, IInv, Rollback(r) PROVE IInv'
<1>1. Others(r) /\ pc[r] = "rollback" /\ pc'[r] = "failed" /\ stmt[r] = None
  BY DEF IInv, TypeOK, OneStmt, Rollback, Goto, Others, Ended
<1>2. QueueExact'
  BY <1>1, QueueStays DEF IInv, TypeOK, Waiting, Rollback
<1>3. TypeOK'
  BY <1>1 DEF IInv, TypeOK, Rollback, GiveBack, Others
<1>4. NoLeak' /\ Acquiring' /\ OneStmt'
  BY <1>1 DEF IInv, TypeOK, Rollback, GiveBack, Others, NoLeak, Acquiring, OneStmt, Held, Ended
<1>5. Exclusive'
  BY DEF IInv, TypeOK, Rollback, GiveBack, Exclusive, Held
<1>6. RoundsLeft'
  BY <1>1 DEF IInv, RoundsLeft, Rollback, Others, Waiting, Running
<1> QED  BY <1>2, <1>3, <1>4, <1>5, <1>6 DEF IInv

LEMMA DeadlineKeeps == ASSUME NEW r \in Requests, IInv, Deadline(r) PROVE IInv'
<1>1. Others(r) /\ pc[r] \in Waiting
      /\ pc'[r] = IF pc[r] = "begin" THEN "failed" ELSE "rollback"
  BY DEF IInv, TypeOK, Deadline, Goto, Others, Running, Ended
<1>2. PICK i \in DOMAIN queue : queue[i] = r /\ queue' = DropAt(queue, i)
  BY DEF Deadline
<1>3. QueueExact' /\ queue' \in Seq(Requests)
  BY <1>1, <1>2, QueueDrop DEF IInv, TypeOK, Waiting
<1>4. TypeOK'
  BY <1>1, <1>3 DEF IInv, TypeOK, Deadline, Others
<1>5. UNCHANGED <<tx, stmt, rounds, nested>>
  BY DEF Deadline
<1>6. NoLeak' /\ Acquiring'
  BY <1>1, <1>5 DEF IInv, Others, NoLeak, Acquiring, Held, Ended, Waiting
<1>7. OneStmt' /\ RoundsLeft'
  BY <1>1, <1>5 DEF IInv, Others, OneStmt, RoundsLeft, Running, Waiting
<1>8. Exclusive'
  BY <1>5 DEF IInv, Exclusive, Held
<1> QED  BY <1>3, <1>4, <1>6, <1>7, <1>8 DEF IInv

LEMMA NextIInv == IInv /\ [Next]_vars => IInv'
<1> SUFFICES ASSUME IInv, [Next]_vars PROVE IInv'
  OBVIOUS
<1>1. CASE UNCHANGED vars
  BY <1>1 DEF vars, IInv, TypeOK, NoLeak, Acquiring, OneStmt, QueueExact, Exclusive, RoundsLeft, Held
<1> QED
  BY <1>1, StartKeeps, GrantKeeps, ClosureKeeps, EndStatementKeeps, CommitKeeps,
     RollbackKeeps, DeadlineKeeps DEF Next, Step, Quiet

(* The invariant holds in every state of every behaviour (store/storage.go). *)
THEOREM Invariance == Spec => []IInv
<1> QED  BY InitIInv, NextIInv, PTL DEF Spec

(* Every transaction a request runs is one of those it has to run: the loops *)
(* of the handlers over their files (posts.go:72, 247) do not overrun, and   *)
(* only requests wait in the pool's queue.                                   *)
THEOREM TypeCorrect == Spec => []TypeOK
<1>1. IInv => TypeOK
  BY DEF IInv
<1> QED  BY <1>1, Invariance, PTL

(* WithTx gives its connection back on every path (storage.go:107-134).      *)
THEOREM ConnectionsReturned == Spec => []NoLeak
<1>1. IInv => NoLeak
  BY DEF IInv
<1> QED  BY <1>1, Invariance, PTL

(* In a stall every connection is the first of a request that waits for its  *)
(* second, so there are at least as many of those as connections.            *)
LEMMA StallCounts == ASSUME IInv, Stalled PROVE Cardinality(Conns) <= Cardinality(InFlight)
<1> DEFINE Stuck == {r \in Requests : pc[r] = "acquire" /\ tx[r] # None}
<1> DEFINE f == [r \in Stuck |-> tx[r]]
<1>1. ASSUME NEW c \in Conns PROVE \E r \in Stuck : tx[r] = c
  <2>1. PICK r \in Requests : c \in Held(r)
    BY <1>1 DEF Stalled, Free
  <2>2. stmt[r] = None /\ tx[r] = c
    BY <2>1, ConnPoolAssumption DEF IInv, OneStmt, Stalled, Running, Held
  <2>3. pc[r] = "acquire"
    BY <2>1, <2>2 DEF IInv, TypeOK, NoLeak, Stalled, Waiting, Running
  <2> QED  BY <2>2, <2>3, ConnPoolAssumption
<1>2. Stuck \subseteq InFlight /\ InFlight \subseteq Requests
  BY DEF IInv, TypeOK, Acquiring, InFlight, Ended
<1>3. IsFiniteSet(InFlight) /\ IsFiniteSet(Stuck) /\ Cardinality(Stuck) <= Cardinality(InFlight)
  BY <1>2, FS_Subset, ConnPoolAssumption
<1>4. f \in Surjection(Stuck, Conns)
  BY <1>1 DEF IInv, TypeOK, Surjection
<1>5. Cardinality(Conns) <= Cardinality(Stuck)
  BY <1>3, <1>4, FS_Surjection
<1>6. Cardinality(Conns) \in Nat /\ Cardinality(Stuck) \in Nat /\ Cardinality(InFlight) \in Nat
  BY <1>3, FS_CardinalityType, ConnPoolAssumption
<1> QED  BY <1>3, <1>5, <1>6

(* With fewer nested requests in flight than connections the pool never      *)
(* stalls, whatever their order (storage.go:107, db/db.go:21).               *)
THEOREM PoolMoves == Spec => []NoStall
<1>1. IInv => NoStall
  <2> SUFFICES ASSUME IInv, Stalled, Cardinality(InFlight) < Cardinality(Conns) PROVE FALSE
    BY DEF NoStall
  <2>1. InFlight \subseteq Requests
    BY DEF IInv, TypeOK, InFlight
  <2>2. Cardinality(Conns) \in Nat /\ Cardinality(InFlight) \in Nat
    BY <2>1, FS_Subset, FS_CardinalityType, ConnPoolAssumption
  <2> QED  BY <2>2, StallCounts
<1> QED  BY <1>1, Invariance, PTL
=============================================================================
