-------------------------- MODULE LifecycleProofs --------------------------
(***************************************************************************)
(* Theorems about Lifecycle and their proofs: which handlers a stopping    *)
(* process cuts off, and that it implements Process.                       *)
(***************************************************************************)
EXTENDS Lifecycle, TLAPS

(* A connection is there only once the listener is; a handler is cut off by  *)
(* the end of the process, and run returns nil only after Shutdown did.      *)
Conn(r) ==
  /\ main \in Booting \cup {"start"} => pc[r] = "idle" /\ work[r] = "no"
  /\ pc[r] = "cut" => \/ main = "exit1" /\ stop \in {"early", "ready", "deadline"}
                      \/ main = "killed" /\ stop = "early"
  /\ stop = "nil" => pc[r] \notin {"open", "served"}
  /\ ~Up => pc[r] # "served" /\ work[r] # "going"

IInv ==
  /\ TypeOK
  /\ main \in Booting => stop = "early"
  /\ main = "wait" => Closed
  /\ main \in {"return", "exit0"} \/ cache = "closed" =>
       main \in {"return", "exit0"} /\ stop = "nil"
  /\ \A r \in Requests : Conn(r)

-----------------------------------------------------------------------------
LEMMA InitInv == Init => IInv
BY LifecycleAssumption
DEF Init, IInv, TypeOK, Conn, Booting, Running, Ended, Up, Closed

(* What the end of the process does to one request. *)
LEMMA EndCuts ==
  ASSUME TypeOK, NEW how, End(how), NEW r \in Requests
  PROVE  /\ main' = how
         /\ pc'[r] = IF pc[r] = "served" THEN "cut" ELSE pc[r]
         /\ work'[r] = IF work[r] = "going" THEN "dropped" ELSE work[r]
BY DEF TypeOK, End

LEMMA EndTypes ==
  ASSUME TypeOK, NEW how \in Ended, End(how), UNCHANGED <<stop, cache>>
  PROVE  TypeOK'
BY DEF TypeOK, End

(* The process ends, cleanly or not, for a reason the invariant knows. *)
LEMMA EndKeeps ==
  ASSUME IInv, NEW how \in Ended, End(how), UNCHANGED <<stop, cache>>, Up,
         how = "exit0" => stop = "nil",
         how = "exit1" => stop \in {"early", "ready", "deadline"} /\ main # "return",
         how = "killed" => stop = "early"
  PROVE  IInv'
<1>1. TypeOK'
  BY EndTypes DEF IInv
<1>2. ASSUME NEW r \in Requests PROVE Conn(r)'
  <2>1. /\ main' = how
        /\ pc'[r] = IF pc[r] = "served" THEN "cut" ELSE pc[r]
        /\ work'[r] = IF work[r] = "going" THEN "dropped" ELSE work[r]
    BY EndCuts DEF IInv
  <2> QED
    BY <2>1 DEF IInv, Conn, Up, Booting, Ended
<1>3. cache = "closed" => main = "return"
  BY DEF IInv, Up, Ended
<1> QED
  BY <1>1, <1>2, <1>3 DEF IInv, End, Booting, Ended

LEMMA BootKeeps == ASSUME IInv, Boot PROVE IInv'
<1>1. main \in Booting /\ UNCHANGED stop /\ stop = "early" /\ Up
  BY DEF Boot, IInv, Up, Booting, Ended
<1>2. CASE End("exit1") /\ UNCHANGED cache
  BY <1>1, <1>2, EndKeeps DEF Ended, Booting
<1>3. CASE /\ main' = After(main) /\ UNCHANGED <<pc, work>>
           /\ cache' = IF main = "valkey" THEN "open" ELSE cache
  <2>1. main' \in Booting \cup {"start"}
    BY <1>1, <1>3 DEF After, Booting
  <2> QED
    BY <1>1, <1>3, <2>1 DEF IInv, TypeOK, Conn, Booting, Running, Ended, Up
<1> QED
  BY <1>2, <1>3 DEF Boot

LEMMA NextInv == IInv /\ [Next]_vars => IInv'
<1> SUFFICES ASSUME IInv, [Next]_vars PROVE IInv'
  OBVIOUS
<1> USE DEF Ended
<1>1. CASE Boot
  BY <1>1, BootKeeps
<1>2. CASE Listen
  <2>1. CASE ~Closed /\ End("exit1")
    BY <1>2, <2>1, EndKeeps DEF Listen, Closed, Up, IInv, TypeOK
  <2>2. CASE main' = (IF Closed THEN "wait" ELSE "serve") /\ UNCHANGED <<pc, work>>
    BY <1>2, <2>2 DEF Listen, IInv, TypeOK, Conn, Booting, Running, Up, Closed
  <2> QED
    BY <1>2, <2>1, <2>2 DEF Listen
<1>3. CASE ServeReturns
  BY <1>3 DEF ServeReturns, IInv, TypeOK, Conn, Booting, Running, Up, Closed
<1>4. CASE Receive
  <2>1. CASE stop = "deadline"
    BY <1>4, <2>1, EndKeeps DEF Receive, Up
  <2>2. CASE stop # "deadline"
    BY <1>4, <2>2 DEF Receive, Returned, IInv, TypeOK, Conn, Booting, Running, Up
  <2> QED
    BY <2>1, <2>2
<1>5. CASE CloseCache
  BY <1>5 DEF CloseCache, IInv, TypeOK, Conn, Closed, Booting, Up
<1>6. CASE Exit
  BY <1>6, EndKeeps DEF Exit, IInv, Up
<1>7. CASE ServeFails
  BY <1>7, EndKeeps DEF ServeFails, Closed, Up, IInv, TypeOK
<1>8. CASE Notify
  BY <1>8 DEF Notify, IInv, TypeOK, Conn, Booting, Running, Up, Closed
<1>9. CASE Signal
  <2>1. CASE stop = "early"
    BY <1>9, <2>1, EndKeeps DEF Signal
  <2>2. CASE stop # "early"
    BY <1>9, <2>2 DEF Signal, IInv, TypeOK, Conn, Booting, Up, Closed
  <2> QED
    BY <2>1, <2>2
<1>10. CASE ShutDown
  <2>1. /\ stop = "closing" /\ Up /\ stop' = "nil" /\ UNCHANGED <<main, work, cache>>
        /\ \A r \in Requests : pc[r] # "served"
        /\ pc' = [r \in Requests |-> IF pc[r] = "open" THEN "refused" ELSE pc[r]]
    BY <1>10 DEF ShutDown, Drained
  <2>2. TypeOK'
    BY <2>1 DEF IInv, TypeOK
  <2>3. ASSUME NEW r \in Requests PROVE Conn(r)'
    BY <2>1 DEF IInv, Conn, TypeOK, Booting, Up
  <2> QED
    BY <2>1, <2>2, <2>3 DEF IInv, Booting, Closed
<1>11. CASE TimesUp
  BY <1>11 DEF TimesUp, Timeout, IInv, TypeOK, Conn, Booting, Up, Closed
<1>12. ASSUME NEW r \in Requests,
              Accept(r) \/ Arrive(r) \/ Finish(r) \/ Background(r) \/ WorkOver(r)
       PROVE  IInv'
  <2>1. /\ UNCHANGED <<main, stop, cache>> /\ Up
        /\ TypeOK'
    BY <1>12 DEF IInv, TypeOK, Up, Accept, Arrive, Finish, Background, WorkOver
  <2>2. ASSUME NEW q \in Requests PROVE Conn(q)'
    BY <1>12, <2>1 DEF IInv, TypeOK, Conn, Up, Booting, Closed,
                       Accept, Arrive, Finish, Background, WorkOver
  <2> QED
    BY <2>1, <2>2 DEF IInv, Closed
<1>13. CASE UNCHANGED vars
  BY <1>13 DEF vars, IInv, TypeOK, Conn, Up, Closed
<1> QED
  BY <1>1, <1>2, <1>3, <1>4, <1>5, <1>6, <1>7, <1>8, <1>9, <1>10, <1>11, <1>12, <1>13
  DEF Next, Main, Dead

(* The invariant holds for any number of connections, with Valkey or not. *)
THEOREM Invariance == Spec => []IInv
BY InitInv, NextInv, PTL DEF Spec

(* The process, its goroutines and its connections have their types. *)
THEOREM TypeCorrect == Spec => []TypeOK
<1>1. IInv => TypeOK
  BY DEF IInv
<1> QED
  BY <1>1, Invariance, PTL

(* Shutdown never cuts off a handler before its 5 seconds are over, and run  *)
(* returns nil, and the Valkey client is closed (main.go:66), only when no   *)
(* handler runs.                                                             *)
THEOREM CutsExplained == Spec => []CutExplained
<1>1. IInv => CutExplained
  BY DEF IInv, Conn, CutExplained, Closed, Ended
<1> QED
  BY <1>1, Invariance, PTL
-----------------------------------------------------------------------------
LEMMA InitRefines == Init => P!Init
BY DEF Init, P!Init, state, life, LifeOf, jobs, Up, Ended

(* Steps that change no request Process knows of. *)
LEMMA Stutters ==
  ASSUME state' = state, \A r \in Requests : LifeOf(r)' = LifeOf(r), work' = work
  PROVE  UNCHANGED P!vars
BY DEF P!vars, life, jobs

(* A step of one request. *)
LEMMA OneStep ==
  ASSUME TypeOK, NEW r \in Requests, UNCHANGED main, Up,
         \A q \in Requests \ {r} : pc'[q] = pc[q] /\ work'[q] = work[q]
  PROVE  /\ state = "up" /\ state' = state
         /\ life' = [life EXCEPT ![r] = LifeOf(r)']
         /\ jobs' = [jobs EXCEPT ![r] = IF work'[r] = "dropped" THEN "lost" ELSE work'[r]]
<1>1. \A q \in Requests \ {r} : LifeOf(q)' = LifeOf(q)
  BY DEF LifeOf
<1> QED
  BY <1>1 DEF state, life, jobs, Up

(* The end of the process is the End of Process. *)
LEMMA EndRefines ==
  ASSUME IInv, NEW how \in Ended, End(how), Up,
         how = "exit0" => stop = "nil"
  PROVE  P!End
<1>1. state = "up" /\ state' = (IF how = "exit0" THEN "clean" ELSE "crashed")
  BY DEF state, Up, End, Ended
<1>2. ASSUME NEW r \in Requests
      PROVE  /\ LifeOf(r)' = IF LifeOf(r) = "active" THEN "lost" ELSE LifeOf(r)
             /\ how = "exit0" => LifeOf(r) # "active"
             /\ jobs'[r] = IF jobs[r] = "going" THEN "lost" ELSE jobs[r]
  <2>1. /\ pc'[r] = IF pc[r] = "served" THEN "cut" ELSE pc[r]
        /\ work'[r] = IF work[r] = "going" THEN "dropped" ELSE work[r]
    BY EndCuts DEF IInv
  <2>2. pc[r] \in {"idle", "open", "served", "answered", "cut", "refused"}
    BY DEF IInv, TypeOK
  <2>3. how = "exit0" => pc[r] # "served"
    BY DEF IInv, Conn
  <2> QED
    BY <2>1, <2>2, <2>3 DEF LifeOf, jobs
<1>3. life' = [r \in Requests |-> IF life[r] = "active" THEN "lost" ELSE life[r]]
  BY <1>2 DEF life
<1>4. jobs' = [r \in Requests |-> IF jobs[r] = "going" THEN "lost" ELSE jobs[r]]
  BY <1>2 DEF jobs
<1>5. state' = "clean" => \A r \in Requests : life[r] # "active"
  BY <1>1, <1>2 DEF life
<1> QED
  BY <1>1, <1>3, <1>4, <1>5 DEF P!End
LEMMA RequestRefines ==
  ASSUME IInv, NEW r \in Requests,
         Accept(r) \/ Arrive(r) \/ Finish(r) \/ Background(r) \/ WorkOver(r)
  PROVE  P!Next \/ UNCHANGED P!vars
<1>1. TypeOK
  BY DEF IInv
<1>2. Up /\ UNCHANGED main
  BY DEF Accept, Arrive, Finish, Background, WorkOver, Up, Ended
<1>3. /\ life[r] = LifeOf(r)
      /\ jobs[r] = IF work[r] = "dropped" THEN "lost" ELSE work[r]
  BY DEF life, jobs
<1>4. CASE Accept(r)
  <2>1. \A q \in Requests : LifeOf(q)' = LifeOf(q)
    BY <1>1, <1>4 DEF Accept, LifeOf, TypeOK
  <2> QED
    BY <1>2, <1>4, <2>1, Stutters DEF Accept, state, Up
<1>5. ASSUME Arrive(r) \/ Finish(r) \/ Background(r) \/ WorkOver(r)
      PROVE  /\ state = "up" /\ state' = state
             /\ life' = [life EXCEPT ![r] = LifeOf(r)']
             /\ jobs' = [jobs EXCEPT ![r] = IF work'[r] = "dropped" THEN "lost" ELSE work'[r]]
  <2>1. \A q \in Requests \ {r} : pc'[q] = pc[q] /\ work'[q] = work[q]
    BY <1>1, <1>5 DEF Arrive, Finish, Background, WorkOver, TypeOK
  <2> QED
    BY <1>1, <1>2, <2>1, OneStep
<1>6. CASE Arrive(r)
  <2>1. LifeOf(r) = "idle" /\ LifeOf(r)' = "active" /\ work' = work
    BY <1>1, <1>6 DEF Arrive, LifeOf, TypeOK
  <2>2. P!Begin(r)
    BY <1>3, <1>5, <1>6, <2>1 DEF P!Begin, jobs
  <2> QED
    BY <2>2 DEF P!Next
<1>7. CASE Finish(r)
  <2>1. LifeOf(r) = "active" /\ LifeOf(r)' = "over" /\ work' = work
    BY <1>1, <1>7 DEF Finish, LifeOf, TypeOK
  <2>2. P!Answer(r)
    BY <1>3, <1>5, <1>7, <2>1 DEF P!Answer, jobs
  <2> QED
    BY <2>2 DEF P!Next
<1>8. CASE Background(r)
  <2>1. LifeOf(r) = "active" /\ work[r] = "no" /\ work'[r] = "going" /\ pc' = pc
    BY <1>1, <1>8 DEF Background, LifeOf, TypeOK
  <2>2. life' = life
    BY <2>1 DEF life, LifeOf
  <2>3. P!Fork(r)
    BY <1>3, <1>5, <1>8, <2>1, <2>2 DEF P!Fork
  <2> QED
    BY <2>3 DEF P!Next
<1>9. CASE WorkOver(r)
  <2>1. work[r] = "going" /\ work'[r] = "over" /\ pc' = pc
    BY <1>1, <1>9 DEF WorkOver, TypeOK
  <2>2. life' = life
    BY <2>1 DEF life, LifeOf
  <2>3. P!Done(r)
    BY <1>3, <1>5, <1>9, <2>1, <2>2 DEF P!Done
  <2> QED
    BY <2>3 DEF P!Next
<1> QED
  BY <1>4, <1>6, <1>7, <1>8, <1>9

LEMMA NextRefines == IInv /\ [Next]_vars => [P!Next]_(P!vars)
<1> SUFFICES ASSUME IInv, [Next]_vars PROVE P!Next \/ UNCHANGED P!vars
  OBVIOUS
<1>1. ASSUME NEW how \in Ended, End(how), Up, how = "exit0" => stop = "nil"
      PROVE  P!Next
  BY <1>1, EndRefines DEF P!Next
<1>2. ASSUME main' = main \/ (main \notin Ended /\ main' \notin Ended), UNCHANGED <<pc, work>>
      PROVE  UNCHANGED P!vars
  <2>1. state' = state
    BY <1>2 DEF state, Up
  <2> QED
    BY <1>2, <2>1, Stutters DEF LifeOf
<1>3. CASE Boot
  <2>1. main \in Booting
    BY <1>3 DEF Boot
  <2>2. CASE End("exit1")
    BY <2>1, <2>2, <1>1 DEF Up, Ended, Booting
  <2>3. CASE main' = After(main) /\ UNCHANGED <<pc, work>>
    <3>1. main' \in Booting \cup {"start"}
      BY <2>1, <2>3 DEF After, Booting
    <3> QED
      BY <1>2, <2>1, <2>3, <3>1 DEF Booting, Ended
  <2> QED
    BY <1>3, <2>2, <2>3 DEF Boot
<1>4. CASE Listen
  BY <1>4, <1>1, <1>2 DEF Listen, Up, Ended
<1>5. CASE ServeReturns
  BY <1>5, <1>2 DEF ServeReturns, Ended
<1>6. CASE Receive
  BY <1>6, <1>1, <1>2 DEF Receive, Up, Ended
<1>7. CASE CloseCache
  BY <1>7, <1>2 DEF CloseCache, Ended
<1>8. CASE Exit
  <2>1. stop = "nil"
    BY <1>8 DEF IInv, Exit
  <2> QED
    BY <1>8, <2>1, <1>1 DEF Exit, Up, Ended
<1>9. CASE ServeFails
  BY <1>9, <1>1 DEF ServeFails, Up, Ended
<1>10. CASE Notify
  BY <1>10, <1>2 DEF Notify
<1>11. CASE Signal
  BY <1>11, <1>1, <1>2 DEF Signal, Ended
<1>12. CASE ShutDown
  <2>1. \A r \in Requests : LifeOf(r)' = LifeOf(r)
    BY <1>12 DEF ShutDown, LifeOf, IInv, TypeOK
  <2> QED
    BY <1>12, <2>1, Stutters DEF ShutDown, state, Up
<1>13. CASE TimesUp
  BY <1>13, <1>2 DEF TimesUp
<1>14. ASSUME NEW r \in Requests,
              Accept(r) \/ Arrive(r) \/ Finish(r) \/ Background(r) \/ WorkOver(r)
       PROVE  P!Next \/ UNCHANGED P!vars
  BY <1>14, RequestRefines
<1>15. CASE UNCHANGED vars
  BY <1>15, <1>2 DEF vars
<1> QED
  BY <1>3, <1>4, <1>5, <1>6, <1>7, <1>8, <1>9, <1>10, <1>11, <1>12, <1>13, <1>14, <1>15
  DEF Next, Main, Dead

(* Whatever the signals, the listener and the clock do, a request that was   *)
(* begun is answered or lost with the process, and none is lost when it ends *)
(* cleanly: Lifecycle implements Process.                                    *)
THEOREM Refinement == Spec => ProcessSpec
BY InitRefines, NextRefines, Invariance, PTL DEF Spec, ProcessSpec, P!Spec
=============================================================================
