----------------------------- MODULE Lifecycle -----------------------------
(***************************************************************************)
(* Lifecycle: the process from main to its end (cmd/api/main.go, run in    *)
(* api.go:181-221): the main goroutine, the goroutine that waits for a     *)
(* signal and shuts the server down, the handlers net/http runs, and the   *)
(* goroutines app.background starts, which nothing waits for (app.wg is    *)
(* added to and never waited on, helpers.go:47-61).                        *)
(*                                                                         *)
(* http.Server is external: ListenAndServe returns as soon as Shutdown is  *)
(* called, and Shutdown waits for the requests in flight, or for its       *)
(* context.                                                                *)
(***************************************************************************)
CONSTANTS
  Requests,   \* connections, each with one request
  Cache       \* is Valkey enabled (main.go:60, VALKEY_ENABLED)?

ASSUME LifecycleAssumption == Cache \in BOOLEAN

VARIABLES
  main,       \* where the main goroutine is, or how the process ended
  stop,       \* the signal goroutine: "early" before signal.Notify, "ready"
              \* for a signal, "closing" in Shutdown, then what Shutdown gave:
              \* "nil" or "deadline"
  pc,         \* a connection: "idle", "open", then "served" by a handler and
              \* "answered" or "cut"; "refused" if closed before its request
  work,       \* its background goroutine: "no", "going", "over" or "dropped"
  cache       \* the Valkey client: "none", "open" or "closed"

vars == <<main, stop, pc, work, cache>>

(* main.go:47-96, in this order; then run. *)
Booting == {"db", "valkey", "r2", "migrate", "role"}
Running == {"start", "serve", "wait", "return"}
Ended   == {"exit0", "exit1", "killed"}
Up      == main \notin Ended

TypeOK ==
  /\ main \in Booting \cup Running \cup Ended
  /\ stop \in {"early", "ready", "closing", "nil", "deadline"}
  /\ pc \in [Requests -> {"idle", "open", "served", "answered", "cut", "refused"}]
  /\ work \in [Requests -> {"no", "going", "over", "dropped"}]
  /\ cache \in {"none", "open", "closed"}

Init ==
  /\ main = "db" /\ stop = "early" /\ cache = "none"
  /\ pc = [r \in Requests |-> "idle"]
  /\ work = [r \in Requests |-> "no"]

-----------------------------------------------------------------------------
(* The process ends, and every goroutine with it. *)
EndPanic(how) ==          \* mutant: a panic for log.Fatal, unwinding main
  /\ main' = IF how = "exit1" THEN "panic" ELSE how
  /\ UNCHANGED <<pc, work>>
End(how) ==
  /\ main' = how
  /\ pc' = [r \in Requests |-> IF pc[r] = "served" THEN "cut" ELSE pc[r]]
  /\ work' = [r \in Requests |-> IF work[r] = "going" THEN "dropped" ELSE work[r]]

(* main.go:47-96: each step that fails is log.Fatal, which runs no deferred  *)
(* call.                                                                     *)
After(m) ==
  CASE m = "db" -> IF Cache THEN "valkey" ELSE "r2"
    [] m = "valkey" -> "r2" [] m = "r2" -> "migrate"
    [] m = "migrate" -> "role" [] m = "role" -> "start"

Boot ==
  /\ main \in Booting
  /\ \/ /\ main' = After(main)
        /\ cache' = IF main = "valkey" THEN "open" ELSE cache
        /\ UNCHANGED <<pc, work>>
     \/ End("exit1") /\ UNCHANGED cache
  /\ UNCHANGED stop

(* api.go:192-195: the goroutine gets to signal.Notify some time after run   *)
(* has started it; main does not wait for it.                                *)
Notify ==
  /\ main \in Running /\ stop = "early"
  /\ stop' = "ready"
  /\ UNCHANGED <<main, pc, work, cache>>

(* A signal nobody asked for kills the process (the default of the runtime). *)
(* The first one that is caught starts Shutdown (api.go:196-203); later ones *)
(* wait in quit, which is not read again.                                    *)
Signal ==
  /\ Up
  /\ IF stop = "early"
     THEN End("killed") /\ UNCHANGED stop
     ELSE stop = "ready" /\ stop' = "closing" /\ UNCHANGED <<main, pc, work>>
  /\ UNCHANGED cache

(* api.go:206-211: ListenAndServe, which gives ErrServerClosed at once if    *)
(* Shutdown was called before it, and may fail to listen.                    *)
Closed == stop \in {"closing", "nil", "deadline"}

Listen ==
  /\ main = "start"
  /\ \/ /\ main' = IF Closed THEN "wait" ELSE "serve"
        /\ UNCHANGED <<pc, work>>
     \/ ~Closed /\ End("exit1")
  /\ UNCHANGED <<stop, cache>>

(* An Accept that fails for good ends it as well, with its handlers. *)
ServeFails ==
  /\ main = "serve" /\ ~Closed
  /\ End("exit1")
  /\ UNCHANGED <<stop, cache>>

(* It also gives ErrServerClosed as soon as Shutdown has closed the listener, *)
(* long before Shutdown returns.                                             *)
ServeReturnsErr ==        \* mutant: any error of ListenAndServe is fatal
  /\ main = "serve" /\ Closed
  /\ End("exit1")
  /\ UNCHANGED <<stop, cache>>
ServeReturns ==
  /\ main = "serve" /\ Closed
  /\ main' = "wait"
  /\ UNCHANGED <<stop, pc, work, cache>>

-----------------------------------------------------------------------------
Accept(r) ==
  /\ main = "serve" /\ ~Closed /\ pc[r] = "idle"
  /\ pc' = [pc EXCEPT ![r] = "open"]
  /\ UNCHANGED <<main, stop, work, cache>>

(* The request of a connection accepted before Shutdown may come after it.   *)
Arrive(r) ==
  /\ Up /\ pc[r] = "open"
  /\ pc' = [pc EXCEPT ![r] = "served"]
  /\ UNCHANGED <<main, stop, work, cache>>

Finish(r) ==
  /\ Up /\ pc[r] = "served"
  /\ pc' = [pc EXCEPT ![r] = "answered"]
  /\ UNCHANGED <<main, stop, work, cache>>

(* helpers.go:47-61 *)
Background(r) ==
  /\ Up /\ pc[r] = "served" /\ work[r] = "no"
  /\ work' = [work EXCEPT ![r] = "going"]
  /\ UNCHANGED <<main, stop, pc, cache>>

WorkOver(r) ==
  /\ Up /\ work[r] = "going"
  /\ work' = [work EXCEPT ![r] = "over"]
  /\ UNCHANGED <<main, stop, pc, cache>>

-----------------------------------------------------------------------------
(* api.go:198-203: Shutdown closes the connections that wait for a request,  *)
(* and returns nil once no handler runs ...                                  *)
Drained == \A r \in Requests : pc[r] # "served"

ShutDown ==
  /\ stop = "closing" /\ Up /\ Drained
  /\ stop' = "nil"
  /\ pc' = [r \in Requests |-> IF pc[r] = "open" THEN "refused" ELSE pc[r]]
  /\ UNCHANGED <<main, work, cache>>

(* ... or the error of its context, after 5 seconds.                         *)
TimeoutNever == FALSE     \* mutant: context.Background() without WithTimeout
Timeout == stop = "closing"

TimesUp ==
  /\ Up /\ Timeout
  /\ stop' = "deadline"
  /\ UNCHANGED <<main, pc, work, cache>>

(* api.go:213-220, main.go:108-112: an error of Shutdown is log.Fatal too.   *)
ReturnedEarly == {"nil", "deadline", "closing"}  \* mutant: main does not wait for the channel
Returned == {"nil", "deadline"}

Receive ==
  /\ main = "wait" /\ stop \in Returned
  /\ IF stop = "deadline" THEN End("exit1") ELSE main' = "return" /\ UNCHANGED <<pc, work>>
  /\ UNCHANGED <<stop, cache>>

(* main returns: the deferred vdb.Close() (main.go:66), then the process ends. *)
CloseCache ==
  /\ main = "return" /\ cache = "open"
  /\ cache' = "closed"
  /\ UNCHANGED <<main, stop, pc, work>>

Exit ==
  /\ main = "return" /\ cache # "open"
  /\ End("exit0")
  /\ UNCHANGED <<stop, cache>>

Dead == ~Up /\ UNCHANGED vars

Main == Boot \/ Listen \/ ServeReturns \/ Receive \/ CloseCache \/ Exit
Next ==
  \/ Main \/ ServeFails \/ Notify \/ Signal \/ ShutDown \/ TimesUp \/ Dead
  \/ \E r \in Requests :
       Accept(r) \/ Arrive(r) \/ Finish(r) \/ Background(r) \/ WorkOver(r)

Spec == Init /\ [][Next]_vars

(* The main goroutine is scheduled, and the 5 seconds pass; no handler is    *)
(* assumed to end, no client to send, no signal to come.                     *)
FairSpec == Spec /\ WF_vars(Main) /\ WF_vars(TimesUp)

-----------------------------------------------------------------------------
(* A handler is cut off only by the 5 seconds being over, by a signal that   *)
(* came before the goroutine had asked for it (api.go:195), or by a listener *)
(* that fails: never while Shutdown waits for it.  And run never returns nil *)
(* while a handler runs, nor is the Valkey client closed under one           *)
(* (main.go:66).                                                             *)
CutExplained ==
  /\ \A r \in Requests : pc[r] = "cut" =>
       \/ main = "exit1" /\ stop \in {"early", "ready", "deadline"}
       \/ main = "killed" /\ stop = "early"
  /\ main \in {"return", "exit0"} \/ cache = "closed" =>
       \A r \in Requests : pc[r] \notin {"open", "served", "cut"}

(* Once a signal is caught the process ends, whatever the handlers do.       *)
Stops == stop = "closing" ~> ~Up

(* Lifecycle implements Process. *)
state == IF Up THEN "up" ELSE IF main = "exit0" THEN "clean" ELSE "crashed"
LifeOf(r) ==
  CASE pc[r] \in {"idle", "open", "refused"} -> "idle"
    [] pc[r] = "served" -> "active"
    [] pc[r] = "answered" -> "over"
    [] pc[r] = "cut" -> "lost"
life == [r \in Requests |-> LifeOf(r)]
jobs == [r \in Requests |-> IF work[r] = "dropped" THEN "lost" ELSE work[r]]

P == INSTANCE Process WITH work <- jobs
ProcessSpec == P!Spec
=============================================================================
