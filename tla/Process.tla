------------------------------ MODULE Process ------------------------------
(***************************************************************************)
(* Process: what the rest of the system relies on when the server stops.   *)
(* A request that was begun is answered, or is lost when the process ends, *)
(* together with all others and with all background work, after which      *)
(* nothing happens; a process that ends cleanly loses no request.          *)
(* Lifecycle implements it; the Crash of the other modules is its End.     *)
(***************************************************************************)
CONSTANT Requests

VARIABLES
  state,   \* "up", "clean" or "crashed"
  life,    \* of a request: "idle", "active", "over" or "lost"
  work     \* the background goroutine of a request: "no", "going", "over", "lost"

vars == <<state, life, work>>

Init ==
  /\ state = "up"
  /\ life = [r \in Requests |-> "idle"]
  /\ work = [r \in Requests |-> "no"]

Begin(r) ==
  /\ state = "up" /\ life[r] = "idle"
  /\ life' = [life EXCEPT ![r] = "active"]
  /\ UNCHANGED <<state, work>>

Answer(r) ==
  /\ state = "up" /\ life[r] = "active"
  /\ life' = [life EXCEPT ![r] = "over"]
  /\ UNCHANGED <<state, work>>

Fork(r) ==
  /\ state = "up" /\ life[r] = "active" /\ work[r] = "no"
  /\ work' = [work EXCEPT ![r] = "going"]
  /\ UNCHANGED <<state, life>>

Done(r) ==
  /\ state = "up" /\ work[r] = "going"
  /\ work' = [work EXCEPT ![r] = "over"]
  /\ UNCHANGED <<state, life>>

End ==
  /\ state = "up"
  /\ state' \in {"clean", "crashed"}
  /\ state' = "clean" => \A r \in Requests : life[r] # "active"
  /\ life' = [r \in Requests |-> IF life[r] = "active" THEN "lost" ELSE life[r]]
  /\ work' = [r \in Requests |-> IF work[r] = "going" THEN "lost" ELSE work[r]]

Next == End \/ \E r \in Requests : Begin(r) \/ Answer(r) \/ Fork(r) \/ Done(r)

Spec == Init /\ [][Next]_vars
=============================================================================
