---------------------------- MODULE AccountLife ----------------------------
(***************************************************************************)
(* What register and activateUser promise of whoever has a name, whatever  *)
(* requests overlap and fail: an account is made once, is sent a token     *)
(* where mails work, is activated only after that, and nothing undoes any  *)
(* of it.  Accounts implements it.                                         *)
(***************************************************************************)
CONSTANTS Names, MailWorks

VARIABLE life

Init == life = [n \in Names |-> "free"]

Step(n, from, to) == life[n] = from /\ life' = [life EXCEPT ![n] = to]

Register(n) == Step(n, "free", "named")
Mail(n)     == MailWorks /\ Step(n, "named", "mailed")
Activate(n) == Step(n, "mailed", "active")

Next == \E n \in Names : Register(n) \/ Mail(n) \/ Activate(n)

Spec == Init /\ [][Next]_life
=============================================================================
