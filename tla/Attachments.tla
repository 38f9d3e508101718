---------------------------- MODULE Attachments ----------------------------
(***************************************************************************)
(* What the post handlers promise of one file, whatever requests overlap   *)
(* and fail: it is stored before it is attached to a post, it is attached  *)
(* at most once and to a post that exists, it leaves the bucket only after *)
(* it left its post, and nothing comes back.  Only where MayBreak may a    *)
(* file that a post still shows lose its object.                           *)
(***************************************************************************)
CONSTANTS Files, Posts, None, MayBreak

VARIABLES post, stage, owner
vars == <<post, stage, owner>>

Stages == {"absent", "stored", "attached", "broken", "detached", "erased"}
Shown(f) == stage[f] \in {"attached", "broken"}

TypeOK ==
  /\ post \in [Posts -> {"unused", "live", "deleted"}]
  /\ stage \in [Files -> Stages]
  /\ owner \in [Files -> Posts \cup {None}]

(* A post that shows a file is there. *)
ShownOwned == \A f \in Files : Shown(f) => owner[f] \in Posts /\ post[owner[f]] = "live"

Init ==
  /\ TypeOK
  /\ \A f \in Files : /\ stage[f] \in {"absent", "attached"}
                      /\ stage[f] = "absent" <=> owner[f] = None
  /\ \A p \in Posts : post[p] # "deleted"
  /\ ShownOwned

(* What a file is once its post shows it no more. *)
Unshown(s) == IF s = "attached" THEN "detached" ELSE IF s = "broken" THEN "erased" ELSE s

Step(f, from, to) == stage[f] = from /\ stage' = [stage EXCEPT ![f] = to]

Publish(p) == /\ post[p] = "unused" /\ post' = [post EXCEPT ![p] = "live"]
              /\ UNCHANGED <<stage, owner>>
Store(f)   == Step(f, "absent", "stored") /\ UNCHANGED <<post, owner>>
Attach(f)  == /\ Step(f, "stored", "attached")
              /\ \E p \in Posts : post[p] = "live" /\ owner' = [owner EXCEPT ![f] = p]
              /\ UNCHANGED post
Detach(f)  == Shown(f) /\ Step(f, stage[f], Unshown(stage[f])) /\ UNCHANGED <<post, owner>>
Erase(f)   == Step(f, "detached", "erased") /\ UNCHANGED <<post, owner>>
Break(f)   == MayBreak /\ Step(f, "attached", "broken") /\ UNCHANGED <<post, owner>>

(* A post goes with everything it shows. *)
Remove(p) ==
  /\ post[p] = "live"
  /\ post' = [post EXCEPT ![p] = "deleted"]
  /\ stage' = [f \in Files |-> IF owner[f] = p THEN Unshown(stage[f]) ELSE stage[f]]
  /\ UNCHANGED owner

Next ==
  \/ \E p \in Posts : Publish(p) \/ Remove(p)
  \/ \E f \in Files : Store(f) \/ Attach(f) \/ Detach(f) \/ Erase(f) \/ Break(f)

Spec == Init /\ [][Next]_vars
=============================================================================
