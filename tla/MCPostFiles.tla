---------------------------- MODULE MCPostFiles ----------------------------
EXTENDS PostFilesInv, TLC

(* An update meets one other request; without updates, all of them meet. *)
Bounded == \/ \A r \in Requests : kind[r] # "update"
           \/ Cardinality({r \in Requests : kind[r] # "none"}) <= 2

Symmetry == Permutations(Requests) \cup Permutations(Posts) \cup Permutations(Files)
=============================================================================
