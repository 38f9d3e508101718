------------------------------ MODULE MCBoard ------------------------------
(* Three users, one of each role, the first the author of the posts; every   *)
(* name is a tag's at first, and one post has comments.  The handlers that   *)
(* touch the same rows meet.                                                 *)
EXTENDS Board, TLC

CONSTANTS u1, u2, u3, p1, n1, n2, t1, t2, t3, c1, c2

MCUsers == {u1, u2, u3}
MCLevel == u1 :> 1 @@ u2 :> 2 @@ u3 :> 3
MCTags  == {t1, t2, t3}
MCSeedTag == t1 :> n1 @@ t2 :> n2 @@ t3 :> Null
MCSeedComment == [c \in Comments |-> IF c \in {c1, c2} THEN p1 ELSE Null]
MCPages == 0 .. 2
MCMixes == {
  {"like", "unlike", "deletePost"},
  {"addTag", "removeTag", "deletePost"},
  {"addTag", "createTag", "deleteTag"},
  {"addTag", "removeTag", "deleteTag"},
  {"comment", "deleteComment", "list"},
  {"comment", "deleteComment", "deletePost"},
  {"list", "edit", "deletePost"},
  {"getPost", "getComment", "deletePost"},
  {"getTag", "listTag", "createTag", "deleteTag"},
  {"like", "addTag"} }

Symmetry == Permutations(Requests)
=============================================================================
