---------------------------- MODULE PostQueries ----------------------------
(***************************************************************************)
(* PostQueries: what the SELECTs of store/posts.go give for one post, from *)
(* the post's rows in post_files, post_likes, post_tags and comments.      *)
(* Each of them LEFT JOINs these tables and groups by the post, so a group *)
(* is every combination of a file, a like, a tag (and a comment), with     *)
(* NULLs where a table has no row for the post, and the aggregates run     *)
(* over the combinations.                                                  *)
(*                                                                         *)
(* F, L, T and C are the files, who likes it, the names of its tags and    *)
(* its comments.                                                           *)
(***************************************************************************)
EXTENDS Naturals, FiniteSets

CONSTANT Null

(* A LEFT JOIN keeps a post that has no row in S. *)
Inner(S) == S                                \* mutant: JOIN for LEFT JOIN
Outer(S) == IF S = {} THEN {Null} ELSE S

(* The group of a post: GetByID, GetByUserID, GetByTag (posts.go:57-68,      *)
(* 107-118, 308-320), and the two feeds, which join the comments too         *)
(* (posts.go:193-217, 252-274).                                              *)
Group(F, L, T) == {[file |-> f, like |-> u, tag |-> t] :
                     f \in Outer(F), u \in Outer(L), t \in Outer(T)}
FeedGroup(F, L, T, C) == {[file |-> f, like |-> u, tag |-> t, comment |-> c] :
                     f \in Outer(F), u \in Outer(L), t \in Outer(T), c \in Outer(C)}

(* COUNT(pl.post_id): the rows of the group with a like. *)
Likes(G) == Cardinality({g \in G : g.like # Null})

(* COUNT(DISTINCT pl.post_id): the post_ids there are among them: this post's. *)
LikeCount(G) == IF \E g \in G : g.like # Null THEN 1 ELSE 0

(* COUNT(DISTINCT c.id). *)
CommentCountOfRows(G) == Cardinality({g \in G : g.comment # Null})  \* mutant: no DISTINCT
CommentCount(G) == Cardinality({g.comment : g \in G} \ {Null})

(* ARRAY_AGG(pf.file_id) FILTER (NOT NULL): how often the array has a file. *)
Repeats(G, f) == Cardinality({g \in G : g.file = f})
Shown(G) == {g.file : g \in G} \ {Null}

(* ARRAY_AGG(DISTINCT pt.tag_name) FILTER (NOT NULL). *)
TagsShown(G) == {g.tag : g \in G} \ {Null}

(* GetByTag: WHERE pt.tag_name = $1 before GROUP BY. *)
Tagged(G, n) == {g \in G : g.tag = n}
=============================================================================
