-------------------------- MODULE PostFilesProofs --------------------------
(***************************************************************************)
(* Proofs about PostFiles, for any requests, posts, files and limits, with *)
(* or without faults, with the routes as committed or repaired: IInv is    *)
(* inductive, and the properties the runs check follow from it.            *)
(***************************************************************************)
EXTENDS PostFilesInv, TLAPS

-----------------------------------------------------------------------------
(* The steps that need an argument of their own. *)

(* A request that starts has no file yet, and explains no stray. *)
LEMMA StartStrays ==
  ASSUME NEW r \in Requests, TypeOK, EmptyHanded, StraysExplained, Start(r)
  PROVE  StraysExplained'
<1>1. pc[r] = "idle" /\ kind[r] = "none" /\ cur[r] = None /\ list[r] = {}
  BY DEF Start, StartCreate, StartUpload, StartOnPost, EmptyHanded
<1>2. \A q \in Requests \ {r} : pc'[q] = pc[q] /\ kind'[q] = kind[q] /\ target'[q] = target[q]
  BY DEF Start, StartCreate, StartUpload, StartOnPost, Goto, TypeOK
<1>3. UNCHANGED <<post, rows, postOf, objects, cur, list>>
  BY DEF Start, StartCreate, StartUpload, StartOnPost, db
<1> SUFFICES ASSUME NEW f \in objects \ rows
             PROVE  (\E q \in Requests : Unlinked(q, f) \/ BrokenOff(q, f) \/ Overlooked(q, f))'
  BY <1>3 DEF StraysExplained
<1>4. PICK q \in Requests : Unlinked(q, f) \/ BrokenOff(q, f) \/ Overlooked(q, f)
  BY DEF StraysExplained
<1>5. q # r
  BY <1>1, <1>4, PostFilesAssumption DEF TypeOK, Unlinked, BrokenOff, Overlooked
<1> QED
  BY <1>2, <1>3, <1>4, <1>5 DEF Unlinked, BrokenOff, Overlooked, Live

(* A new post makes no deleted post live again, so no stray loses its reason. *)
LEMMA InsertPostStrays ==
  ASSUME NEW r \in Requests, TypeOK, Targeted, Dated, EmptyHanded, OnItsWay, StraysExplained, InsertPost(r)
  PROVE  StraysExplained'
<1>1. kind[r] = "create" /\ kind'[r] = "create" /\ cur[r] = None /\ list[r] = {} /\ pc'[r] # "201"
  BY DEF InsertPost, EmptyHanded, OnItsWay, StepsOf, Active, Goto, form, TypeOK
<1>2. \A q \in Requests \ {r} : pc'[q] = pc[q] /\ target'[q] = target[q]
  BY DEF InsertPost, Goto, TypeOK
<1>3. UNCHANGED <<rows, postOf, objects, kind, cur, list>>
  BY DEF InsertPost, form
<1>4. ASSUME NEW f \in Files, postOf[f] # None, ~Live(postOf[f])  PROVE ~Live(postOf[f])'
  BY <1>3, <1>4 DEF InsertPost, Live, TypeOK, Dated
<1> SUFFICES ASSUME NEW f \in objects \ rows
             PROVE  (\E q \in Requests : Unlinked(q, f) \/ BrokenOff(q, f) \/ Overlooked(q, f))'
  BY <1>3 DEF StraysExplained
<1>5. PICK q \in Requests : Unlinked(q, f) \/ BrokenOff(q, f) \/ Overlooked(q, f)
  BY DEF StraysExplained
<1>6. q # r /\ f \in Files
  BY <1>1, <1>5, PostFilesAssumption DEF TypeOK, Unlinked, BrokenOff, Overlooked
<1> QED
  <2>1. CASE Overlooked(q, f)
    BY <2>1, <1>2, <1>3, <1>4, <1>6, PostFilesAssumption DEF Overlooked, Targeted
  <2>2. CASE Unlinked(q, f) \/ BrokenOff(q, f)
    BY <2>2, <1>2, <1>3, <1>6 DEF Unlinked, BrokenOff
  <2> QED  BY <1>5, <2>1, <2>2

(* A new post takes no linked file back to life. *)
LEMMA InsertPostLinked ==
  ASSUME NEW r \in Requests, TypeOK, Targeted, Dated, EmptyHanded, Known, Linked, InsertPost(r)
  PROVE  Linked'
<1>1. mine[r] = {}
  BY DEF InsertPost, EmptyHanded
<1>2. \A q \in Requests \ {r} : target'[q] = target[q]
  BY DEF InsertPost, TypeOK
<1>3. UNCHANGED <<rows, postOf, kind, mine, list>>
  BY DEF InsertPost, form
<1>4. ASSUME NEW f \in Files, postOf[f] # None, ~Live(postOf[f])  PROVE ~Live(postOf[f])'
  BY <1>3, <1>4 DEF InsertPost, Live, TypeOK, Dated
<1>5. ASSUME NEW q \in Requests, NEW f \in mine[q]
      PROVE  postOf[f] = target'[q] /\ (f \in rows \/ ~Live(target[q])' \/ Taken(f)')
  <2>1. q # r /\ postOf[f] = target[q] /\ postOf[f] # None /\ f \in Files
    BY <1>1, <1>5 DEF Linked, Known, WasLinked, TypeOK
  <2>2. f \in rows \/ ~Live(target[q]) \/ Taken(f)
    BY <1>5 DEF Linked
  <2> QED  BY <1>2, <1>3, <1>4, <2>1, <2>2 DEF Taken
<1> QED  BY <1>3, <1>5 DEF Linked

(* A new object is none of those a delete has erased: its uuid was never linked. *)
LEMMA SaveToR2Deleting ==
  ASSUME NEW r \in Requests, TypeOK, OnItsWay, Known, Deleting, SaveToR2(r)
  PROVE  Deleting'
<1>1. PICK f \in Files : Fresh(f) /\ objects' \subseteq objects \cup {f}
  BY DEF SaveToR2
<1>2. \A q \in Requests : f \notin list[q]
  BY <1>1 DEF Known, WasLinked, Fresh
<1>3. pc'[r] \notin {"objects", "204"}
  BY DEF SaveToR2, Abort, Goto, TypeOK
<1>4. UNCHANGED <<post, kind, target, list>> /\ \A q \in Requests \ {r} : pc'[q] = pc[q]
  BY DEF SaveToR2, Abort, Goto, TypeOK, db, form
<1> QED  BY <1>1, <1>2, <1>3, <1>4 DEF Deleting

(* The row that is written is that of a stored file and names a post. *)
LEMMA LinkFileType ==
  ASSUME NEW r \in Requests, TypeOK, OnItsWay, Targeted, InHand, LinkFile(r)
  PROVE  TypeOK'
<1>1. cur[r] \in Files /\ target[r] \in Posts
  BY DEF LinkFile, InHand, Targeted, OnItsWay, StepsOf, Active, TypeOK
<1>2. rows' \subseteq Files /\ postOf' \in [Files -> Posts \cup {None}]
  BY <1>1 DEF LinkFile, TypeOK
<1>3. mine' \in [Requests -> SUBSET Files] /\ cur' \in [Requests -> Files \cup {None}]
  BY <1>1 DEF LinkFile, TypeOK
<1>4. work' \in [Requests -> SUBSET Files]
  BY DEF LinkFile, Abort, Undo, TypeOK
<1>5. pc' \in [Requests -> {"idle"} \cup Active \cup Answers]
  BY DEF LinkFile, Abort, Goto, Active, Answers, TypeOK
<1> QED  BY <1>2, <1>3, <1>4, <1>5 DEF LinkFile, form, TypeOK

(* What the cascade takes was listed by this delete, or is overlooked by it. *)
LEMMA DeletePostStrays ==
  ASSUME NEW r \in Requests, TypeOK, Targeted, Known, RowsOwned, StraysExplained, DeletePost(r)
  PROVE  StraysExplained'
<1>1. pc[r] = "rows" /\ pc'[r] \in {"objects", "500"} /\ kind[r] = "delete"
  BY DEF DeletePost, Goto, TypeOK
<1>2. UNCHANGED <<postOf, objects, kind, target, cur, list>>
      /\ \A q \in Requests \ {r} : pc'[q] = pc[q]
  BY DEF DeletePost, Goto, TypeOK, form
<1>3. \A p \in Posts : ~Live(p) => ~Live(p)'
  BY DEF DeletePost, Live, TypeOK
<1>4. rows' # rows => ~Live(target[r])' /\ rows' = rows \ RowsOf(target[r])
  BY <1>1 DEF DeletePost, Live, Cascaded, Targeted, TypeOK
<1> SUFFICES ASSUME NEW f \in objects \ rows'
             PROVE  (\E q \in Requests : Unlinked(q, f) \/ BrokenOff(q, f) \/ Overlooked(q, f))'
  BY <1>2 DEF StraysExplained
<1>5. CASE f \in rows
  <2>1. postOf[f] = target[r] /\ ~Live(target[r])'
    BY <1>4, <1>5 DEF RowsOf
  <2> QED  BY <1>1, <1>2, <2>1 DEF BrokenOff, Overlooked
<1>6. CASE f \notin rows
  <2>1. PICK q \in Requests : Unlinked(q, f) \/ BrokenOff(q, f) \/ Overlooked(q, f)
    BY <1>6 DEF StraysExplained
  <2>2. CASE Overlooked(q, f)
    BY <2>2, <1>2, <1>3 DEF Overlooked, Targeted
  <2>3. CASE BrokenOff(q, f)
    BY <2>3, <1>1, <1>2 DEF BrokenOff
  <2>4. CASE Unlinked(q, f)
    BY <2>4, <1>1, <1>2 DEF Unlinked
  <2> QED  BY <2>1, <2>2, <2>3, <2>4
<1> QED  BY <1>5, <1>6

-----------------------------------------------------------------------------
(* Every action preserves IInv: first what needs other parts of it, then     *)
(* the parts that keep themselves.                                           *)

LEMMA StartCreateKeeps == ASSUME NEW r \in Requests, IInv, StartCreate(r) PROVE IInv'
<1> USE PostFilesAssumption DEF IInv
<1>1. StraysExplained'
  BY StartStrays DEF Start
<1>2. Linked'
  BY DEF db, Active, Live, Goto, StartCreate, Taken, EmptyHanded, Linked
<1>3. ClaimsGone'
  BY DEF db, Answers, Active, TypeOK, Goto, StartCreate, Dropped, StepsOf, OnItsWay,
      Claimed, ClaimsGone
<1>4. (TypeOK /\ OnItsWay /\ Targeted /\ InHand /\ Dated /\ EmptyHanded /\ Known)'
  BY DEF db, Answers, Active, TypeOK, Goto, StartCreate, StepsOf, OnItsWay, Targeted,
      InHand, WasLinked, Known, Dated, EmptyHanded
<1>5. (Loops /\ RowsOwned /\ RowsBacked /\ Deleting /\ NoContentIsDelete /\
      ClaimedOnce)'
  BY DEF db, Answers, Active, Live, TypeOK, Goto, StartCreate, RowsBacked, RowsOwned,
      Dropped, Loops, Deleting, NoContentIsDelete, Claimed, ClaimedOnce
<1> QED  BY <1>1, <1>2, <1>3, <1>4, <1>5

LEMMA StartUploadKeeps == ASSUME NEW r \in Requests, IInv, StartUpload(r) PROVE IInv'
<1> USE PostFilesAssumption DEF IInv
<1>1. StraysExplained'
  BY StartStrays DEF Start
<1>2. Linked'
  BY DEF db, Active, Live, Goto, StartUpload, Taken, EmptyHanded, Linked
<1>3. (TypeOK /\ OnItsWay /\ Targeted /\ InHand /\ Dated /\ EmptyHanded /\ Known)'
  BY DEF db, Answers, Active, TypeOK, Goto, StartUpload, StepsOf, OnItsWay, Targeted,
      InHand, WasLinked, Known, Dated, EmptyHanded
<1>4. (Loops /\ RowsOwned /\ RowsBacked /\ Deleting /\ NoContentIsDelete /\
      ClaimsGone /\ ClaimedOnce)'
  BY DEF db, Answers, Active, Live, TypeOK, Goto, StartUpload, RowsBacked, RowsOwned,
      Dropped, Loops, Deleting, NoContentIsDelete, Claimed, ClaimsGone, ClaimedOnce
<1> QED  BY <1>1, <1>2, <1>3, <1>4

LEMMA StartOnPostKeeps == ASSUME NEW r \in Requests, IInv, StartOnPost(r) PROVE IInv'
<1> USE PostFilesAssumption DEF IInv
<1>1. StraysExplained'
  BY StartStrays DEF Start
<1>2. Linked'
  BY DEF db, Active, Live, Goto, StartOnPost, Taken, EmptyHanded, Linked
<1>3. (TypeOK /\ OnItsWay /\ Targeted /\ InHand /\ Dated /\ EmptyHanded /\ Known)'
  BY DEF db, Answers, Active, TypeOK, Goto, StartOnPost, StepsOf, OnItsWay, Targeted,
      InHand, WasLinked, Known, Dated, EmptyHanded
<1>4. (Loops /\ RowsOwned /\ RowsBacked /\ Deleting /\ NoContentIsDelete /\
      ClaimsGone /\ ClaimedOnce)'
  BY DEF db, Answers, Active, Live, TypeOK, Goto, StartOnPost, RowsBacked, RowsOwned,
      Dropped, Loops, Deleting, NoContentIsDelete, Claimed, ClaimsGone, ClaimedOnce
<1> QED  BY <1>1, <1>2, <1>3, <1>4

LEMMA PostGateKeeps == ASSUME NEW r \in Requests, IInv, PostGate(r) PROVE IInv'
<1> USE PostFilesAssumption DEF IInv
<1>1. ClaimedOnce'
  BY DEF db, form, Answers, Active, Live, TypeOK, Goto, Handler, GateAnswers, PostGate,
      Dropped, StepsOf, OnItsWay, Claimed, ClaimedOnce
<1>2. (TypeOK /\ OnItsWay /\ Targeted /\ InHand /\ Dated /\ EmptyHanded /\ Known /\
      Linked)'
  BY DEF db, form, Answers, Active, Live, TypeOK, Goto, Handler, GateAnswers, PostGate,
      Taken, StepsOf, OnItsWay, Targeted, InHand, WasLinked, Known, Dated, EmptyHanded,
      Linked
<1>3. (Loops /\ RowsOwned /\ RowsBacked /\ Deleting /\ NoContentIsDelete /\
      ClaimsGone /\ StraysExplained)'
  BY DEF db, form, Answers, Active, Live, TypeOK, Goto, Handler, GateAnswers, PostGate,
      RowsBacked, RowsOwned, Unlinked, BrokenOff, Overlooked, StraysExplained, Dropped,
      Loops, Deleting, NoContentIsDelete, Claimed, ClaimsGone
<1> QED  BY <1>1, <1>2, <1>3

LEMMA UpdateContentKeeps == ASSUME NEW r \in Requests, IInv, UpdateContent(r) PROVE IInv'
<1> USE PostFilesAssumption DEF IInv
<1>1. (TypeOK /\ OnItsWay /\ Targeted /\ InHand /\ Dated /\ EmptyHanded /\ Known /\
      Linked)'
  BY DEF db, form, Answers, Active, Live, TypeOK, Outcomes, Goto, UpdateContent, Taken,
      StepsOf, OnItsWay, Targeted, InHand, WasLinked, Known, Dated, EmptyHanded, Linked
<1>2. (Loops /\ RowsOwned /\ RowsBacked /\ Deleting /\ NoContentIsDelete /\
      ClaimsGone /\ ClaimedOnce /\ StraysExplained)'
  BY DEF db, form, Answers, Active, Live, TypeOK, Outcomes, Goto, UpdateContent,
      RowsBacked, RowsOwned, Unlinked, BrokenOff, Overlooked, StraysExplained, Dropped,
      Loops, Deleting, NoContentIsDelete, Claimed, ClaimsGone, ClaimedOnce
<1> QED  BY <1>1, <1>2

LEMMA InsertPostKeeps == ASSUME NEW r \in Requests, IInv, InsertPost(r) PROVE IInv'
<1> USE PostFilesAssumption DEF IInv
<1>1. StraysExplained'
  BY InsertPostStrays
<1>2. Linked'
  BY InsertPostLinked
<1>3. (TypeOK /\ OnItsWay /\ Targeted /\ InHand /\ Dated /\ EmptyHanded /\ Known)'
  BY DEF form, Answers, Active, TypeOK, Outcomes, Goto, InsertPost, StepsOf, OnItsWay,
      Targeted, InHand, WasLinked, Known, Dated, EmptyHanded
<1>4. (Loops /\ RowsOwned /\ RowsBacked /\ Deleting /\ NoContentIsDelete /\
      ClaimsGone /\ ClaimedOnce)'
  BY DEF form, Answers, Active, Live, TypeOK, Outcomes, Goto, InsertPost, RowsBacked,
      RowsOwned, Dropped, Loops, Deleting, NoContentIsDelete, Claimed, ClaimsGone,
      ClaimedOnce
<1> QED  BY <1>1, <1>2, <1>3, <1>4

LEMMA ListFilesKeeps == ASSUME NEW r \in Requests, IInv, ListFiles(r) PROVE IInv'
<1> USE PostFilesAssumption DEF IInv
<1>1. Known'
  BY DEF db, form, Answers, Active, Live, RowsOf, TypeOK, Goto, Listed, ListFiles,
      RowsOwned, WasLinked, Known
<1>2. Linked'
  BY DEF db, form, Answers, Active, Live, RowsOf, TypeOK, Goto, Listed, ListFiles,
      Taken, EmptyHanded, Linked
<1>3. Loops'
  BY DEF db, form, Answers, Active, RowsOf, TypeOK, Goto, Listed, ListFiles, Loops
<1>4. (TypeOK /\ OnItsWay /\ Targeted /\ InHand /\ Dated /\ EmptyHanded)'
  BY DEF db, form, Answers, Active, RowsOf, TypeOK, Goto, Listed, ListFiles, StepsOf,
      OnItsWay, Targeted, InHand, Dated, EmptyHanded
<1>5. (RowsOwned /\ RowsBacked /\ Deleting /\ NoContentIsDelete /\ ClaimsGone /\
      ClaimedOnce /\ StraysExplained)'
  BY DEF db, form, Answers, Active, Live, RowsOf, TypeOK, Goto, Listed, ListFiles,
      RowsBacked, RowsOwned, Unlinked, BrokenOff, Overlooked, StraysExplained, Dropped,
      Deleting, NoContentIsDelete, Claimed, ClaimsGone, ClaimedOnce
<1> QED  BY <1>1, <1>2, <1>3, <1>4, <1>5

LEMMA SaveToR2Keeps == ASSUME NEW r \in Requests, IInv, SaveToR2(r) PROVE IInv'
<1> USE PostFilesAssumption DEF IInv
<1>1. Deleting'
  BY SaveToR2Deleting
<1>2. InHand'
  BY DEF db, form, Answers, Active, Live, TypeOK, Outcomes, Fresh, Goto, Undo, Abort,
      Saved, SaveToR2, RowsOwned, InHand
<1>3. Loops'
  BY DEF db, form, Answers, Active, TypeOK, Outcomes, Fresh, Goto, Undo, Abort, Saved,
      SaveToR2, WasLinked, Known, Loops
<1>4. StraysExplained'
  BY DEF db, form, Answers, Active, Live, TypeOK, Outcomes, Fresh, Goto, Undo, Abort,
      Saved, SaveToR2, Unlinked, BrokenOff, Overlooked, StraysExplained, EmptyHanded
<1>5. (TypeOK /\ OnItsWay /\ Targeted /\ Dated)'
  BY DEF db, form, Answers, Active, TypeOK, Outcomes, Fresh, Goto, Undo, Abort, Saved,
      SaveToR2, StepsOf, OnItsWay, Targeted, Dated
<1>6. (EmptyHanded /\ Known /\ Linked /\ RowsOwned)'
  BY DEF db, form, Answers, Active, Live, TypeOK, Outcomes, Fresh, Goto, Undo, Abort,
      Saved, SaveToR2, RowsOwned, Taken, WasLinked, Known, EmptyHanded, Linked
<1>7. (RowsBacked /\ NoContentIsDelete)'
  BY DEF db, form, Answers, Active, TypeOK, Outcomes, Fresh, Goto, Undo, Abort, Saved,
      SaveToR2, RowsBacked, Dropped, NoContentIsDelete
<1>8. (ClaimsGone /\ ClaimedOnce)'
  BY DEF db, form, Answers, Active, TypeOK, Outcomes, Fresh, Goto, Undo, Abort, Saved,
      SaveToR2, Dropped, Claimed, ClaimsGone, ClaimedOnce
<1> QED  BY <1>1, <1>2, <1>3, <1>4, <1>5, <1>6, <1>7, <1>8

LEMMA LinkFileKeeps == ASSUME NEW r \in Requests, IInv, LinkFile(r) PROVE IInv'
<1> USE PostFilesAssumption DEF IInv
<1>1. TypeOK'
  BY LinkFileType
<1>2. EmptyHanded'
  BY DEF form, Answers, Active, Live, TypeOK, Outcomes, Goto, Undo, Abort, Linkable,
      LinkFile, EmptyHanded
<1>3. Known'
  BY DEF form, Answers, Active, Live, TypeOK, Outcomes, Goto, Undo, Abort, Linkable,
      LinkFile, StepsOf, OnItsWay, Targeted, InHand, WasLinked, Known
<1>4. Linked'
  BY SMTT(30)
  DEF form, Answers, Active, Live, TypeOK, Outcomes, Goto, Undo, Abort, Linkable,
      LinkFile, RowsBacked, Taken, Dropped, StepsOf, OnItsWay, InHand, WasLinked, Known,
      Linked, Claimed, ClaimsGone, ClaimedOnce
<1>5. Loops'
  BY DEF form, Answers, Active, Live, TypeOK, Outcomes, Goto, Undo, Abort, Linkable,
      LinkFile, InHand, WasLinked, Known, Loops
<1>6. RowsOwned'
  BY DEF form, Answers, Active, Live, TypeOK, Outcomes, Goto, Undo, Abort, Linkable,
      LinkFile, RowsOwned, StepsOf, OnItsWay, Targeted, InHand
<1>7. RowsBacked'
  BY DEF form, Answers, Active, Live, TypeOK, Outcomes, Goto, Undo, Abort, Linkable,
      LinkFile, RowsBacked, Dropped, StepsOf, OnItsWay, Targeted, InHand, EmptyHanded,
      Claimed, ClaimsGone, ClaimedOnce
<1>8. ClaimsGone'
  BY DEF form, Answers, Active, Live, TypeOK, Outcomes, Goto, Undo, Abort, Linkable,
      LinkFile, RowsBacked, RowsOwned, Dropped, InHand, WasLinked, Known, Claimed,
      ClaimsGone
<1>9. (OnItsWay /\ Targeted /\ InHand /\ Dated)'
  BY DEF form, Answers, Active, Live, TypeOK, Outcomes, Goto, Undo, Abort, Linkable,
      LinkFile, StepsOf, OnItsWay, Targeted, InHand, Dated
<1>10. StraysExplained'
  BY DEF form, Answers, Active, Live, TypeOK, Outcomes, Goto, Undo, Abort, Linkable,
      LinkFile, Unlinked, BrokenOff, Overlooked, StraysExplained
<1>11. (Deleting /\ NoContentIsDelete /\ ClaimedOnce)'
  BY DEF form, Answers, Active, Live, TypeOK, Outcomes, Goto, Undo, Abort, Linkable,
      LinkFile, Dropped, Deleting, NoContentIsDelete, Claimed, ClaimedOnce
<1> QED  BY <1>1, <1>2, <1>3, <1>4, <1>5, <1>6, <1>7, <1>8, <1>9, <1>10, <1>11

LEMMA FilesDoneKeeps == ASSUME NEW r \in Requests, IInv, FilesDone(r) PROVE IInv'
<1> USE PostFilesAssumption DEF IInv
<1>1. StraysExplained'
  BY DEF db, form, Answers, Active, Live, TypeOK, Goto, FilesDone, Unlinked, BrokenOff,
      Overlooked, StraysExplained, WasLinked, Known, EmptyHanded, Loops
<1>2. (TypeOK /\ OnItsWay /\ Targeted /\ InHand /\ Dated /\ EmptyHanded /\ Known /\
      Linked)'
  BY DEF db, form, Answers, Active, Live, TypeOK, Goto, FilesDone, Taken, StepsOf,
      OnItsWay, Targeted, InHand, WasLinked, Known, Dated, EmptyHanded, Linked
<1>3. (Loops /\ RowsOwned /\ RowsBacked /\ Deleting /\ NoContentIsDelete /\
      ClaimsGone /\ ClaimedOnce)'
  BY DEF db, form, Answers, Active, Live, TypeOK, Goto, FilesDone, RowsBacked,
      RowsOwned, Dropped, Loops, Deleting, NoContentIsDelete, Claimed, ClaimsGone,
      ClaimedOnce
<1> QED  BY <1>1, <1>2, <1>3

LEMMA DropRowKeeps == ASSUME NEW r \in Requests, IInv, DropRow(r) PROVE IInv'
<1> USE PostFilesAssumption DEF IInv
<1>1. Linked'
  BY DEF form, Active, Live, Outcomes, Goto, Undo, Abort, DroppedIt, DropRow, Taken,
      StepsOf, OnItsWay, Linked, Loops
<1>2. ClaimedOnce'
  BY DEF form, Answers, Active, TypeOK, Outcomes, Goto, Undo, Abort, DroppedIt, DropRow,
      Dropped, Claimed, ClaimsGone, ClaimedOnce
<1>3. StraysExplained'
  BY DEF form, Answers, Active, Live, TypeOK, Outcomes, Goto, Undo, Abort, DroppedIt,
      DropRow, Unlinked, BrokenOff, Overlooked, StraysExplained, Loops
<1>4. (TypeOK /\ OnItsWay /\ Targeted /\ InHand /\ Dated /\ EmptyHanded /\ Known)'
  BY DEF form, Answers, Active, TypeOK, Outcomes, Goto, Undo, Abort, DroppedIt, DropRow,
      StepsOf, OnItsWay, Targeted, InHand, WasLinked, Known, Dated, EmptyHanded
<1>5. (Loops /\ RowsOwned /\ RowsBacked /\ Deleting /\ NoContentIsDelete /\
      ClaimsGone)'
  BY DEF form, Answers, Active, Live, TypeOK, Outcomes, Goto, Undo, Abort, DroppedIt,
      DropRow, RowsBacked, RowsOwned, Dropped, Loops, Deleting, NoContentIsDelete,
      Claimed, ClaimsGone
<1> QED  BY <1>1, <1>2, <1>3, <1>4, <1>5

LEMMA DeletePostKeeps == ASSUME NEW r \in Requests, IInv, DeletePost(r) PROVE IInv'
<1> USE PostFilesAssumption DEF IInv
<1>1. StraysExplained'
  BY DeletePostStrays
<1>2. Linked'
  BY DEF form, Answers, Active, Live, RowsOf, TypeOK, Outcomes, Goto, Cascaded,
      DeletePost, Taken, WasLinked, Known, Linked
<1>3. Deleting'
  BY DEF form, Answers, Active, Live, RowsOf, TypeOK, Outcomes, Goto, Cascaded,
      DeletePost, Targeted, Deleting
<1>4. (TypeOK /\ OnItsWay /\ Targeted /\ InHand /\ Dated /\ EmptyHanded /\ Known)'
  BY DEF form, Answers, Active, Live, RowsOf, TypeOK, Outcomes, Goto, Cascaded,
      DeletePost, StepsOf, OnItsWay, Targeted, InHand, WasLinked, Known, Dated,
      EmptyHanded
<1>5. (Loops /\ RowsOwned /\ NoContentIsDelete)'
  BY DEF form, Answers, Active, Live, RowsOf, TypeOK, Outcomes, Goto, Cascaded,
      DeletePost, RowsOwned, Loops, NoContentIsDelete
<1>6. (RowsBacked /\ ClaimsGone /\ ClaimedOnce)'
  BY DEF form, Answers, Active, Live, RowsOf, TypeOK, Outcomes, Goto, Cascaded,
      DeletePost, RowsBacked, RowsOwned, Dropped, Claimed, ClaimsGone, ClaimedOnce
<1> QED  BY <1>1, <1>2, <1>3, <1>4, <1>5, <1>6

LEMMA RowsDroppedKeeps == ASSUME NEW r \in Requests, IInv, RowsDropped(r) PROVE IInv'
<1> USE PostFilesAssumption DEF IInv
<1>1. (TypeOK /\ OnItsWay /\ Targeted /\ InHand /\ Dated /\ EmptyHanded /\ Known /\
      Linked)'
  BY DEF db, form, Answers, Active, Live, TypeOK, Goto, RowsDropped, Taken, StepsOf,
      OnItsWay, Targeted, InHand, WasLinked, Known, Dated, EmptyHanded, Linked
<1>2. (Loops /\ Deleting /\ NoContentIsDelete)'
  BY DEF db, form, TypeOK, Goto, RowsDropped, Targeted, Loops, Deleting, NoContentIsDelete,
      Live, Claimed, ClaimsGone
<1>3. (RowsOwned /\ RowsBacked)'
  BY DEF db, form, TypeOK, Goto, RowsDropped, Live, RowsOwned, RowsBacked
<1>4. StraysExplained'
  BY DEF db, form, TypeOK, Goto, RowsDropped, Live, Unlinked, BrokenOff, Overlooked,
      StraysExplained
<1>5. ASSUME NEW q \in Requests PROVE Claimed(q)' \subseteq Claimed(q)
  BY DEF form, TypeOK, Goto, RowsDropped, OnItsWay, StepsOf, Dropped, Claimed
<1>6. (ClaimsGone /\ ClaimedOnce)'
  BY <1>5 DEF db, RowsDropped, ClaimsGone, ClaimedOnce
<1> QED  BY <1>1, <1>2, <1>3, <1>4, <1>6

LEMMA EraseObjectKeeps == ASSUME NEW r \in Requests, IInv, EraseObject(r) PROVE IInv'
<1> USE PostFilesAssumption DEF IInv
<1>1. InHand'
  BY DEF db, form, Answers, Active, TypeOK, Outcomes, Goto, EraseObject, InHand,
      WasLinked, Known, Loops
<1>2. RowsBacked'
  BY DEF db, form, Answers, Active, TypeOK, Outcomes, Goto, EraseObject, RowsBacked,
      Loops
<1>3. (TypeOK /\ OnItsWay /\ Targeted /\ Dated /\ EmptyHanded /\ Known /\ Linked)'
  BY DEF db, form, Answers, Active, Live, TypeOK, Outcomes, Goto, EraseObject, Taken,
      StepsOf, OnItsWay, Targeted, WasLinked, Known, Dated, EmptyHanded, Linked
<1>4. (Loops /\ RowsOwned /\ Deleting /\ NoContentIsDelete /\ ClaimsGone /\
      ClaimedOnce /\ StraysExplained)'
  BY DEF db, form, Answers, Active, Live, TypeOK, Outcomes, Goto, EraseObject,
      RowsOwned, Unlinked, BrokenOff, Overlooked, StraysExplained, Dropped, Loops,
      Deleting, NoContentIsDelete, Claimed, ClaimsGone, ClaimedOnce
<1> QED  BY <1>1, <1>2, <1>3, <1>4

LEMMA ObjectsErasedKeeps == ASSUME NEW r \in Requests, IInv, ObjectsErased(r) PROVE IInv'
<1> USE PostFilesAssumption DEF IInv
<1>1. Deleting'
  BY DEF db, form, Goto, ObjectsErased, Loops, Deleting
<1>2. StraysExplained'
  BY DEF db, form, Active, Live, Goto, ObjectsErased, Unlinked, BrokenOff, Overlooked,
      StraysExplained, StepsOf, OnItsWay, Loops
<1>3. (TypeOK /\ OnItsWay /\ Targeted /\ InHand /\ Dated /\ EmptyHanded /\ Known /\
      Linked)'
  BY DEF db, form, Answers, Active, Live, TypeOK, Goto, ObjectsErased, Taken, StepsOf,
      OnItsWay, Targeted, InHand, WasLinked, Known, Dated, EmptyHanded, Linked
<1>4. (Loops /\ RowsOwned /\ RowsBacked /\ NoContentIsDelete /\ ClaimsGone /\
      ClaimedOnce)'
  BY DEF db, form, Answers, Active, Live, TypeOK, Goto, ObjectsErased, RowsBacked,
      RowsOwned, Dropped, Loops, NoContentIsDelete, Claimed, ClaimsGone, ClaimedOnce
<1> QED  BY <1>1, <1>2, <1>3, <1>4

LEMMA CleanUpKeeps == ASSUME NEW r \in Requests, IInv, CleanUp(r) PROVE IInv'
<1> USE PostFilesAssumption DEF IInv
<1>1. InHand'
  BY DEF db, form, Outcomes, CleanUp, InHand, WasLinked, Known, Loops
<1>2. RowsBacked'
  BY DEF db, form, Active, Outcomes, CleanUp, RowsBacked, StepsOf, OnItsWay, Loops
<1>3. (TypeOK /\ OnItsWay /\ Targeted /\ Dated /\ EmptyHanded /\ Known /\ Linked)'
  BY DEF db, form, Answers, Active, Live, TypeOK, Outcomes, CleanUp, Taken, StepsOf,
      OnItsWay, Targeted, WasLinked, Known, Dated, EmptyHanded, Linked
<1>4. (Loops /\ RowsOwned /\ Deleting /\ NoContentIsDelete /\ ClaimsGone /\
      ClaimedOnce /\ StraysExplained)'
  BY DEF db, form, Answers, Active, Live, TypeOK, Outcomes, CleanUp, RowsOwned,
      Unlinked, BrokenOff, Overlooked, StraysExplained, Dropped, Loops, Deleting,
      NoContentIsDelete, Claimed, ClaimsGone, ClaimedOnce
<1> QED  BY <1>1, <1>2, <1>3, <1>4

LEMMA CleanedUpKeeps == ASSUME NEW r \in Requests, IInv, CleanedUp(r) PROVE IInv'
<1> USE PostFilesAssumption DEF IInv
<1>1. (TypeOK /\ OnItsWay /\ Targeted /\ InHand /\ Dated /\ EmptyHanded /\ Known /\
      Linked)'
  BY DEF db, form, Answers, Active, Live, TypeOK, Goto, CleanedUp, Taken, StepsOf,
      OnItsWay, Targeted, InHand, WasLinked, Known, Dated, EmptyHanded, Linked
<1>2. (Loops /\ RowsOwned /\ RowsBacked /\ Deleting /\ NoContentIsDelete /\
      ClaimsGone /\ ClaimedOnce /\ StraysExplained)'
  BY DEF db, form, Answers, Active, Live, TypeOK, Goto, CleanedUp, RowsBacked,
      RowsOwned, Unlinked, BrokenOff, Overlooked, StraysExplained, Dropped, Loops,
      Deleting, NoContentIsDelete, Claimed, ClaimsGone, ClaimedOnce
<1> QED  BY <1>1, <1>2

LEMMA CrashKeeps == ASSUME IInv, Crash PROVE IInv'
<1> USE PostFilesAssumption DEF IInv
<1>1. (TypeOK /\ OnItsWay /\ Targeted /\ InHand /\ Dated /\ EmptyHanded /\ Known /\
      Linked)'
  BY DEF db, form, Answers, Active, Live, TypeOK, Crash, Taken, StepsOf, OnItsWay,
      Targeted, InHand, WasLinked, Known, Dated, EmptyHanded, Linked
<1>2. (Loops /\ RowsOwned /\ RowsBacked /\ Deleting /\ NoContentIsDelete /\
      ClaimsGone /\ ClaimedOnce /\ StraysExplained)'
  BY DEF db, form, Answers, Active, Live, TypeOK, Crash, RowsBacked, RowsOwned,
      Unlinked, BrokenOff, Overlooked, StraysExplained, Dropped, Loops, Deleting,
      NoContentIsDelete, Claimed, ClaimsGone, ClaimedOnce
<1> QED  BY <1>1, <1>2

(* The stores a server starts with satisfy it. *)
LEMMA InitIInv == Init => IInv
<1> SUFFICES ASSUME Init PROVE IInv
  OBVIOUS
<1> USE PostFilesAssumption DEF Init
<1>1. TypeOK
  BY DEF TypeOK, AllKinds
<1>2. RowsOwned /\ RowsBacked /\ StraysExplained /\ Dated
  BY DEF RowsOwned, RowsBacked, StraysExplained, Dated, Live, TypeOK
<1>3. OnItsWay /\ Targeted /\ InHand /\ EmptyHanded /\ Known /\ Linked
  BY DEF OnItsWay, Targeted, InHand, EmptyHanded, Known, WasLinked, Linked, Active
<1>4. Loops /\ Deleting /\ NoContentIsDelete /\ ClaimsGone /\ ClaimedOnce
  BY DEF Loops, Deleting, NoContentIsDelete, ClaimsGone, ClaimedOnce, Claimed, Dropped
<1> QED  BY <1>1, <1>2, <1>3, <1>4 DEF IInv

(* Every step preserves it. *)
LEMMA NextIInv == IInv /\ [Next]_vars => IInv'
<1> SUFFICES ASSUME IInv, [Next]_vars PROVE IInv'
  OBVIOUS
<1>1. ASSUME NEW r \in Requests, Start(r) PROVE IInv'
  BY <1>1, StartCreateKeeps, StartUploadKeeps, StartOnPostKeeps DEF Start
<1>2. ASSUME NEW r \in Requests, Handle(r) PROVE IInv'
  BY <1>2, PostGateKeeps, UpdateContentKeeps, InsertPostKeeps, ListFilesKeeps,
     SaveToR2Keeps, LinkFileKeeps, FilesDoneKeeps, DropRowKeeps, DeletePostKeeps,
     RowsDroppedKeeps, EraseObjectKeeps, ObjectsErasedKeeps, CleanUpKeeps, CleanedUpKeeps
     DEF Handle
<1>3. CASE Crash
  BY <1>3, CrashKeeps
<1>4. CASE UNCHANGED vars
  BY <1>4 DEF vars, db, form, IInv, TypeOK, OnItsWay, Targeted, InHand, Dated, EmptyHanded,
     Known, WasLinked, Linked, Taken, Loops, RowsOwned, RowsBacked, Deleting,
     NoContentIsDelete, ClaimsGone, ClaimedOnce, Claimed, Dropped, StraysExplained,
     Unlinked, BrokenOff, Overlooked, Live
<1> QED  BY <1>1, <1>2, <1>3, <1>4 DEF Next, Quiet

(* IInv holds in every state of every behaviour (cmd/api/posts.go). *)
THEOREM Invariance == Spec => []IInv
<1> QED  BY InitIInv, NextIInv, PTL DEF Spec

(* Every variable keeps its type. *)
THEOREM TypeCorrect == Spec => []TypeOK
<1>1. IInv => TypeOK
  BY DEF IInv
<1> QED  BY <1>1, Invariance, PTL

(* No post ever shows a file whose object is gone, but for the rows that an  *)
(* update left behind when it cleaned up (posts.go:239, 256).                *)
THEOREM NoBrokenFiles == Spec => []RowsBacked
<1>1. IInv => RowsBacked
  BY DEF IInv
<1> QED  BY <1>1, Invariance, PTL

(* Every object without a row has one of the three reasons StraysExplained   *)
(* lists (posts.go:302-341, 384-412).                                        *)
THEOREM LeaksExplained == Spec => []StraysExplained
<1>1. IInv => StraysExplained
  BY DEF IInv
<1> QED  BY <1>1, Invariance, PTL

(* What createPost and updatePost answered with success is there until       *)
(* another request takes it (posts.go:83, 286).                              *)
THEOREM AnswersHold == Spec => []AnsweredKept
<1>1. IInv => AnsweredKept
  <2> SUFFICES ASSUME IInv, NEW r \in Requests,
                      pc[r] = "201" \/ (kind[r] = "update" /\ pc[r] = "200"),
                      NEW f \in mine[r], f \in rows
               PROVE  f \in objects
    BY DEF AnsweredKept, IInv, Linked
  <2>1. \A q \in Requests : f \in mine[q] => q = r
    BY DEF IInv, Linked
  <2> QED  BY <2>1 DEF IInv, RowsBacked
<1> QED  BY <1>1, Invariance, PTL

(* A 204 means the post, its rows and every object the delete listed are     *)
(* gone, for good (posts.go:330-343).                                        *)
THEOREM DeletesAreFinal == Spec => []DeletedGone
<1>1. IInv => DeletedGone
  BY DEF IInv, DeletedGone, Deleting, NoContentIsDelete, RowsOwned, RowsOf, Live
<1> QED  BY <1>1, Invariance, PTL

(* No two requests are both told they removed the same file                  *)
(* (post_files.go:105-107).                                                  *)
THEOREM DropsAreUnique == Spec => []DroppedOnce
<1>1. IInv => DroppedOnce
  BY DEF IInv, DroppedOnce, ClaimedOnce, Claimed, Dropped
<1> QED  BY <1>1, Invariance, PTL

-----------------------------------------------------------------------------
(* PostFiles implements Attachments: one step of a handler is one step in    *)
(* the life of a file or of a post, or none.                                 *)

StageIs(f, s) ==
  s = IF f \in rows THEN IF f \in objects THEN "attached" ELSE "broken"
      ELSE IF f \in objects THEN IF postOf[f] = None THEN "stored" ELSE "detached"
      ELSE IF postOf[f] = None THEN "absent" ELSE "erased"

LEMMA StageOf == (\A f \in Files : StageIs(f, stage[f])) /\ stage = [f \in Files |-> stage[f]]
BY DEF stage, StageIs

LEMMA StageOfNext ==
  (\A f \in Files : StageIs(f, stage[f])') /\ stage' = [f \in Files |-> stage'[f]]
BY DEF stage, StageIs

(* A step that touches one file changes the stage of that file only. *)
LEMMA StageStep ==
  ASSUME NEW f \in Files, \A g \in Files \ {f} : postOf'[g] = postOf[g],
         \A g \in Files \ {f} : (g \in rows' <=> g \in rows) /\ (g \in objects' <=> g \in objects)
  PROVE  stage' = [stage EXCEPT ![f] = stage'[f]]
<1>1. \A g \in Files \ {f} : stage'[g] = stage[g]
  BY StageOf, StageOfNext DEF StageIs
<1> QED  BY <1>1, StageOf, StageOfNext

LEMMA InitRefines == Init => A!Init
<1> SUFFICES ASSUME Init PROVE A!Init
  OBVIOUS
<1>1. \A f \in Files : stage[f] = IF postOf[f] = None THEN "absent" ELSE "attached"
  BY StageOf DEF StageIs, Init
<1>2. A!TypeOK
  BY <1>1, StageOf, StageOfNext DEF StageIs, Init, A!TypeOK, A!Stages
<1>3. A!ShownOwned
  BY <1>1 DEF Init, A!ShownOwned, A!Shown, Live
<1> QED  BY <1>1, <1>2, <1>3 DEF Init, A!Init

LEMMA InsertPostRefines ==
  ASSUME NEW r \in Requests, IInv, InsertPost(r)  PROVE A!Next \/ UNCHANGED A!vars
<1>1. UNCHANGED <<stage, postOf>>
  BY DEF InsertPost, stage
<1> QED  BY <1>1 DEF InsertPost, A!Next, A!Publish, A!vars

LEMMA SaveToR2Refines ==
  ASSUME NEW r \in Requests, IInv, SaveToR2(r)  PROVE A!Next \/ UNCHANGED A!vars
<1>1. PICK f \in Files : Fresh(f) /\ (objects' = objects \cup {f} \/ objects' = objects)
  BY DEF SaveToR2
<1>2. UNCHANGED <<post, rows, postOf>>
  BY DEF SaveToR2, db
<1>3. CASE objects' = objects
  BY <1>2, <1>3 DEF stage, A!vars
<1>4. CASE objects' = objects \cup {f}
  <2>1. f \notin rows
    BY <1>1, PostFilesAssumption DEF IInv, RowsOwned, Fresh
  <2>2. stage[f] = "absent" /\ stage'[f] = "stored"
    BY <1>1, <1>2, <1>4, <2>1, StageOf, StageOfNext DEF StageIs, Fresh
  <2>3. stage' = [stage EXCEPT ![f] = stage'[f]]
    BY <1>2, <1>4, StageStep
  <2> QED  BY <1>2, <2>2, <2>3 DEF A!Next, A!Store, A!Step
<1> QED  BY <1>1, <1>3, <1>4

LEMMA LinkFileRefines ==
  ASSUME NEW r \in Requests, IInv, LinkFile(r)  PROVE A!Next \/ UNCHANGED A!vars
<1>1. cur[r] \in Files /\ target[r] \in Posts
  BY DEF LinkFile, IInv, TypeOK, InHand, Targeted, OnItsWay, StepsOf, Active
<1>2. UNCHANGED <<post, objects>>
  BY DEF LinkFile
<1>3. CASE UNCHANGED <<rows, postOf>>
  BY <1>2, <1>3 DEF stage, A!vars
<1>4. CASE /\ Linkable(r)
           /\ rows' = rows \cup {cur[r]} /\ postOf' = [postOf EXCEPT ![cur[r]] = target[r]]
  <2>1. stage[cur[r]] = "stored" /\ stage'[cur[r]] = "attached"
    BY <1>1, <1>2, <1>4, StageOf, StageOfNext DEF StageIs, LinkFile, IInv, InHand
  <2>2. \A g \in Files \ {cur[r]} : postOf'[g] = postOf[g]
    BY <1>4 DEF IInv, TypeOK
  <2>3. stage' = [stage EXCEPT ![cur[r]] = stage'[cur[r]]]
    BY <1>1, <1>2, <1>4, <2>2, StageStep
  <2> QED  BY <1>1, <1>2, <1>4, <2>1, <2>3 DEF A!Next, A!Attach, A!Step, Linkable, Live
<1> QED  BY <1>3, <1>4 DEF LinkFile

LEMMA DropRowRefines ==
  ASSUME NEW r \in Requests, IInv, DropRow(r)  PROVE A!Next \/ UNCHANGED A!vars
<1>1. UNCHANGED <<post, postOf, objects>>
  BY DEF DropRow
<1>2. PICK f \in Files : rows' = rows \/ rows' = rows \ {f}
  BY DEF DropRow, IInv, TypeOK
<1>3. CASE rows' = rows
  BY <1>1, <1>3 DEF stage, A!vars
<1>4. CASE rows' = rows \ {f} /\ f \in rows
  <2>1. postOf[f] # None
    BY <1>4, PostFilesAssumption DEF IInv, RowsOwned
  <2>2. \/ stage[f] = "attached" /\ stage'[f] = "detached"
        \/ stage[f] = "broken" /\ stage'[f] = "erased"
    BY <1>1, <1>4, <2>1, StageOf, StageOfNext DEF StageIs
  <2>3. stage' = [stage EXCEPT ![f] = stage'[f]]
    BY <1>1, <1>4, StageStep
  <2> QED  BY <1>1, <2>2, <2>3 DEF A!Next, A!Detach, A!Shown, A!Unshown, A!Step
<1> QED  BY <1>2, <1>3, <1>4

LEMMA DeletePostRefines ==
  ASSUME NEW r \in Requests, IInv, DeletePost(r)  PROVE A!Next \/ UNCHANGED A!vars
<1>1. UNCHANGED <<postOf, objects>> /\ target[r] \in Posts
  BY DEF DeletePost, IInv, Targeted
<1>2. CASE UNCHANGED <<post, rows>>
  BY <1>1, <1>2 DEF stage, A!vars
<1>3. CASE /\ Live(target[r]) /\ post' = [post EXCEPT ![target[r]] = "deleted"]
           /\ rows' = rows \ RowsOf(target[r])
  <2>1. ASSUME NEW f \in Files
        PROVE  stage'[f] = IF postOf[f] = target[r] THEN A!Unshown(stage[f]) ELSE stage[f]
    <3>1. f \in rows' <=> f \in rows /\ postOf[f] # target[r]
      BY <1>3 DEF RowsOf
    <3>2. postOf[f] = target[r] => postOf[f] # None
      BY <1>1, PostFilesAssumption
    <3> QED  BY <1>1, <3>1, <3>2, StageOf, StageOfNext DEF StageIs, A!Unshown
  <2>2. A!Remove(target[r])
    BY <1>1, <1>3, <2>1, StageOf, StageOfNext DEF StageIs, A!Remove, Live
  <2> QED  BY <1>1, <2>2 DEF A!Next
<1> QED  BY <1>2, <1>3 DEF DeletePost, Cascaded

(* An object that goes: of a file that left its post, or, in an update's     *)
(* clean-up only, of a file whose row stays.                                 *)
LEMMA EraseRefines ==
  ASSUME IInv, UNCHANGED <<post, rows, postOf>>, NEW f \in Files, postOf[f] # None,
         f \in rows => "update" \in Kinds, objects' = objects \/ objects' = objects \ {f}
  PROVE  A!Next \/ UNCHANGED A!vars
<1>1. CASE objects' = objects
  BY <1>1 DEF stage, A!vars
<1>2. CASE objects' = objects \ {f} /\ f \in objects
  <2>1. \/ stage[f] = "detached" /\ stage'[f] = "erased"
        \/ f \in rows /\ stage[f] = "attached" /\ stage'[f] = "broken"
    BY <1>2, StageOf, StageOfNext DEF StageIs
  <2>2. stage' = [stage EXCEPT ![f] = stage'[f]]
    BY <1>2, StageStep
  <2> QED  BY <2>1, <2>2 DEF A!Next, A!Erase, A!Break, A!Step
<1> QED  BY <1>1, <1>2

LEMMA EraseObjectRefines ==
  ASSUME NEW r \in Requests, IInv, EraseObject(r)  PROVE A!Next \/ UNCHANGED A!vars
<1>1. PICK f \in work[r] : objects' = objects \/ objects' = objects \ {f}
  BY DEF EraseObject
<1>2. f \in Files /\ postOf[f] # None /\ f \notin rows
  BY DEF EraseObject, IInv, TypeOK, Loops, Known, WasLinked
<1> QED  BY <1>1, <1>2, EraseRefines DEF EraseObject, db

LEMMA CleanUpRefines ==
  ASSUME NEW r \in Requests, IInv, CleanUp(r)  PROVE A!Next \/ UNCHANGED A!vars
<1>1. PICK f \in work[r] : objects' = objects \/ objects' = objects \ {f}
  BY DEF CleanUp
<1>2. f \in Files /\ postOf[f] # None
  BY DEF CleanUp, IInv, TypeOK, Loops, Known, WasLinked
<1>3. "update" \in Kinds
  BY DEF CleanUp, IInv, TypeOK, OnItsWay, StepsOf, Active
<1> QED  BY <1>1, <1>2, <1>3, EraseRefines DEF CleanUp, db

LEMMA NextRefines == IInv /\ [Next]_vars => [A!Next]_(A!vars)
<1> SUFFICES ASSUME IInv, [Next]_vars PROVE A!Next \/ UNCHANGED A!vars
  OBVIOUS
<1>1. CASE UNCHANGED <<db, objects>>
  BY <1>1 DEF db, stage, A!vars
<1>2. ASSUME NEW r \in Requests, Start(r) PROVE UNCHANGED <<db, objects>>
  BY <1>2 DEF Start, StartCreate, StartUpload, StartOnPost
<1>3. ASSUME NEW r \in Requests, Handle(r) PROVE A!Next \/ UNCHANGED A!vars
  <2>1. CASE PostGate(r) \/ UpdateContent(r) \/ ListFiles(r) \/ FilesDone(r) \/ RowsDropped(r)
             \/ ObjectsErased(r) \/ CleanedUp(r)
    BY <1>1, <2>1
       DEF PostGate, UpdateContent, ListFiles, FilesDone, RowsDropped, ObjectsErased, CleanedUp
  <2> QED
    BY <1>3, <2>1, InsertPostRefines, SaveToR2Refines, LinkFileRefines, DropRowRefines,
       DeletePostRefines, EraseObjectRefines, CleanUpRefines DEF Handle
<1>4. CASE Crash \/ Quiet
  BY <1>1, <1>4 DEF Crash, Quiet, vars
<1> QED  BY <1>1, <1>2, <1>3, <1>4 DEF Next, vars

(* The handlers of posts.go implement Attachments: a file is stored, then    *)
(* attached once to a post that exists, then detached, then erased.          *)
THEOREM Refinement == Spec => AttachmentsSpec
<1> QED  BY InitRefines, NextRefines, Invariance, PTL DEF Spec, AttachmentsSpec, A!Spec

-----------------------------------------------------------------------------
(* NoLeakAlone.  AloneInv needs one more lemma per kind of step. *)

(* A request that has a post keeps it: what was not alone never is again. *)
LEMMA AloneBefore ==
  ASSUME NEW r \in Requests, TypeOK, OwnTarget, Start(r) \/ Handle(r), Alone'
  PROVE  Alone
<1>1. \A q \in Requests : target[q] # None => target'[q] = target[q]
  BY DEF Start, StartCreate, StartUpload, StartOnPost, Handle, PostGate, UpdateContent, InsertPost,
     ListFiles, SaveToR2, LinkFile, FilesDone, DropRow, DeletePost, RowsDropped, EraseObject,
     ObjectsErased, CleanUp, CleanedUp, OwnTarget, TypeOK
<1> QED
  BY <1>1 DEF Alone

LEMMA StartAlone ==
  ASSUME NEW r \in Requests, IInv, AloneInv, Start(r) PROVE AloneInv'
<1>1. /\ TypeOK /\ UNCHANGED <<db, objects, cur, mine, list, work>>
      /\ pc[r] = "idle" /\ pc'[r] \in {"insert", "400", "upload", "gate"}
      /\ kind[r] = "none" /\ (pc'[r] = "upload" => kind'[r] = "upload")
      /\ pc'[r] = "insert" => target'[r] = target[r]
      /\ mine[r] = {} /\ list[r] = {} /\ cur[r] = None
      /\ \A q \in Requests \ {r} : pc'[q] = pc[q] /\ kind'[q] = kind[q] /\ target'[q] = target[q]
  BY DEF IInv, TypeOK, EmptyHanded, Start, StartCreate, StartUpload, StartOnPost, Goto
<1>2. OwnTarget'
  BY <1>1 DEF AloneInv, OwnTarget, db
<1>3. Uploaded'
  BY <1>1 DEF AloneInv, Uploaded, db
<1>4. ASSUME ~Faults, Alone' PROVE Unhindered' /\ Tidy'
  <2>1. Unhindered /\ Tidy
    BY <1>1, <1>4, AloneBefore DEF AloneInv
  <2>2. Unhindered'
    BY <1>1, <2>1 DEF Unhindered, RowsOf, Live, db
  <2>3. \A q \in Requests : \A f : Holds(q, f) => Holds(q, f)'
    BY <1>1 DEF Holds
  <2>4. Tidy'
    BY <1>1, <2>1, <2>3 DEF Tidy, db
  <2> QED
    BY <2>2, <2>4
<1> QED
  BY <1>2, <1>3, <1>4 DEF AloneInv

(* What Unhindered says of one request. *)
Free(r) ==
  /\ pc[r] \notin {"cleanup", "lost"}
  /\ pc[r] = "500" => mine[r] = {}
  /\ pc[r] \in {"content", "list", "upload", "link", "rows"} /\ kind[r] # "upload" => Live(target[r])
  /\ pc[r] \in {"upload", "link"} => list[r] \subseteq rows
  /\ pc[r] = "rows" => work[r] \subseteq rows
  /\ pc[r] = "rows" /\ kind[r] = "delete" => RowsOf(target[r]) \subseteq work[r]

(* A step at which only r moves on, and the stores stay as they are. *)
LEMMA MoveAlone ==
  ASSUME NEW r \in Requests, IInv, AloneInv,
         PostGate(r) \/ UpdateContent(r) \/ ListFiles(r) \/ FilesDone(r) \/ RowsDropped(r)
           \/ ObjectsErased(r)
  PROVE  AloneInv'
<1>1. /\ TypeOK /\ OnItsWay /\ EmptyHanded /\ Loops
      /\ UNCHANGED <<db, objects, kind, target, cur, mine>> /\ pc[r] \in Active /\ pc'[r] # "idle"
      /\ \A q \in Requests \ {r} : pc'[q] = pc[q] /\ list'[q] = list[q] /\ work'[q] = work[q]
  BY DEF IInv, TypeOK, Active, form, Goto, GateAnswers, Handler, PostGate, UpdateContent, ListFiles, FilesDone,
     RowsDropped, ObjectsErased
<1>2. OwnTarget'
  BY <1>1 DEF AloneInv, OwnTarget, db, Active, PostGate, UpdateContent, ListFiles, FilesDone,
     RowsDropped, ObjectsErased, Goto, GateAnswers, Handler, Listed, RowsOf, TypeOK
<1>3. Uploaded'
  <2>1. pc'[r] # "link" /\ (pc'[r] = "200" => kind[r] # "upload")
    BY <1>1 DEF OnItsWay, StepsOf, Active, PostGate, UpdateContent, ListFiles, FilesDone, RowsDropped,
       ObjectsErased, Goto, GateAnswers, Handler, TypeOK
  <2> QED
    BY <1>1, <2>1 DEF AloneInv, Uploaded, db
<1>4. ASSUME ~Faults, Alone' PROVE Unhindered' /\ Tidy'
  <2>1. Unhindered /\ Tidy
    BY <1>1, <1>4, AloneBefore DEF AloneInv, Handle
  <2>2. ASSUME NEW q \in Requests \ {r} PROVE Free(q)'
    BY <1>1, <2>1, <2>2 DEF Unhindered, Free, RowsOf, Live, db
  <2>3. Free(r)'
    <3>1. CASE PostGate(r)
      BY <3>1, <1>1, <1>4, <2>1 DEF Unhindered, Free, Live, RowsOf, db, EmptyHanded, OnItsWay, StepsOf, Active,
         PostGate, Goto, GateAnswers, Handler, TypeOK
    <3>2. CASE UpdateContent(r)
      BY <3>2, <1>1, <1>4, <2>1 DEF Unhindered, Free, Live, db, EmptyHanded, OnItsWay, StepsOf, Active,
         UpdateContent, Outcomes, Goto, TypeOK
    <3>3. CASE ListFiles(r)
      BY <3>3, <1>1, <1>4, <2>1 DEF Unhindered, Free, Live, RowsOf, db, OnItsWay, StepsOf, Active, ListFiles,
         Listed, Goto, TypeOK
    <3>4. CASE FilesDone(r)
      BY <3>4, <1>1, <1>4, <2>1 DEF Unhindered, Free, Live, db, OnItsWay, StepsOf, Active, FilesDone,
         Goto, TypeOK
    <3>5. CASE RowsDropped(r) \/ ObjectsErased(r)
      BY <3>5, <1>1, <1>4, <2>1 DEF Free, Live, db, RowsDropped, ObjectsErased, Goto, TypeOK
    <3> QED
      BY <3>1, <3>2, <3>3, <3>4, <3>5
  <2>4. ASSUME NEW f \in objects, NEW q \in Requests, Holds(q, f) PROVE Holds(q, f)'
    <3>1. q = r => pc[r] \in {"rows", "objects"} /\ f \in list[r]
      BY <1>1, <2>4 DEF Holds, Active, PostGate, UpdateContent, ListFiles, FilesDone, RowsDropped, ObjectsErased
    <3>2. CASE ObjectsErased(r)
      BY <3>1, <3>2, <1>1, <1>4, <2>4 DEF Holds, Loops, ObjectsErased
    <3>3. CASE ~ObjectsErased(r)
      BY <3>1, <3>3, <1>1, <2>4 DEF Holds, PostGate, UpdateContent, ListFiles, FilesDone, RowsDropped, Goto, TypeOK
    <3> QED
      BY <3>2, <3>3
  <2>5. Tidy'
    BY <1>1, <2>1, <2>4 DEF Tidy, db
  <2> QED
    BY <2>2, <2>3, <2>5 DEF Unhindered, Free
<1> QED
  BY <1>2, <1>3, <1>4 DEF AloneInv

LEMMA InsertPostAlone ==
  ASSUME NEW r \in Requests, IInv, AloneInv, InsertPost(r) PROVE AloneInv'
<1>1. /\ TypeOK /\ pc[r] = "insert" /\ kind[r] = "create" /\ mine[r] = {} /\ list[r] = {} /\ cur[r] = None
      /\ UNCHANGED <<rows, postOf, objects, kind, cur, mine, list, work>>
      /\ pc'[r] \in {"upload", "500"}
      /\ \A q \in Requests \ {r} : pc'[q] = pc[q] /\ target'[q] = target[q]
  BY DEF IInv, TypeOK, EmptyHanded, OnItsWay, StepsOf, Active, InsertPost, Goto, form
<1>2. OwnTarget' /\ Uploaded'
  BY <1>1 DEF AloneInv, OwnTarget, Uploaded
<1>3. ASSUME ~Faults, Alone' PROVE Unhindered' /\ Tidy'
  <2>1. Unhindered /\ Tidy
    BY <1>1, <1>3, AloneBefore DEF AloneInv, Handle
  <2>2. ASSUME NEW q \in Requests \ {r} PROVE Free(q)'
    <3>1. \A p : Live(p) /\ p \in Posts => Live(p)'
      BY <1>1 DEF Live, InsertPost, TypeOK
    <3>2. Free(q) /\ (pc[q] \in {"content", "list", "upload", "link", "rows"} /\ kind[q] # "upload" => target[q] \in Posts)
      BY <2>1, <2>2 DEF Unhindered, Free, IInv, Targeted, OnItsWay, StepsOf, Active
    <3> QED
      BY <1>1, <3>1, <3>2 DEF Free, RowsOf
  <2>3. Free(r)'
    BY <1>1, <1>3 DEF Free, InsertPost, Outcomes, Goto, Live, TypeOK
  <2>4. ASSUME NEW f, NEW q \in Requests, Holds(q, f) PROVE Holds(q, f)'
    BY <1>1, <2>4 DEF Holds
  <2>5. Tidy'
    BY <1>1, <2>1, <2>4 DEF Tidy
  <2> QED
    BY <2>2, <2>3, <2>5 DEF Unhindered, Free
<1> QED
  BY <1>2, <1>3 DEF AloneInv

(* A stored file is in the hands of who stored it. *)
LEMMA SaveToR2Alone ==
  ASSUME NEW r \in Requests, IInv, AloneInv, SaveToR2(r) PROVE AloneInv'
<1>1. /\ TypeOK /\ pc[r] = "upload"
      /\ UNCHANGED <<db, kind, target, mine, list>>
      /\ pc'[r] \in {"link", "200", "500", "cleanup"} /\ (pc'[r] = "link" => kind[r] # "upload")
      /\ \A q \in Requests \ {r} : pc'[q] = pc[q] /\ cur'[q] = cur[q] /\ work'[q] = work[q]
  <2>1. TypeOK
    BY DEF IInv
  <2> QED
    BY <2>1 DEF TypeOK, SaveToR2, Saved, Abort, Undo, Goto, form
<1>2. PICK f \in Files, o \in Outcomes :
        /\ Fresh(f)
        /\ objects' = IF o = "fail" THEN objects ELSE objects \cup {f}
        /\ o = "ok" => /\ pc' = [pc EXCEPT ![r] = IF kind[r] = "upload" THEN "200" ELSE "link"]
                       /\ cur' = [cur EXCEPT ![r] = f] /\ UNCHANGED work
        /\ o # "ok" => pc'[r] # "link" /\ pc'[r] # "200"
  BY DEF SaveToR2, Saved, Abort, Goto, TypeOK, IInv
<1>3. /\ f \notin objects /\ postOf[f] = None
      /\ o = "ok" => /\ objects' = objects \cup {f} /\ pc'[r] = IF kind[r] = "upload" THEN "200" ELSE "link"
                     /\ cur'[r] = f /\ UNCHANGED work
  BY <1>1, <1>2 DEF Fresh, TypeOK
<1>4. OwnTarget'
  BY <1>1 DEF AloneInv, OwnTarget, db
<1>5. Uploaded'
  <2>1. ASSUME NEW q \in Requests, kind'[q] = "upload", pc'[q] = "200"
        PROVE  /\ cur'[q] \in objects' /\ postOf'[cur'[q]] = None
               /\ \A p \in Requests : pc'[p] = "link" => cur'[p] # cur'[q]
    <3>1. CASE q = r
      BY <1>1, <1>2, <1>3, <2>1, <3>1 DEF db, IInv, InHand
    <3>2. CASE q # r
      BY <1>1, <1>2, <1>3, <2>1, <3>2 DEF AloneInv, Uploaded, db
    <3> QED
      BY <3>1, <3>2
  <2> QED
    BY <2>1 DEF Uploaded
<1>6. ASSUME ~Faults, Alone' PROVE Unhindered' /\ Tidy'
  <2>1. Unhindered /\ Tidy /\ o = "ok"
    BY <1>1, <1>2, <1>6, AloneBefore DEF AloneInv, Handle, Outcomes
  <2>2. ASSUME NEW q \in Requests \ {r} PROVE Free(q)'
    BY <1>1, <2>1, <2>2 DEF Unhindered, Free, RowsOf, Live, db
  <2>3. Free(r)'
    BY <1>1, <1>3, <2>1 DEF Unhindered, Free, Live, db
  <2>4. ASSUME NEW g, NEW q \in Requests, Holds(q, g) PROVE Holds(q, g)'
    BY <1>1, <2>4 DEF Holds
  <2>5. Holds(r, f)'
    BY <1>1, <1>3, <2>1 DEF Holds
  <2>6. Tidy'
    BY <1>1, <1>3, <2>1, <2>4, <2>5 DEF Tidy, db
  <2> QED
    BY <2>2, <2>3, <2>6 DEF Unhindered, Free
<1> QED
  BY <1>4, <1>5, <1>6 DEF AloneInv

(* A row that is written is that of a request of its own post, and nobody    *)
(* else has listed the file or stored it as an upload.                       *)
LEMMA LinkFileAlone ==
  ASSUME NEW r \in Requests, IInv, AloneInv, LinkFile(r) PROVE AloneInv'
<1>1. /\ TypeOK /\ OnItsWay /\ EmptyHanded /\ Known /\ InHand /\ pc[r] = "link" /\ kind[r] \in {"create", "update"}
      /\ cur[r] \in Files /\ postOf[cur[r]] = None /\ target[r] \in Posts
      /\ UNCHANGED <<post, objects, kind, target, list>>
      /\ \A q \in Requests \ {r} :
           pc'[q] = pc[q] /\ cur'[q] = cur[q] /\ work'[q] = work[q] /\ mine'[q] = mine[q]
  BY DEF IInv, TypeOK, InHand, OnItsWay, Targeted, StepsOf, Active, LinkFile, Abort, Undo, Goto, form
<1>2. \A g \in Files : postOf[g] # None => postOf'[g] = postOf[g] /\ (g \in rows => g \in rows')
  BY <1>1 DEF LinkFile, TypeOK
<1>3. \A g \in Files : g # cur[r] => postOf'[g] = postOf[g] /\ (g \in rows' <=> g \in rows)
  BY <1>1 DEF LinkFile, TypeOK
<1>4. pc'[r] \in {"upload", "cleanup", "500"}
  BY <1>1 DEF LinkFile, Abort, Goto, TypeOK
<1>5. OwnTarget'
  <2>1. ASSUME NEW q \in Requests, NEW g \in list[q] PROVE postOf'[g] = target[q]
    <3>1. g \in Files /\ postOf[g] # None /\ postOf[g] = target[q]
      BY <1>1, <2>1 DEF Known, WasLinked, TypeOK, AloneInv, OwnTarget
    <3> QED
      BY <1>2, <3>1
  <2> QED
    BY <1>1, <1>4, <2>1 DEF AloneInv, OwnTarget
<1>6. Uploaded'
  <2>1. ASSUME NEW q \in Requests, kind'[q] = "upload", pc'[q] = "200"
        PROVE  /\ cur'[q] \in objects' /\ postOf'[cur'[q]] = None
               /\ \A p \in Requests : pc'[p] = "link" => cur'[p] # cur'[q]
    <3>1. q # r /\ cur[q] \in objects /\ postOf[cur[q]] = None /\ cur[q] # cur[r]
          /\ \A p \in Requests : pc[p] = "link" => cur[p] # cur[q]
      BY <1>1, <2>1 DEF AloneInv, Uploaded
    <3>2. cur[q] \in Files
      BY <1>1, <3>1 DEF TypeOK
    <3> QED
      BY <1>1, <1>3, <1>4, <2>1, <3>1, <3>2
  <2> QED
    BY <2>1 DEF Uploaded
<1>7. ASSUME ~Faults, Alone' PROVE Unhindered' /\ Tidy'
  <2>1. Unhindered /\ Tidy /\ Live(target[r])
    BY <1>1, <1>7, AloneBefore DEF AloneInv, Handle, Unhindered
  <2>2. /\ rows' = rows \cup {cur[r]} /\ postOf' = [postOf EXCEPT ![cur[r]] = target[r]]
        /\ pc'[r] = "upload"
    BY <1>1, <1>7, <2>1 DEF LinkFile, Linkable, Outcomes, Goto, TypeOK
  <2>3. ASSUME NEW q \in Requests \ {r} PROVE Free(q)'
    <3>1. Free(q) /\ target[q] # target[r]
      BY <1>1, <1>7, <2>1, <2>3, PostFilesAssumption DEF Unhindered, Free, Alone
    <3>2. RowsOf(target[q])' \subseteq RowsOf(target[q])
      BY <1>1, <2>2, <3>1 DEF RowsOf, TypeOK
    <3> QED
      BY <1>1, <2>2, <3>1, <3>2 DEF Free, Live
  <2>4. Free(r)'
    BY <1>1, <2>1, <2>2 DEF Unhindered, Free, Live
  <2>5. ASSUME NEW g, g # cur[r], NEW q \in Requests, Holds(q, g) PROVE Holds(q, g)'
    BY <1>1, <2>5 DEF Holds
  <2>6. Tidy'
    BY <1>1, <2>1, <2>2, <2>5 DEF Tidy
  <2> QED
    BY <2>3, <2>4, <2>6 DEF Unhindered, Free
<1> QED
  BY <1>5, <1>6, <1>7 DEF AloneInv

(* A row that goes was listed by the request that drops it, and by no other. *)
LEMMA DropRowAlone ==
  ASSUME NEW r \in Requests, IInv, AloneInv, DropRow(r) PROVE AloneInv'
<1>1. /\ TypeOK /\ Loops /\ Known /\ pc[r] = "rows"
      /\ UNCHANGED <<post, postOf, objects, kind, target, cur, mine, list>>
      /\ pc'[r] \in {"rows", "cleanup", "500"}
      /\ \A q \in Requests \ {r} : pc'[q] = pc[q] /\ work'[q] = work[q]
  BY DEF IInv, TypeOK, DropRow, Abort, Undo, Goto, form
<1>2. OwnTarget' /\ Uploaded'
  BY <1>1 DEF AloneInv, OwnTarget, Uploaded
<1>3. ASSUME ~Faults, Alone' PROVE Unhindered' /\ Tidy'
  <2>1. Unhindered /\ Tidy /\ Alone
    BY <1>1, <1>3, AloneBefore DEF AloneInv, Handle
  <2>2. PICK f \in work[r] : rows' = rows \ {f} /\ (f \in rows => UNCHANGED pc /\ work' = [work EXCEPT ![r] = @ \ {f}])
    BY <1>3 DEF DropRow, DroppedIt, Outcomes
  <2>3. /\ f \in rows /\ f \in list[r] /\ postOf[f] = target[r] /\ postOf[f] # None
        /\ UNCHANGED pc /\ work'[r] = work[r] \ {f}
    BY <1>1, <2>1, <2>2 DEF Unhindered, Loops, Known, WasLinked, AloneInv, OwnTarget, TypeOK
  <2>4. ASSUME NEW q \in Requests \ {r} PROVE Free(q)'
    <3>1. Free(q) /\ target[q] # target[r]
      BY <2>1, <2>3, <2>4 DEF Unhindered, Free, Alone
    <3>2. f \notin list[q]
      BY <2>3, <3>1 DEF AloneInv, OwnTarget
    <3>3. pc[q] = "rows" => f \notin work[q]
      BY <1>1, <3>2 DEF Loops
    <3> QED
      BY <1>1, <2>2, <2>3, <3>1, <3>2, <3>3 DEF Free, Live, RowsOf
  <2>5. Free(r)'
    BY <1>1, <2>1, <2>2, <2>3 DEF Unhindered, Free, Live, RowsOf
  <2>6. \A g, q : Holds(q, g) => Holds(q, g)'
    BY <1>1, <2>3 DEF Holds
  <2>7. Holds(r, f)
    BY <1>1, <2>3 DEF Holds
  <2>8. Tidy'
    BY <1>1, <2>1, <2>2, <2>6, <2>7 DEF Tidy
  <2> QED
    BY <2>4, <2>5, <2>8 DEF Unhindered, Free
<1> QED
  BY <1>2, <1>3 DEF AloneInv

(* A delete that is alone has dropped every row before the cascade. *)
LEMMA DeletePostAlone ==
  ASSUME NEW r \in Requests, IInv, AloneInv, DeletePost(r) PROVE AloneInv'
<1>1. /\ TypeOK /\ pc[r] = "rows" /\ kind[r] = "delete" /\ work[r] = {} /\ target[r] \in Posts
      /\ UNCHANGED <<postOf, objects, kind, target, cur, mine, list>>
      /\ pc'[r] \in {"objects", "500"}
      /\ \A q \in Requests \ {r} : pc'[q] = pc[q] /\ work'[q] = work[q]
  BY DEF IInv, TypeOK, Targeted, DeletePost, Goto, form
<1>2. OwnTarget' /\ Uploaded'
  BY <1>1 DEF AloneInv, OwnTarget, Uploaded
<1>3. ASSUME ~Faults, Alone' PROVE Unhindered' /\ Tidy'
  <2>1. Unhindered /\ Tidy /\ Alone
    BY <1>1, <1>3, AloneBefore DEF AloneInv, Handle
  <2>2. Live(target[r]) /\ RowsOf(target[r]) = {}
    BY <1>1, <2>1 DEF Unhindered
  <2>3. rows' = rows /\ post' = [post EXCEPT ![target[r]] = "deleted"] /\ pc'[r] = "objects"
    BY <1>1, <1>3, <2>2 DEF DeletePost, Cascaded, Outcomes, Goto, TypeOK
  <2>4. ASSUME NEW q \in Requests \ {r} PROVE Free(q)'
    <3>1. Free(q) /\ target[q] # target[r]
      BY <1>1, <2>1, <2>4, PostFilesAssumption DEF Unhindered, Free, Alone
    <3>2. Live(target[q]) /\ target[q] \in Posts => Live(target[q])'
      BY <1>1, <2>3, <3>1 DEF Live, TypeOK
    <3>3. pc[q] \in {"content", "list", "upload", "link", "rows"} /\ kind[q] # "upload" => target[q] \in Posts
      BY DEF IInv, Targeted, OnItsWay, StepsOf, Active
    <3> QED
      BY <1>1, <2>3, <3>1, <3>2, <3>3 DEF Free, RowsOf
  <2>5. Free(r)'
    BY <2>3 DEF Free
  <2>6. \A g : \A q \in Requests : Holds(q, g) => Holds(q, g)'
    BY <1>1, <2>3 DEF Holds
  <2>7. Tidy'
    BY <1>1, <2>1, <2>3, <2>6 DEF Tidy
  <2> QED
    BY <2>4, <2>5, <2>7 DEF Unhindered, Free
<1> QED
  BY <1>2, <1>3 DEF AloneInv

(* An object that is erased was linked once: no upload's. *)
LEMMA EraseAlone ==
  ASSUME NEW r \in Requests, IInv, AloneInv, EraseObject(r) \/ CleanUp(r) PROVE AloneInv'
<1>1. /\ TypeOK /\ Loops /\ Known /\ pc[r] \in {"objects", "cleanup"}
      /\ UNCHANGED <<db, kind, target, cur, mine, list>>
      /\ pc'[r] \in {"objects", "cleanup", "500"}
      /\ \A q \in Requests \ {r} : pc'[q] = pc[q] /\ work'[q] = work[q]
  BY DEF IInv, TypeOK, EraseObject, CleanUp, Goto, form
<1>2. PICK f \in work[r] : objects' = objects \/ objects' = objects \ {f}
  BY DEF EraseObject, CleanUp
<1>3. postOf[f] # None
  BY <1>1, <1>2 DEF Loops, Known, WasLinked
<1>4. OwnTarget' /\ Uploaded'
  BY <1>1, <1>2, <1>3 DEF AloneInv, OwnTarget, Uploaded, db
<1>5. ASSUME ~Faults, Alone' PROVE Unhindered' /\ Tidy'
  <2>1. Unhindered /\ Tidy
    BY <1>1, <1>5, AloneBefore DEF AloneInv, Handle
  <2>2. pc[r] = "objects" /\ UNCHANGED pc
    BY <1>1, <1>5, <2>1 DEF Unhindered, EraseObject, CleanUp, Outcomes
  <2>3. \A q \in Requests : Free(q)'
    BY <1>1, <2>1, <2>2 DEF Unhindered, Free, Live, RowsOf, db
  <2>4. \A g, q : Holds(q, g) => Holds(q, g)'
    BY <1>1, <2>2 DEF Holds
  <2>5. Tidy'
    BY <1>1, <1>2, <2>1, <2>4 DEF Tidy, db
  <2> QED
    BY <2>3, <2>5 DEF Unhindered, Free
<1> QED
  BY <1>4, <1>5 DEF AloneInv

(* What a failure ends needs no argument: nothing is promised then. *)
LEMMA FailedAlone ==
  ASSUME IInv, AloneInv, Crash \/ \E r \in Requests : CleanedUp(r) PROVE AloneInv'
<1>1. /\ TypeOK /\ UNCHANGED <<db, objects, form, target, cur, mine, list, work>>
      /\ \A q \in Requests : pc'[q] = pc[q] \/ (pc'[q] \in {"500", "lost"} /\ pc[q] # "idle")
  BY DEF IInv, TypeOK, Crash, CleanedUp, Goto, Active
<1>2. OwnTarget' /\ Uploaded'
  BY <1>1 DEF AloneInv, OwnTarget, Uploaded, db, form
<1>3. ASSUME ~Faults, Alone' PROVE FALSE
  <2>1. PICK r \in Requests : CleanedUp(r)
    BY <1>3 DEF Crash
  <2>2. Alone
    BY <1>1, <1>3, <2>1, AloneBefore DEF AloneInv, Handle
  <2> QED
    BY <1>3, <2>1, <2>2 DEF AloneInv, Unhindered, CleanedUp
<1> QED
  BY <1>2, <1>3 DEF AloneInv

LEMMA InitAlone == Init => AloneInv
<1> SUFFICES ASSUME Init PROVE AloneInv
  OBVIOUS
<1>1. OwnTarget /\ Uploaded
  BY DEF Init, OwnTarget, Uploaded
<1>2. Unhindered /\ Tidy
  BY DEF Init, Unhindered, Tidy
<1> QED
  BY <1>1, <1>2 DEF AloneInv

LEMMA NextAlone == IInv /\ AloneInv /\ [Next]_vars => AloneInv'
<1> SUFFICES ASSUME IInv, AloneInv, [Next]_vars PROVE AloneInv'
  OBVIOUS
<1>1. ASSUME NEW r \in Requests, Start(r) \/ Handle(r) PROVE AloneInv'
  BY <1>1, StartAlone, MoveAlone, InsertPostAlone, SaveToR2Alone, LinkFileAlone, DropRowAlone,
     DeletePostAlone, EraseAlone, FailedAlone DEF Handle
<1>2. CASE Crash
  BY <1>2, FailedAlone
<1>3. CASE UNCHANGED vars
  BY <1>3 DEF vars, db, form, AloneInv, OwnTarget, Uploaded, Alone, Unhindered, Tidy, Holds, Live, RowsOf
<1> QED
  BY <1>1, <1>2, <1>3 DEF Next, Quiet

LEMMA AloneLeaksNothing == IInv /\ AloneInv => NoLeakAlone
<1> SUFFICES ASSUME IInv, AloneInv, ~Faults, \A r \in Requests : pc[r] \notin Active, Alone
             PROVE  objects = rows \cup {cur[r] : r \in {q \in Requests : pc[q] = "200" /\ kind[q] = "upload"}}
  BY DEF NoLeakAlone, Alone
<1> DEFINE U == {q \in Requests : pc[q] = "200" /\ kind[q] = "upload"}
<1>1. Unhindered /\ Tidy /\ Uploaded
  BY DEF AloneInv
<1>2. ASSUME NEW f \in objects \ rows PROVE \E r \in U : f = cur[r]
  BY <1>1, <1>2 DEF Tidy, Holds, Active
<1>3. ASSUME NEW f \in rows PROVE f \in objects
  BY <1>1, <1>3 DEF IInv, RowsBacked, Unhindered
<1>4. ASSUME NEW r \in U PROVE cur[r] \in objects
  BY <1>1 DEF Uploaded
<1> QED
  BY <1>2, <1>3, <1>4

(* A leak takes a fault or two requests on one post: one createPost,         *)
(* updatePost or deletePost to a post, however many there are on others,     *)
(* leaves no object without a row (posts.go:219-341, 384-412).  Uploads do,  *)
(* each its own, as uploadPostFiles makes no row (posts.go:503-535).         *)
THEOREM AloneNoLeak == Spec => []NoLeakAlone
BY InitAlone, NextAlone, AloneLeaksNothing, Invariance, PTL DEF Spec
=============================================================================
