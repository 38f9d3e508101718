--------------------------- MODULE PostFilesInv ---------------------------
(***************************************************************************)
(* An inductive invariant of PostFiles: what the handlers rely on between  *)
(* two calls to a store, whatever the other requests do meanwhile.  The    *)
(* runs check it on small instances; PostFilesProofs proves it and the     *)
(* properties that follow from it.                                         *)
(***************************************************************************)
EXTENDS PostFiles

(* The steps each handler goes through. *)
StepsOf(k) ==
  IF k = "create" THEN {"insert", "upload", "link"}
  ELSE IF k = "update" THEN Active \ {"insert"}
  ELSE IF k = "delete" THEN {"gate", "list", "rows", "objects"}
  ELSE IF k = "upload" THEN {"upload"} ELSE {}

OnItsWay == \A r \in Requests : pc[r] \in Active => pc[r] \in StepsOf(kind[r])

(* updatePost and deletePost have a post; createPost once it is inserted. *)
Targeted ==
  \A r \in Requests :
    kind[r] \in {"update", "delete"} \/ (kind[r] = "create" /\ pc[r] \in {"upload", "link"})
      => target[r] \in Posts

(* A file about to be linked is stored, and no one else has it. *)
InHand ==
  \A r \in Requests : pc[r] = "link" =>
    /\ cur[r] \in objects /\ cur[r] \notin rows
    /\ postOf[cur[r]] = None
    /\ \A q \in Requests : pc[q] = "link" /\ cur[q] = cur[r] => q = r

(* What a request has listed or linked has, or had, a row. *)
WasLinked(S) == \A f \in S : postOf[f] # None
Known == \A r \in Requests : WasLinked(list[r] \cup mine[r])

(* A file's row never names an id the posts table has yet to give out. *)
Dated == \A f \in Files : postOf[f] # None => post[postOf[f]] # "unused"

(* Nothing in hand except while a file is stored and not linked; nothing     *)
(* linked or listed before the handler gets there.                           *)
EmptyHanded ==
  \A r \in Requests :
    /\ pc[r] \in {"idle", "201"} \cup (Active \ {"link", "cleanup"}) => cur[r] = None
    /\ pc[r] \in {"idle", "gate", "content", "insert", "list"} =>
         mine[r] = {} /\ list[r] = {}
    /\ pc[r] = "idle" => kind[r] = "none"

(* The files a request has linked are its own, and stay rows of its post     *)
(* unless a request that listed them, or a delete of the post, takes them.   *)
Linked ==
  /\ \A r \in Requests : \A f \in mine[r] :
       postOf[f] = target[r] /\ (f \in rows \/ ~Live(target[r]) \/ Taken(f))
  /\ \A q, r \in Requests : q # r => mine[q] \cap mine[r] = {}

(* The three loops over files. *)
Loops ==
  \A r \in Requests :
    /\ pc[r] = "rows" => work[r] \subseteq list[r] /\ (list[r] \ work[r]) \cap rows = {}
    /\ pc[r] = "objects" => work[r] \subseteq list[r] /\ list[r] \cap rows = {}
    /\ pc[r] = "cleanup" => work[r] \subseteq mine[r]
    /\ pc[r] = "objects" /\ (kind[r] = "delete" \/ ~Faults) =>
         (list[r] \ work[r]) \cap objects = {}

(* A delete that got past the posts table. *)
Deleting ==
  \A r \in Requests : kind[r] = "delete" /\ pc[r] \in {"objects", "204"} =>
    /\ target[r] \in Posts /\ post[target[r]] = "deleted"
    /\ pc[r] = "204" => list[r] \cap objects = {}

NoContentIsDelete == \A r \in Requests : pc[r] = "204" => kind[r] = "delete"

(* The rows a request has deleted itself. *)
Claimed(r) == IF pc[r] = "rows" THEN list[r] \ work[r]
              ELSE IF Dropped(r) THEN list[r] ELSE {}
ClaimsGone   == \A r \in Requests : Claimed(r) \cap rows = {}
ClaimedOnce  == \A q, r \in Requests : q # r => Claimed(q) \cap Claimed(r) = {}

IInv ==
  /\ TypeOK
  /\ OnItsWay /\ Targeted /\ InHand /\ Dated /\ EmptyHanded /\ Known /\ Linked /\ Loops
  /\ RowsOwned /\ RowsBacked
  /\ Deleting /\ NoContentIsDelete
  /\ ClaimsGone /\ ClaimedOnce
  /\ StraysExplained

-----------------------------------------------------------------------------
(* What NoLeakAlone needs besides IInv.  A request has no post before it     *)
(* starts or inserts one, and what it listed was linked to its post.         *)
OwnTarget ==
  \A r \in Requests :
    /\ pc[r] \in {"idle", "insert"} => target[r] = None
    /\ \A f \in list[r] : postOf[f] = target[r]

(* What an upload stored is there, and nobody links it. *)
Uploaded ==
  \A r \in Requests : kind[r] = "upload" /\ pc[r] = "200" =>
    /\ cur[r] \in objects /\ postOf[cur[r]] = None
    /\ \A q \in Requests : pc[q] = "link" => cur[q] # cur[r]

(* Without faults, and if no two requests named the same post, a handler     *)
(* that passed the gate is never hindered ...                                *)
Alone == \A q, r \in Requests : q # r /\ target[q] # None => target[q] # target[r]
Unhindered ==
  \A r \in Requests :
    /\ pc[r] \notin {"cleanup", "lost"}
    /\ pc[r] = "500" => mine[r] = {}
    /\ pc[r] \in {"content", "list", "upload", "link", "rows"} /\ kind[r] # "upload" =>
         Live(target[r])
    /\ pc[r] \in {"upload", "link"} => list[r] \subseteq rows
    /\ pc[r] = "rows" => work[r] \subseteq rows
    /\ pc[r] = "rows" /\ kind[r] = "delete" => RowsOf(target[r]) \subseteq work[r]

(* ... and an object without a row is in the hands of one that is at work,   *)
(* or an upload's.                                                           *)
Holds(r, f) ==
  \/ cur[r] = f /\ (pc[r] = "link" \/ (kind[r] = "upload" /\ pc[r] = "200"))
  \/ f \in list[r] /\ pc[r] \in {"rows", "objects"}
Tidy == \A f \in objects \ rows : \E r \in Requests : Holds(r, f)

AloneInv == OwnTarget /\ Uploaded /\ (~Faults /\ Alone => Unhindered /\ Tidy)
=============================================================================
