------------------------------ MODULE Slicing -------------------------------
(***************************************************************************)
(* Marking the nodes of a slice: class WalkAndMark and Slicer::mark of     *)
(* include/dg/Slicing.h on top of the walk of include/dg/legacy/           *)
(* NodesWalk.h.  One step processes one node of the walk's queue.          *)
(***************************************************************************)
EXTENDS DependenceGraph

VARIABLES
  todo,         \* criteria mark has still to be called for
  dir,          \* the direction of the walk, "none" between walks
  queue,        \* nodes enqueued and not processed
  walked,       \* nodes with lastwalkid of this walk
  slice,        \* nodes with the slice id
  sliceB,       \* blocks with the slice id
  markedBlocks  \* blocks marked in a forward walk

markVars == <<todo, dir, queue, walked, slice, sliceB, markedBlocks>>

From(E, n) == {e[2] : e \in {d \in E : d[1] = n}}
To(E, n) == {e[1] : e \in {d \in E : d[2] = n}}

(* The entry node of the node's graph, which markSlice enqueues.           *)
EntryFor(n) == {EntryNode(f) : f \in {GetDG(n)} \ {0}}

(* What a backward walk enqueues for node n.                               *)
Back(n) ==
  To(dg.cd, n) \cup To(dg.dd, n) \cup To(dg.use, n)
  \cup From(dg.id, n) \cup To(dg.id, n) \cup EntryFor(n)
  \cup {LastNode(dg, b) : b \in To(dg.bcd, GetBBlock(n))}

(* What a forward walk enqueues: control dependencies only of nodes that   *)
(* are in a block, those of blocks only for the last node.                 *)
Forth(n) ==
  From(dg.dd, n) \cup From(dg.use, n) \cup From(dg.id, n) \cup
  IF GetBBlock(n) = <<>> THEN {}
  ELSE From(dg.cd, n) \cup
       IF n = LastNode(dg, GetBBlock(n))
       THEN UNION {NodesOf(dg, b) : b \in From(dg.bcd, GetBBlock(n))}
       ELSE {}

Enqueued(n) == IF dir = "forward" THEN Forth(n) ELSE Back(n)

InitWalks ==
  /\ dir = "none" /\ queue = {} /\ walked = {}
  /\ slice = {} /\ sliceB = {} /\ markedBlocks = {}

StartWalk(d, N) ==
  /\ dir' = d
  /\ queue' = N
  /\ walked' = N

(* mark(start): every criterion has walks of its own.                      *)
StartMark(c) ==
  /\ dir = "none" /\ c \in todo
  /\ todo' = todo \ {c}
  /\ StartWalk(IF opts.forward THEN "forward" ELSE "backward", {c})
  /\ markedBlocks' = {}
  /\ UNCHANGED <<slice, sliceB>>

BlockOf(n) == {GetBBlock(n)} \ {<<>>}

(* One round of walk: markSlice for a node, then its edges.                *)
MarkNode(n) ==
  /\ dir # "none" /\ n \in queue
  /\ slice' = slice \cup {n}
  /\ sliceB' = sliceB \cup BlockOf(n)
  /\ markedBlocks' = IF dir = "forward" THEN markedBlocks \cup BlockOf(n) ELSE markedBlocks
  /\ queue' = (queue \ {n}) \cup (Enqueued(n) \ walked)
  /\ walked' = walked \cup Enqueued(n)
  /\ UNCHANGED <<todo, dir>>

(* The marked nodes of marked blocks.                                      *)
InSlice == {n \in slice : GetBBlock(n) \in markedBlocks}

(* Mutant: a forward slice is not made executable.                         *)
FinishWalkForwardOnly ==
  /\ dir # "none" /\ queue = {}
  /\ dir' = "none"
  /\ UNCHANGED <<todo, queue, walked, slice, sliceB, markedBlocks>>

(* The end of a walk; a forward slice is made executable by a backward     *)
(* walk from what was marked.                                              *)
FinishWalk ==
  /\ dir # "none" /\ queue = {}
  /\ IF dir = "forward" /\ InSlice # {}
     THEN StartWalk("backward", InSlice)
     ELSE dir' = "none" /\ UNCHANGED <<queue, walked>>
  /\ UNCHANGED <<todo, slice, sliceB, markedBlocks>>

MarkNext ==
  /\ \/ \E c \in todo : StartMark(c)
     \/ \E n \in queue : MarkNode(n)
     \/ FinishWalk
  /\ UNCHANGED <<opts, dg>>

(* Marking alone, on any graph and for any criteria.                       *)
MarkInit ==
  /\ opts.forward \in BOOLEAN
  /\ InitWalks

MarkSpec == MarkInit /\ [][MarkNext]_<<opts, dg, markVars>>

Marked == todo = {} /\ dir = "none"

-----------------------------------------------------------------------------
(* What a slice may leave out: entry, global and no-return nodes carry no  *)
(* instruction, and a forward walk does not look behind them.              *)
Carried(n) == ~opts.forward \/ GetBBlock(n) # <<>>

(* SliceClosed: when all criteria are marked, whatever a node of the slice *)
(* depends on is in the slice, whichever walk marked the node.             *)
SliceClosed ==
  dir = "none" => \A n \in slice : Carried(n) => Back(n) \subseteq slice

(* The part of SliceClosed that holds throughout: what a marked node       *)
(* depends on is marked or waiting, or the node itself will be walked from *)
(* again: it is in the queue, or in a block the backward walk starts from. *)
MarkInv ==
  /\ dir \in {"none", "forward", "backward"}
  /\ dir = "none" => queue = {}
  /\ dir # "none" => walked \subseteq slice \cup queue
  /\ dir = "forward" => opts.forward
  /\ \A n \in slice : Carried(n) =>
       \/ Back(n) \subseteq slice \cup queue
       \/ dir = "backward" /\ n \in queue
       \/ dir = "forward" /\ n \in InSlice

=============================================================================
