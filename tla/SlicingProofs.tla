--------------------------- MODULE SlicingProofs ----------------------------
(***************************************************************************)
(* The slices that marking computes are closed under dependence, whatever  *)
(* the dependence graph, the criteria and the order of the walks.          *)
(***************************************************************************)
EXTENDS Slicing, TLAPS

(* Between two calls of mark the invariant is closedness itself.           *)
LEMMA InvClosed == MarkInv => SliceClosed
  BY DEF MarkInv, SliceClosed

LEMMA InitInv == MarkInit => MarkInv
  BY DEF MarkInit, InitWalks, MarkInv

(* A new criterion: between walks nothing waits, so whatever is in the     *)
(* slice has what it depends on there.                                     *)
LEMMA StartMarkInv ==
  ASSUME MarkInv, NEW c \in todo, StartMark(c), UNCHANGED <<opts, dg>>
  PROVE  MarkInv'
<1> USE DEF MarkInv, StartMark, StartWalk
<1>1. dir' \in {"none", "forward", "backward"} /\ dir' # "none"
  OBVIOUS
<1>2. (dir' # "none" => walked' \subseteq slice' \cup queue')
        /\ (dir' = "forward" => opts'.forward)
  OBVIOUS
<1>3. ASSUME NEW n \in slice', Carried(n)'
      PROVE  Back(n)' \subseteq slice' \cup queue'
  <2>1. Carried(n) /\ Back(n)' = Back(n)
    BY <1>3 DEF Carried, Back
  <2> QED
    BY <2>1, <1>3
<1> QED
  BY <1>1, <1>2, <1>3

(* One round of a walk.  A node marked backward has all it depends on      *)
(* walked; one marked forward is in a marked block, where the backward     *)
(* walk is going to start.                                                 *)
LEMMA MarkNodeInv ==
  ASSUME MarkInv, NEW n \in queue, MarkNode(n), UNCHANGED <<opts, dg>>
  PROVE  MarkInv'
<1> USE DEF MarkNode
<1>1. /\ dir' \in {"forward", "backward"} /\ dir' = dir
      /\ dir' = "forward" => opts'.forward
  BY DEF MarkInv
<1>2. slice \cup queue \subseteq slice' \cup queue' /\ slice \subseteq slice'
  OBVIOUS
<1>3. walked' \subseteq slice' \cup queue'
  BY <1>2 DEF MarkInv
<1>4. ASSUME NEW m \in slice', Carried(m)'
      PROVE  \/ Back(m)' \subseteq slice' \cup queue'
             \/ dir' = "backward" /\ m \in queue'
             \/ dir' = "forward" /\ m \in InSlice'
  <2>1. Carried(m) /\ Back(m)' = Back(m)
    BY <1>4 DEF Carried, Back
  <2>2. CASE m = n /\ dir = "backward"
    <3>1. Back(n) \subseteq walked'
      BY <2>2 DEF Enqueued
    <3> QED
      BY <3>1, <2>1, <2>2, <1>3
  <2>3. CASE m = n /\ dir = "forward"
    <3>1. GetBBlock(n) # <<>>
      BY <2>1, <2>3 DEF Carried, MarkInv
    <3>2. GetBBlock(n) \in markedBlocks' /\ n \in slice'
      BY <3>1, <2>3 DEF BlockOf
    <3> QED
      BY <3>2, <2>3, <1>1 DEF InSlice
  <2>4. CASE m # n
    <3>1. m \in slice
      BY <2>4
    <3>2. CASE Back(m) \subseteq slice \cup queue
      BY <3>2, <2>1, <1>2
    <3>3. CASE dir = "backward" /\ m \in queue
      BY <3>3, <2>4, <1>1
    <3>4. CASE dir = "forward" /\ m \in InSlice
      BY <3>4, <1>1, <1>2 DEF InSlice
    <3> QED
      BY <3>1, <3>2, <3>3, <3>4, <2>1 DEF MarkInv
  <2> QED
    BY <2>2, <2>3, <2>4, <1>1
<1> QED
  BY <1>1, <1>3, <1>4 DEF MarkInv

(* The end of a walk: what a forward walk has left open is where the       *)
(* backward walk starts.                                                   *)
LEMMA FinishWalkInv ==
  ASSUME MarkInv, FinishWalk, UNCHANGED <<opts, dg>>
  PROVE  MarkInv'
<1> USE DEF FinishWalk, MarkInv
<1>1. ASSUME NEW n \in slice', Carried(n)'
      PROVE  n \in slice /\ Carried(n) /\ Back(n)' = Back(n)
  BY <1>1 DEF Carried, Back
<1>2. CASE dir = "forward" /\ InSlice # {}
  <2>1. dir' = "backward" /\ queue' = InSlice /\ walked' = InSlice
    BY <1>2 DEF StartWalk
  <2>2. InSlice \subseteq slice
    BY DEF InSlice
  <2>3. ASSUME NEW n \in slice', Carried(n)'
        PROVE  Back(n)' \subseteq slice' \cup queue' \/ n \in queue'
    BY <2>1, <2>3, <1>1
  <2> QED
    BY <2>1, <2>2, <2>3
<1>3. CASE ~(dir = "forward" /\ InSlice # {})
  <2>1. dir' = "none" /\ queue' = {} /\ queue = {}
    BY <1>3
  <2>2. ASSUME NEW n \in slice', Carried(n)'
        PROVE  Back(n)' \subseteq slice' \cup queue'
    BY <2>1, <2>2, <1>1, <1>3
  <2> QED
    BY <2>1, <2>2
<1> QED
  BY <1>2, <1>3

LEMMA NextInv == MarkInv /\ [MarkNext]_<<opts, dg, markVars>> => MarkInv'
<1> SUFFICES ASSUME MarkInv, [MarkNext]_<<opts, dg, markVars>> PROVE MarkInv'
  OBVIOUS
<1>1. ASSUME NEW c \in todo, StartMark(c), UNCHANGED <<opts, dg>> PROVE MarkInv'
  BY <1>1, StartMarkInv
<1>2. ASSUME NEW n \in queue, MarkNode(n), UNCHANGED <<opts, dg>> PROVE MarkInv'
  BY <1>2, MarkNodeInv
<1>3. ASSUME FinishWalk, UNCHANGED <<opts, dg>> PROVE MarkInv'
  BY <1>3, FinishWalkInv
<1>4. CASE UNCHANGED <<opts, dg, markVars>>
  BY <1>4 DEF MarkInv, markVars, Carried, Back, InSlice
<1> QED
  BY <1>1, <1>2, <1>3, <1>4 DEF MarkNext

(* SliceClosed for every graph: Slicer::mark, called for any criteria in   *)
(* any order, forward or backward, leaves no node of the slice without     *)
(* what it depends on.                                                     *)
THEOREM MarkingCloses == MarkSpec => []SliceClosed
<1>1. MarkSpec => []MarkInv
  BY InitInv, NextInv, PTL DEF MarkSpec
<1> QED
  BY <1>1, InvClosed, PTL

=============================================================================
