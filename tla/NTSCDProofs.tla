----------------------------- MODULE NTSCDProofs -----------------------------
(***************************************************************************)
(* Two algorithms for non-termination sensitive control dependence, on     *)
(* every graph of every size.  The frontier algorithm of class NTSCD       *)
(* computes it.  Neither mode of class NTSCDRanganath ever puts a symbol   *)
(* where it does not belong, whatever the order in which nodes are         *)
(* processed and however often; where passes are repeated until nothing    *)
(* changes, no symbol is missing at the end, so that its result is exactly *)
(* NTSCD as well.                                                          *)
(***************************************************************************)
EXTENDS LLVMControlDependence, FiniteSetTheorems, TLAPS

-----------------------------------------------------------------------------
(* Class NTSCD.                                                            *)

(* The instance shares the notions of module CDGraph.                      *)
LEMMA SameNotions ==
  /\ Frontier!Node = Node
  /\ Frontier!Graph = Graph
  /\ \A G, n : Frontier!Preds(G, n) = Preds(G, n)
  /\ \A G, n : Frontier!IsPredicate(G, n) = IsPredicate(G, n)
  /\ \A G, n, t : Frontier!OnAllMaxPaths(G, n, t) = OnAllMaxPaths(G, n, t)
  /\ \A G, t, p : Frontier!NTSCDependent(G, t, p) = NTSCDependent(G, t, p)
BY DEF Frontier!Node, Node, Frontier!Graph, Graph, Frontier!Preds, Preds,
       Frontier!IsPredicate, IsPredicate, Frontier!OnAllMaxPaths,
       OnAllMaxPaths, Frontier!Avoids, Avoids, Frontier!NTSCDependent,
       NTSCDependent

USE SameNotions


(* Every node without the target's colour that has a coloured successor is *)
(* waiting somewhere: not yet visited in this pass, or in the next one's   *)
(* frontier.                                                               *)
FrontierCovers ==
  /\ pc = "pass" => \A n \in Node : \A s \in succ[n] :
       Frontier!Colored(s)
       /\ ~Frontier!Colored(n) => n \in pending \cup newFrontier
  /\ pc = "collect" => \A n \in Node : \A s \in succ[n] :
       Frontier!Colored(s) /\ ~Frontier!Colored(n) => n \in frontier

(* Only nodes with a successor, and never the target, are put into a       *)
(* frontier.                                                               *)
FrontierMembers ==
  Frontier!InSearch => \A n \in frontier \cup newFrontier :
    succ[n] # {} /\ n # target

(* A pass that has coloured nothing leaves behind only nodes with an       *)
(* uncoloured successor.                                                   *)
Stuck(A) == \A n \in A : \E s \in succ[n] : ~Frontier!Colored(s)

NoProgressStuck ==
  /\ pc = "pass" /\ ~progress => Stuck(newFrontier)
  /\ pc = "collect" => Stuck(frontier)

(* While a target is searched it is coloured; no other coloured node has   *)
(* an uncoloured successor; colours of targets still to come are unused.   *)
ColorDiscipline ==
  /\ Frontier!InSearch => Frontier!Colored(target)
  /\ Frontier!InSearch => \A n \in Node : Frontier!Colored(n) /\ n # target =>
       \A s \in succ[n] : Frontier!Colored(s)
  /\ pc = "target" => \A n \in Node : color[n] < target
  /\ Frontier!InSearch => \A n \in Node : color[n] <= target

(* Dependencies of targets that are still to come have not been touched.   *)
FutureUntouched ==
  pc # "done" => \A t \in Node : t >= target => CD[t] = {}

IInv ==
  /\ Frontier!TypeOK
  /\ Frontier!ColoringSound
  /\ FrontierCovers
  /\ FrontierMembers
  /\ NoProgressStuck
  /\ ColorDiscipline
  /\ FutureUntouched
  /\ Frontier!ComputesNTSCD
  /\ Frontier!ResultsInverse

-----------------------------------------------------------------------------
LEMMA InitIInv == Frontier!Init => IInv
<1> SUFFICES ASSUME Frontier!Init PROVE IInv
  OBVIOUS
<1> USE NAssumption DEF Frontier!Init, Node
<1>1. Frontier!TypeOK
  <2>1. succ \in Graph /\ color \in [Node -> 0 .. N]
    BY InputsAssumption
  <2>2. CD \in [Node -> SUBSET Node] /\ revCD \in [Node -> SUBSET Node]
    OBVIOUS
  <2>3. progress \in BOOLEAN
    OBVIOUS
  <2> QED
    BY <2>1, <2>2, <2>3 DEF Frontier!TypeOK
<1>2. Frontier!ColoringSound /\ FrontierCovers /\ FrontierMembers
      /\ NoProgressStuck
  BY DEF Frontier!ColoringSound, FrontierCovers, FrontierMembers,
         NoProgressStuck, Frontier!InSearch
<1>3. ColorDiscipline /\ FutureUntouched
  BY DEF ColorDiscipline, FutureUntouched, Frontier!InSearch, Frontier!Colored
<1>4. Frontier!ComputesNTSCD /\ Frontier!ResultsInverse
  BY DEF Frontier!ComputesNTSCD, Frontier!ResultsInverse
<1> QED
  BY <1>1, <1>2, <1>3, <1>4 DEF IInv

(* When the passes stop, the uncoloured nodes are themselves a set that    *)
(* avoids the target, so the colouring is exact.                           *)
LEMMA CollectExact == ASSUME IInv PROVE Frontier!ColoringExact
<1> SUFFICES ASSUME pc = "collect", NEW n \in Node, ~Frontier!Colored(n)
             PROVE  ~OnAllMaxPaths(succ, n, target)
  BY DEF IInv, Frontier!ColoringSound, Frontier!ColoringExact,
         Frontier!InSearch
<1> DEFINE U == {m \in Node : ~Frontier!Colored(m)}
<1>1. target \notin U
  BY DEF IInv, ColorDiscipline, Frontier!InSearch
<1>2. ASSUME NEW a \in U, succ[a] # {}
      PROVE  succ[a] \cap U # {}
  <2>1. succ[a] \subseteq Node
    BY DEF IInv, Frontier!TypeOK, Graph
  <2>2. CASE \A s \in succ[a] : ~Frontier!Colored(s)
    BY <1>2, <2>1, <2>2
  <2>3. CASE \E s \in succ[a] : Frontier!Colored(s)
    <3>1. a \in frontier
      BY <2>3 DEF IInv, FrontierCovers
    <3> QED
      BY <3>1, <2>1 DEF IInv, NoProgressStuck, Stuck
  <2> QED
    BY <2>2, <2>3
<1>3. Avoids(succ, U, target)
  BY <1>1, <1>2 DEF Avoids
<1> QED
  BY <1>3 DEF OnAllMaxPaths

(* The colour of a node is justified by those of its successors.           *)
LEMMA ColoringStep ==
  ASSUME NEW G \in Graph, NEW n \in Node, NEW t \in Node, G[n] # {},
         \A s \in G[n] : OnAllMaxPaths(G, s, t)
  PROVE  OnAllMaxPaths(G, n, t)
BY DEF OnAllMaxPaths, Avoids, Graph

LEMMA TargetOnAllMaxPaths ==
  ASSUME NEW G, NEW t \in Node PROVE OnAllMaxPaths(G, t, t)
BY DEF OnAllMaxPaths, Avoids

LEMMA StartTargetIInv == IInv /\ Frontier!StartTarget => IInv'
<1> SUFFICES ASSUME IInv, Frontier!StartTarget PROVE IInv'
  OBVIOUS
<1> USE NAssumption DEF Node
<1>0. /\ Frontier!TypeOK /\ target \in Node
      /\ \A n \in Node : color'[n] = target <=> n = target
  BY DEF IInv, Frontier!TypeOK, Frontier!StartTarget, ColorDiscipline,
         Frontier!Colored
<1>1. Frontier!TypeOK'
  <2>1. color' \in [Node -> 0 .. N] /\ frontier' \in SUBSET Node
    BY <1>0 DEF Frontier!StartTarget, Frontier!TypeOK, Preds
  <2>2. progress' \in BOOLEAN
    BY DEF Frontier!StartTarget
  <2> QED
    BY <1>0, <2>1, <2>2 DEF Frontier!StartTarget, Frontier!TypeOK
<1>2. Frontier!ColoringSound'
  BY <1>0, TargetOnAllMaxPaths
     DEF Frontier!ColoringSound, Frontier!StartTarget, Frontier!Colored
<1>3. FrontierCovers' /\ FrontierMembers'
  <2>1. /\ pc' = "pass" /\ succ' = succ /\ target' = target
        /\ pending' = frontier' /\ newFrontier' = {}
        /\ frontier' = {p \in Preds(succ, target) : color'[p] # target}
    BY DEF Frontier!StartTarget
  <2>2. \A p \in Node : succ[p] \subseteq Node
    BY <1>0 DEF Frontier!TypeOK, Graph
  <2>3. FrontierCovers'
    BY <1>0, <2>1, <2>2 DEF FrontierCovers, Frontier!Colored, Preds
  <2>4. FrontierMembers'
    BY <1>0, <2>1 DEF FrontierMembers, Preds
  <2> QED
    BY <2>3, <2>4
<1>4. NoProgressStuck' /\ ColorDiscipline'
  BY <1>0
     DEF IInv, NoProgressStuck, Stuck, ColorDiscipline, Frontier!StartTarget,
         Frontier!Colored, Frontier!InSearch, Frontier!TypeOK
<1>5. FutureUntouched' /\ Frontier!ComputesNTSCD' /\ Frontier!ResultsInverse'
  BY DEF IInv, FutureUntouched, Frontier!ComputesNTSCD,
         Frontier!ResultsInverse, Frontier!StartTarget
<1> QED
  BY <1>1, <1>2, <1>3, <1>4, <1>5 DEF IInv

LEMMA VisitIInv ==
  ASSUME NEW n \in Node PROVE IInv /\ Frontier!Visit(n) => IInv'
<1> SUFFICES ASSUME IInv, Frontier!Visit(n) PROVE IInv'
  OBVIOUS
<1> USE NAssumption DEF Node
<1>0. /\ Frontier!TypeOK /\ target \in Node /\ n \in frontier /\ pc = "pass"
      /\ succ[n] # {} /\ n # target /\ Frontier!InSearch /\ Frontier!InSearch'
      /\ succ[n] \subseteq Node
  BY DEF IInv, Frontier!TypeOK, Frontier!Visit, FrontierMembers,
         Frontier!InSearch, Graph
<1>1. FutureUntouched' /\ Frontier!ComputesNTSCD' /\ Frontier!ResultsInverse'
  BY DEF IInv, FutureUntouched, Frontier!ComputesNTSCD,
         Frontier!ResultsInverse, Frontier!Visit
<1>2. CASE Frontier!VisitColors(n)
  <2>0. \A m \in Node : Frontier!Colored(m)' <=> Frontier!Colored(m) \/ m = n
    BY <1>0, <1>2
       DEF Frontier!VisitColors, Frontier!Visit, Frontier!Colored,
           Frontier!TypeOK
  <2>1. Frontier!TypeOK'
    <3>1. color' \in [Node -> 0 .. N]
      BY <1>0, <1>2 DEF Frontier!VisitColors, Frontier!TypeOK
    <3>2. newFrontier' \in SUBSET Node
      BY <1>0, <1>2 DEF Frontier!VisitColors, Frontier!TypeOK, Preds
    <3>3. progress' \in BOOLEAN
      BY <1>2 DEF Frontier!VisitColors
    <3> QED
      BY <1>0, <3>1, <3>2, <3>3 DEF Frontier!Visit, Frontier!TypeOK
  <2>2. Frontier!ColoringSound'
    <3>1. OnAllMaxPaths(succ, n, target)
      BY <1>0, <1>2, ColoringStep
         DEF IInv, Frontier!ColoringSound, Frontier!VisitColors,
             Frontier!TypeOK
    <3> QED
      BY <3>1, <2>0, <1>0 DEF IInv, Frontier!ColoringSound, Frontier!Visit
  <2>3. FrontierCovers'
    <3> SUFFICES ASSUME NEW m \in Node, NEW s \in succ[m],
                        Frontier!Colored(s)', ~Frontier!Colored(m)'
                 PROVE  m \in pending' \cup newFrontier'
      BY <1>0 DEF FrontierCovers, Frontier!Visit
    <3>1. s \in Node
      BY <1>0 DEF Frontier!TypeOK, Graph
    <3>2. CASE s = n
      BY <3>2, <1>2
         DEF Frontier!VisitColors, Preds, Frontier!Colored, Frontier!Visit
    <3>3. CASE s # n
      <4>1. Frontier!Colored(s) /\ ~Frontier!Colored(m) /\ m # n
        BY <3>1, <3>3, <2>0
      <4> QED
        BY <4>1, <1>0, <1>2
           DEF IInv, FrontierCovers, Frontier!Visit, Frontier!VisitColors
    <3> QED
      BY <3>2, <3>3
  <2>4. FrontierMembers'
    BY <1>0, <1>2, <2>0
       DEF IInv, FrontierMembers, Frontier!VisitColors, Frontier!Visit, Preds,
           ColorDiscipline, Frontier!Colored
  <2>5. NoProgressStuck'
    BY <1>0, <1>2 DEF NoProgressStuck, Frontier!VisitColors, Frontier!Visit
  <2>6. ColorDiscipline'
    <3>1. \A m \in Node : color'[m] <= target
      BY <1>0, <1>2
         DEF IInv, ColorDiscipline, Frontier!VisitColors, Frontier!TypeOK
    <3>2. \A m \in Node : Frontier!Colored(m)' /\ m # target =>
            \A s \in succ[m] : Frontier!Colored(s)'
      BY <1>0, <1>2, <2>0
         DEF IInv, ColorDiscipline, Frontier!VisitColors, Frontier!TypeOK,
             Graph
    <3> QED
      BY <3>1, <3>2, <1>0, <2>0
         DEF IInv, ColorDiscipline, Frontier!Visit, Frontier!InSearch
  <2> QED
    BY <1>1, <2>1, <2>2, <2>3, <2>4, <2>5, <2>6 DEF IInv
<1>3. CASE Frontier!VisitRequeues(n)
  <2>0. \A m \in Node : Frontier!Colored(m)' <=> Frontier!Colored(m)
    BY <1>3 DEF Frontier!VisitRequeues, Frontier!Visit, Frontier!Colored
  <2>1. Frontier!TypeOK'
    BY <1>0, <1>3 DEF Frontier!VisitRequeues, Frontier!Visit, Frontier!TypeOK
  <2>2. Frontier!ColoringSound'
    BY <2>0, <1>0 DEF IInv, Frontier!ColoringSound, Frontier!Visit
  <2>3. FrontierCovers'
    BY <1>0, <1>3, <2>0
       DEF IInv, FrontierCovers, Frontier!VisitRequeues, Frontier!Visit,
           Frontier!TypeOK, Graph
  <2>4. FrontierMembers'
    BY <1>0, <1>3
       DEF IInv, FrontierMembers, Frontier!VisitRequeues, Frontier!Visit
  <2>5. NoProgressStuck'
    BY <1>0, <1>3
       DEF IInv, NoProgressStuck, Stuck, Frontier!VisitRequeues,
           Frontier!Visit, Frontier!Colored
  <2>6. ColorDiscipline'
    BY <1>0, <1>3
       DEF IInv, ColorDiscipline, Frontier!VisitRequeues, Frontier!Visit,
           Frontier!Colored
  <2> QED
    BY <1>1, <2>1, <2>2, <2>3, <2>4, <2>5, <2>6 DEF IInv
<1> QED
  BY <1>2, <1>3 DEF Frontier!Visit

LEMMA EndPassIInv == IInv /\ Frontier!EndPass => IInv'
<1> SUFFICES ASSUME IInv, Frontier!EndPass PROVE IInv'
  OBVIOUS
<1> USE DEF Frontier!EndPass, Frontier!Colored, Frontier!InSearch
<1>1. Frontier!TypeOK'
  <2>1. progress' \in BOOLEAN
    OBVIOUS
  <2> QED
    BY <2>1 DEF IInv, Frontier!TypeOK
<1>2. Frontier!ColoringSound' /\ ColorDiscipline'
  BY DEF IInv, Frontier!ColoringSound, ColorDiscipline
<1>3. FrontierCovers' /\ FrontierMembers'
  BY DEF IInv, FrontierCovers, FrontierMembers
<1>4. NoProgressStuck'
  BY DEF IInv, NoProgressStuck, Stuck
<1>5. FutureUntouched' /\ Frontier!ComputesNTSCD' /\ Frontier!ResultsInverse'
  BY DEF IInv, FutureUntouched, Frontier!ComputesNTSCD, Frontier!ResultsInverse
<1> QED
  BY <1>1, <1>2, <1>3, <1>4, <1>5 DEF IInv

LEMMA CollectIInv == IInv /\ Frontier!Collect => IInv'
<1> SUFFICES ASSUME IInv, Frontier!Collect PROVE IInv'
  OBVIOUS
<1> USE NAssumption DEF Node
<1>0. /\ Frontier!TypeOK /\ target \in Node /\ pc = "collect" /\ succ \in Graph
      /\ target \in Nat /\ Frontier!Dependencies \subseteq Node
      /\ ~Frontier!InSearch'
      /\ CD[target] = {}
  <2>1. Frontier!TypeOK /\ pc = "collect" /\ target \in Node
    BY DEF IInv, Frontier!TypeOK, Frontier!Collect
  <2>2. succ \in Graph /\ target \in Nat
    BY <2>1 DEF Frontier!TypeOK
  <2>5. Frontier!Dependencies \subseteq Node
    BY <2>1, Zenon DEF Frontier!TypeOK, Frontier!Dependencies
  <2>3. ~Frontier!InSearch'
    BY DEF Frontier!Collect, Frontier!InSearch
  <2>4. CD[target] = {}
    BY <2>1, <2>2 DEF IInv, FutureUntouched
  <2> QED
    BY <2>1, <2>2, <2>3, <2>4, <2>5
<1>1. Frontier!TypeOK'
  BY <1>0 DEF Frontier!TypeOK, Frontier!Collect, Graph
<1>2. Frontier!ColoringSound' /\ FrontierCovers' /\ FrontierMembers'
      /\ NoProgressStuck'
  BY <1>0
     DEF Frontier!ColoringSound, FrontierCovers, FrontierMembers,
         NoProgressStuck, Frontier!InSearch
<1>3. ColorDiscipline'
  <2>1. \A n \in Node : color[n] <= target /\ color[n] \in Nat
    BY <1>0 DEF IInv, ColorDiscipline, Frontier!InSearch, Frontier!TypeOK
  <2> QED
    BY <2>1, <1>0 DEF ColorDiscipline, Frontier!Collect
<1>4. FutureUntouched'
  BY <1>0 DEF IInv, FutureUntouched, Frontier!Collect, Frontier!TypeOK
<1>5. Frontier!ResultsInverse'
  BY <1>0 DEF IInv, Frontier!ResultsInverse, Frontier!Collect, Frontier!TypeOK
<1>6. Frontier!Dependencies =
        {p \in Node \ {target} : NTSCDependent(succ, target, p)}
  <2>1. \A n \in Node : Frontier!Colored(n) <=> OnAllMaxPaths(succ, n, target)
    BY <1>0, CollectExact DEF Frontier!ColoringExact
  <2>2. \A p \in Node : succ[p] \subseteq Node
    BY <1>0 DEF Graph
  <2>3. ASSUME NEW p \in Frontier!Dependencies
        PROVE  p # target /\ NTSCDependent(succ, target, p)
    BY <1>0, <2>1, <2>2
       DEF Frontier!Dependencies, NTSCDependent, IInv, FrontierMembers,
           Frontier!InSearch
  <2>4. ASSUME NEW p \in Node, p # target, NTSCDependent(succ, target, p)
        PROVE  p \in Frontier!Dependencies
    <3>1. PICK s1, s2 \in succ[p] : Frontier!Colored(s1)
          /\ ~Frontier!Colored(s2)
      BY <2>1, <2>2, <2>4 DEF NTSCDependent
    <3>2. ~Frontier!Colored(p)
      BY <3>1, <2>4, <1>0 DEF IInv, ColorDiscipline, Frontier!InSearch
    <3>3. p \in frontier
      BY <3>1, <3>2, <1>0 DEF IInv, FrontierCovers
    <3>4. s1 # s2
      BY <3>1
    <3> QED
      BY <3>1, <3>3, <3>4 DEF Frontier!Dependencies, IsPredicate
  <2> QED
    BY <2>3, <2>4, <1>0
<1>7. Frontier!ComputesNTSCD'
  <2> SUFFICES ASSUME NEW t \in Node, t < target'
               PROVE  CD'[t] = {p \in Node \ {t} : NTSCDependent(succ, t, p)}
    BY <1>0 DEF Frontier!ComputesNTSCD, Frontier!Collect
  <2>1. CASE t = target
    <3>1. CD'[t] = Frontier!Dependencies
      BY <2>1, <1>0 DEF Frontier!Collect, Frontier!TypeOK
    <3> QED
      BY <3>1, <1>6, <2>1
  <2>2. CASE t < target
    <3>1. CD'[t] = CD[t]
      BY <2>2, <1>0 DEF Frontier!Collect, Frontier!TypeOK
    <3> QED
      BY <3>1, <2>2 DEF IInv, Frontier!ComputesNTSCD
  <2> QED
    BY <2>1, <2>2, <1>0 DEF Frontier!Collect
<1> QED
  BY <1>1, <1>2, <1>3, <1>4, <1>5, <1>7 DEF IInv

(* A step that changes nothing preserves the invariant.                    *)
LEMMA StutterIInv == IInv /\ UNCHANGED Frontier!vars => IInv'
BY DEF Frontier!vars, IInv, Frontier!TypeOK, Frontier!ColoringSound,
       FrontierCovers, FrontierMembers,
       NoProgressStuck, Stuck, ColorDiscipline, FutureUntouched,
       Frontier!ComputesNTSCD,
       Frontier!ResultsInverse, Frontier!InSearch, Frontier!Colored

LEMMA NextIInv == ASSUME IInv, [Frontier!Next]_Frontier!vars PROVE IInv'
BY StartTargetIInv, VisitIInv, EndPassIInv, CollectIInv, StutterIInv
   DEF Frontier!Next, Frontier!Done

-----------------------------------------------------------------------------
(* The algorithm as LLVMControlDependence runs it.                         *)
RunInv == option = "ntscd" => IInv

LEMMA InitRunInv == Init => RunInv
BY InitIInv DEF Init, InitNTSCD, InitNTSCD2, InitRanganath, InitClosure, RunInv

LEMMA NextRunInv == ASSUME RunInv, [Next]_vars PROVE RunInv'
<1>1. CASE RunNTSCD
  BY <1>1, NextIInv DEF RunNTSCD, RunInv
<1>2. CASE RunNTSCD2 \/ RunRanganath \/ RunClosure
  BY <1>2 DEF RunNTSCD2, RunRanganath, RunClosure, RunInv
<1>3. CASE UNCHANGED vars
  <2>1. option' = option /\ UNCHANGED Frontier!vars
    BY <1>3 DEF vars, frontierVars, Frontier!vars
  <2> QED
    BY <2>1, NextIInv DEF RunInv
<1> QED
  BY <1>1, <1>2, <1>3 DEF Next

LEMMA Invariance == Spec => []RunInv
BY InitRunInv, NextRunInv, PTL DEF Spec

-----------------------------------------------------------------------------
(* The state of the algorithm is well typed throughout: frontier nodes and *)
(* colours stay within the graph's ids.                                    *)
THEOREM TypeCorrect == Spec => [](option = "ntscd" => Frontier!TypeOK)
<1>1. RunInv => (option = "ntscd" => Frontier!TypeOK)
  BY DEF RunInv, IInv
<1> QED
  BY <1>1, Invariance, PTL

(* When the passes for a target stop, exactly the nodes from which no      *)
(* maximal path avoids the target are coloured.                            *)
THEOREM ColoringCorrect == Spec => []ColoringExact
<1>1. RunInv => ColoringExact
  BY CollectExact DEF RunInv, ColoringExact
<1> QED
  BY <1>1, Invariance, PTL

(* Whenever a node has the current target's colour, no maximal path from   *)
(* it avoids the target, although colours of earlier targets are still in  *)
(* the table.                                                              *)
THEOREM ColoringNeverAhead ==
  Spec => [](option = "ntscd" => Frontier!ColoringSound)
<1>1. RunInv => (option = "ntscd" => Frontier!ColoringSound)
  BY DEF RunInv, IInv
<1> QED
  BY <1>1, Invariance, PTL

(* The dependencies that class NTSCD returns are non-termination sensitive *)
(* control dependence, for every graph and every order of visits.          *)
THEOREM NTSCDCorrect == Spec => []ComputesNTSCD
<1>1. RunInv => ComputesNTSCD
  BY DEF RunInv, IInv, ComputesNTSCD
<1> QED
  BY <1>1, Invariance, PTL

(* The two maps that class NTSCD returns are inverse to each other.        *)
THEOREM NTSCDInverse ==
  Spec => [](option = "ntscd" => Frontier!ResultsInverse)
<1>1. RunInv => (option = "ntscd" => Frontier!ResultsInverse)
  BY DEF RunInv, IInv
<1> QED
  BY <1>1, Invariance, PTL

-----------------------------------------------------------------------------
(* Class NTSCDRanganath.                                                   *)

(* The instance shares the notions of module CDGraph.                      *)
LEMMA SameNotionsRanganath ==
  /\ Ranganath!Node = Node
  /\ Ranganath!Graph = Graph
  /\ \A G, n : Ranganath!IsPredicate(G, n) = IsPredicate(G, n)
  /\ \A A : Ranganath!Cardinality(A) = Cardinality(A)
  /\ \A G, n, t : Ranganath!OnAllMaxPaths(G, n, t) = OnAllMaxPaths(G, n, t)
  /\ \A G, t, p : Ranganath!NTSCDependent(G, t, p) = NTSCDependent(G, t, p)
BY DEF Ranganath!Node, Node, Ranganath!Graph, Graph, Ranganath!IsPredicate,
       IsPredicate, Ranganath!Cardinality, Cardinality,
       Ranganath!OnAllMaxPaths, OnAllMaxPaths, Ranganath!Avoids, Avoids,
       Ranganath!NTSCDependent, NTSCDependent

USE SameNotionsRanganath

(* The symbols of S[n][p] are successors of p: with soundness itself all   *)
(* that the induction needs.                                               *)
SymbolsTyped ==
  /\ succ \in Graph
  /\ S \in [Node -> [Node -> SUBSET Node]]
  /\ \A n, p \in Node : S[n][p] \subseteq succ[p]

SymbolsInv == SymbolsTyped /\ Ranganath!SymbolsSound

-----------------------------------------------------------------------------
(* What lies on all maximal paths from every successor of n lies on all    *)
(* maximal paths that n lies on.                                           *)
LEMMA PathsThrough ==
  ASSUME NEW G \in Graph, NEW x \in Node, NEW n \in Node, NEW m \in Node,
         OnAllMaxPaths(G, x, n), G[n] # {},
         \A q \in G[n] : OnAllMaxPaths(G, q, m)
  PROVE  OnAllMaxPaths(G, x, m)
<1> SUFFICES ASSUME NEW A \in SUBSET Node, Avoids(G, A, m), x \in A
             PROVE  FALSE
  BY DEF OnAllMaxPaths
<1>1. CASE n \in A
  <2>1. PICK q \in G[n] : q \in A
    BY <1>1 DEF Avoids
  <2> QED
    BY <2>1 DEF OnAllMaxPaths
<1>2. CASE n \notin A
  <2>1. Avoids(G, A, n)
    BY <1>2 DEF Avoids
  <2> QED
    BY <2>1 DEF OnAllMaxPaths
<1> QED
  BY <1>1, <1>2

LEMMA NodeOnOwnPaths ==
  ASSUME NEW G, NEW n \in Node PROVE OnAllMaxPaths(G, n, n)
BY DEF OnAllMaxPaths, Avoids

(* The sets that count symbols are finite: as many symbols as successors   *)
(* means all of them.                                                      *)
LEMMA AllSymbols ==
  ASSUME SymbolsTyped, NEW m \in Node, NEW n \in Node,
         Cardinality(S[m][n]) = Cardinality(succ[n])
  PROVE  S[m][n] = succ[n]
<1>1. IsFiniteSet(Node)
  BY FS_Interval, NAssumption DEF Node
<1>2. succ[n] \subseteq Node /\ S[m][n] \subseteq succ[n]
  BY DEF SymbolsTyped, Graph
<1>3. IsFiniteSet(succ[n])
  BY <1>1, <1>2, FS_Subset
<1> QED
  BY <1>2, <1>3, FS_Subset

(* Whoever receives the symbols of S[n] lies on all paths from n's         *)
(* successors.                                                             *)
LEMMA ReceiversUnavoidable ==
  ASSUME SymbolsInv, NEW n \in Node, NEW m \in Ranganath!Receives(n)
  PROVE  /\ m \in Node
         /\ succ[n] # {}
         /\ \A q \in succ[n] : OnAllMaxPaths(succ, q, m)
<1>0. succ[n] \subseteq Node
  BY DEF SymbolsInv, SymbolsTyped, Graph
<1>1. CASE IsPredicate(succ, n)
  <2>1. m \in Node /\ S[m][n] = succ[n]
    BY <1>1, AllSymbols DEF Ranganath!Receives, SymbolsInv
  <2> QED
    BY <1>1, <2>1 DEF SymbolsInv, Ranganath!SymbolsSound, IsPredicate
<1>2. CASE ~IsPredicate(succ, n)
  <2>1. m \in succ[n]
    BY <1>2 DEF Ranganath!Receives
  <2>2. \A q \in succ[n] : q = m
    BY <1>2, <2>1 DEF IsPredicate
  <2> QED
    BY <1>0, <2>1, <2>2, NodeOnOwnPaths
<1> QED
  BY <1>1, <1>2

(* processNode keeps the symbols sound.                                    *)
LEMMA ProcessedSound ==
  ASSUME SymbolsInv, NEW n \in Node, S' = Ranganath!Processed(n), succ' = succ
  PROVE  SymbolsInv'
<1>1. SymbolsTyped'
  BY DEF SymbolsInv, SymbolsTyped, Ranganath!Processed
<1>2. ASSUME NEW m \in Node, NEW p \in Node, NEW x \in S'[m][p]
      PROVE  OnAllMaxPaths(succ, x, m)
  <2>1. CASE x \in S[m][p]
    BY <2>1 DEF SymbolsInv, Ranganath!SymbolsSound
  <2>2. CASE m \in Ranganath!Receives(n) /\ x \in S[n][p]
    <3>1. x \in Node /\ OnAllMaxPaths(succ, x, n)
      BY <2>2 DEF SymbolsInv, SymbolsTyped, Ranganath!SymbolsSound
    <3>2. succ \in Graph
      BY DEF SymbolsInv, SymbolsTyped
    <3> QED
      BY <2>2, <3>1, <3>2, ReceiversUnavoidable, PathsThrough
  <2> QED
    BY <2>1, <2>2 DEF Ranganath!Processed
<1> QED
  BY <1>1, <1>2 DEF SymbolsInv, Ranganath!SymbolsSound

-----------------------------------------------------------------------------
LEMMA InitSymbolsInv == Ranganath!Init => SymbolsInv
BY InputsAssumption DEF Ranganath!Init, SymbolsInv, SymbolsTyped,
   Ranganath!SymbolsSound

LEMMA InitPredicateSymbolsInv ==
  ASSUME SymbolsInv, NEW p \in Node, Ranganath!InitPredicate(p) PROVE SymbolsInv'
<1>1. \A n, q \in Node :
        S'[n][q] = IF q = p /\ n \in succ[p] THEN {n} ELSE S[n][q]
  BY DEF Ranganath!InitPredicate, SymbolsInv, SymbolsTyped
<1>2. SymbolsTyped'
  BY <1>1 DEF Ranganath!InitPredicate, SymbolsInv, SymbolsTyped
<1>3. Ranganath!SymbolsSound'
  BY <1>1, NodeOnOwnPaths DEF Ranganath!InitPredicate, SymbolsInv,
     Ranganath!SymbolsSound
<1> QED
  BY <1>2, <1>3 DEF SymbolsInv

LEMMA NextSymbolsInv == ASSUME SymbolsInv, [Ranganath!Next]_Ranganath!vars PROVE SymbolsInv'
<1>1. ASSUME NEW n \in Node,
             \/ Ranganath!InitPredicate(n)
             \/ Ranganath!PassNext(n)
             \/ Ranganath!BagPop(n)
      PROVE  SymbolsInv'
  BY <1>1, InitPredicateSymbolsInv, ProcessedSound DEF Ranganath!PassNext,
     Ranganath!BagPop
<1>2. CASE UNCHANGED <<succ, S>>
  BY <1>2 DEF SymbolsInv, SymbolsTyped, Ranganath!SymbolsSound
<1>3. CASE Ranganath!InitEnd \/ Ranganath!PassRepeat \/ Ranganath!PassEnd
           \/ Ranganath!BagEnd \/ Ranganath!Done \/ UNCHANGED Ranganath!vars
  BY <1>2, <1>3 DEF Ranganath!InitEnd, Ranganath!PassRepeat,
     Ranganath!PassEnd, Ranganath!BagEnd, Ranganath!Collect, Ranganath!Done,
     Ranganath!vars
<1> QED
  BY <1>1, <1>3 DEF Ranganath!Next

-----------------------------------------------------------------------------
(* The successors of the predicates that step (1) has visited have their   *)
(* own symbols.                                                            *)
OwnSymbols ==
  /\ \A p \in Ranganath!Predicates \ toInit : \A s \in succ[p] : s \in S[s][p]
  /\ pc # "init" => toInit = {}

(* processNode(n) would add nothing.                                       *)
Settled(n) == Ranganath!Processed(n) = S

(* Nothing has changed since the pass began: the nodes it has processed    *)
(* are settled.  The last pass leaves all of them so.                      *)
PassSettles ==
  /\ next \in Nat
  /\ changed \in BOOLEAN
  /\ doFixpoint \in BOOLEAN
  /\ pc = "init" => next = 1
  /\ pc = "pass" /\ ~changed => \A n \in Node : n < next => Settled(n)
  /\ pc = "done" /\ doFixpoint => \A n \in Node : Settled(n)
  /\ pc = "bag" => ~doFixpoint

(* The result is read off the symbols.                                     *)
Collected ==
  pc = "done" =>
    \A n \in Node : CD[n] = {p \in Node : Ranganath!Dependent(n, p)}

CompleteInv == SymbolsInv /\ OwnSymbols /\ PassSettles /\ Collected

(* Where everything is settled no symbol is missing: the nodes that have a *)
(* symbol which n lacks form a set that avoids n.                          *)
LEMMA SettledComplete ==
  ASSUME SymbolsInv, \A x \in Node : Settled(x),
         \A p \in Ranganath!Predicates : \A s \in succ[p] : s \in S[s][p],
         NEW n \in Node, NEW p \in Ranganath!Predicates, NEW s \in succ[p],
         OnAllMaxPaths(succ, s, n)
  PROVE  s \in S[n][p]
<1> SUFFICES ASSUME s \notin S[n][p] PROVE FALSE
  OBVIOUS
<1> DEFINE A == {x \in Node :
                  \E q \in Ranganath!Predicates : \E t \in succ[q] :
                  t \in S[x][q] /\ t \notin S[n][q]}
<1>0. /\ succ \in Graph /\ S \in [Node -> [Node -> SUBSET Node]]
      /\ p \in Node /\ s \in Node /\ s \in A /\ n \notin A
  BY DEF SymbolsInv, SymbolsTyped, Graph, Ranganath!Predicates
<1>1. ASSUME NEW x \in A, succ[x] # {} PROVE succ[x] \cap A # {}
  <2>0. x \in Node /\ succ[x] \subseteq Node
    BY <1>0 DEF Graph
  <2>1. PICK q \in Ranganath!Predicates :
          \E t \in succ[q] : t \in S[x][q] /\ t \notin S[n][q]
    OBVIOUS
  <2>2. PICK t \in succ[q] : t \in S[x][q] /\ t \notin S[n][q]
    BY <2>1
  <2>. q \in Node
    BY DEF Ranganath!Predicates
  <2>3. \A m \in Ranganath!Receives(x) \cap Node :
          \A r \in Ranganath!Copied(x) \cap Node :
          S[x][r] \subseteq S[m][r]
    <3> SUFFICES ASSUME NEW m \in Ranganath!Receives(x) \cap Node,
                        NEW r \in Ranganath!Copied(x) \cap Node
                 PROVE  S[x][r] \subseteq S[m][r]
      OBVIOUS
    <3>1. Ranganath!Processed(x)[m][r] = S[m][r] \cup S[x][r]
      BY <2>0 DEF Ranganath!Processed
    <3>2. Ranganath!Processed(x)[m][r] = S[m][r]
      BY <2>0 DEF Settled
    <3> QED
      BY <3>1, <3>2
  <2>4. CASE ~IsPredicate(succ, x)
    <3>1. PICK y \in succ[x] : TRUE
      BY <1>1
    <3>2. q \in Ranganath!Copied(x) /\ y \in Node
          /\ (y = x \/ y \in Ranganath!Receives(x))
      BY <2>0, <2>4 DEF Ranganath!Copied, Ranganath!Receives
    <3>3. t \in S[y][q]
      BY <2>2, <2>3, <3>2
    <3> QED
      BY <2>2, <3>2, <3>3
  <2>5. CASE IsPredicate(succ, x)
    <3>1. \E y \in succ[x] : y \notin S[n][x]
      <4>1. CASE x = q
        BY <2>2, <4>1
      <4>2. CASE x # q /\ succ[x] \subseteq S[n][x]
        <5>1. S[n][x] = succ[x]
          BY <2>0, <4>2 DEF SymbolsInv, SymbolsTyped
        <5>2. n \in Ranganath!Receives(x) /\ q \in Ranganath!Copied(x)
          BY <2>5, <4>2, <5>1 DEF Ranganath!Receives, Ranganath!Copied
        <5> QED
          BY <2>2, <2>3, <5>2
      <4> QED
        BY <4>1, <4>2
    <3>2. PICK y \in succ[x] : y \notin S[n][x]
      BY <3>1
    <3>3. x \in Ranganath!Predicates /\ y \in S[y][x]
      BY <2>0, <2>5 DEF Ranganath!Predicates
    <3> QED
      BY <2>0, <3>2, <3>3
  <2> QED
    BY <2>4, <2>5
<1>2. Avoids(succ, A, n)
  BY <1>0, <1>1 DEF Avoids
<1> QED
  BY <1>0, <1>2 DEF OnAllMaxPaths

(* Counting the symbols of n is comparing them with the successors of p.   *)
LEMMA CompleteExact ==
  ASSUME CompleteInv, pc = "done", doFixpoint, NEW n \in Node, NEW p \in Node
  PROVE  Ranganath!Dependent(n, p) <=> NTSCDependent(succ, n, p)
<1>0. SymbolsTyped /\ Ranganath!SymbolsSound /\ succ[p] \subseteq Node
  BY DEF CompleteInv, SymbolsInv, SymbolsTyped, Graph
<1>1. ASSUME IsPredicate(succ, p)
      PROVE  S[n][p] = {s \in succ[p] : OnAllMaxPaths(succ, s, n)}
  <2>1. S[n][p] \subseteq {s \in succ[p] : OnAllMaxPaths(succ, s, n)}
    BY <1>0 DEF SymbolsTyped, Ranganath!SymbolsSound
  <2>2. p \in Ranganath!Predicates
    BY <1>1 DEF Ranganath!Predicates
  <2>3. /\ \A x \in Node : Settled(x)
        /\ \A q \in Ranganath!Predicates : \A s \in succ[q] : s \in S[s][q]
    BY DEF CompleteInv, PassSettles, OwnSymbols
  <2>4. \A s \in succ[p] : OnAllMaxPaths(succ, s, n) => s \in S[n][p]
    BY <2>2, <2>3, SettledComplete DEF CompleteInv
  <2> QED
    BY <2>1, <2>4
<1>2. S[n][p] \subseteq succ[p] /\ IsFiniteSet(succ[p])
  <2>1. S[n][p] \subseteq succ[p]
    BY <1>0, Zenon DEF SymbolsTyped
  <2>2. succ[p] \in SUBSET Node
    BY <1>0
  <2>3. IsFiniteSet(Node)
    BY FS_Interval, NAssumption DEF Node
  <2>4. IsFiniteSet(succ[p])
    BY <2>2, <2>3, FS_Subset, Zenon
  <2> QED
    BY <2>1, <2>4
<1>3. Cardinality(S[n][p]) < Cardinality(succ[p]) <=> S[n][p] # succ[p]
  <2>1. S[n][p] = succ[p] => Cardinality(S[n][p]) = Cardinality(succ[p])
    OBVIOUS
  <2>2. /\ Cardinality(S[n][p]) \in Nat /\ Cardinality(succ[p]) \in Nat
        /\ Cardinality(S[n][p]) <= Cardinality(succ[p])
        /\ Cardinality(S[n][p]) = Cardinality(succ[p]) => S[n][p] = succ[p]
    BY <1>2, FS_Subset, FS_CardinalityType
  <2> QED
    BY <2>1, <2>2
<1>4. NTSCDependent(succ, n, p) => IsPredicate(succ, p)
  BY DEF NTSCDependent, IsPredicate
<1>5. CASE IsPredicate(succ, p)
  BY <1>1, <1>2, <1>3, <1>5 DEF Ranganath!Dependent, NTSCDependent
<1> QED
  BY <1>4, <1>5 DEF Ranganath!Dependent

LEMMA InitCompleteInv == Ranganath!Init => CompleteInv
<1> SUFFICES ASSUME Ranganath!Init PROVE CompleteInv
  OBVIOUS
<1>1. SymbolsInv
  BY InitSymbolsInv
<1>2. OwnSymbols /\ Collected
  BY DEF Ranganath!Init, OwnSymbols, Collected
<1>3. PassSettles
  BY DEF Ranganath!Init, PassSettles
<1> QED
  BY <1>1, <1>2, <1>3 DEF CompleteInv

LEMMA InitPredicateCompleteInv ==
  ASSUME CompleteInv, NEW p \in Node, Ranganath!InitPredicate(p) PROVE CompleteInv'
<1>1. SymbolsInv'
  BY InitPredicateSymbolsInv DEF CompleteInv
<1>2. succ \in Graph /\ \A n, q \in Node :
        S'[n][q] = IF q = p /\ n \in succ[p] THEN {n} ELSE S[n][q]
  BY DEF Ranganath!InitPredicate, CompleteInv, SymbolsInv, SymbolsTyped
<1>3. /\ Ranganath!Predicates' = Ranganath!Predicates
      /\ Ranganath!Predicates \subseteq Node
      /\ succ' = succ /\ toInit' = toInit \ {p} /\ pc' = "init"
  BY DEF Ranganath!InitPredicate, Ranganath!Predicates
<1>4. ASSUME NEW q \in Ranganath!Predicates \ toInit', NEW s \in succ[q]
      PROVE  s \in S'[s][q]
  <2>1. q \in Node /\ s \in Node
    BY <1>2, <1>3 DEF Graph
  <2>2. q # p => s \in S[s][q]
    BY <1>3 DEF CompleteInv, OwnSymbols
  <2> QED
    BY <1>2, <2>1, <2>2
<1>5. OwnSymbols'
  BY <1>3, <1>4 DEF OwnSymbols
<1>6. PassSettles' /\ Collected'
  BY DEF CompleteInv, PassSettles, Collected, Ranganath!InitPredicate
<1> QED
  BY <1>1, <1>5, <1>6 DEF CompleteInv

(* No step after (1) takes a symbol away.                                  *)
LEMMA ProcessedKeeps ==
  ASSUME CompleteInv, NEW n \in Node, S' = Ranganath!Processed(n), succ' = succ,
         toInit' = toInit, pc # "init"
  PROVE  OwnSymbols'
<1>1. \A m, q \in Node : S[m][q] \subseteq S'[m][q]
  BY DEF Ranganath!Processed
<1>2. succ \in Graph /\ toInit = {}
  BY DEF CompleteInv, SymbolsInv, SymbolsTyped, OwnSymbols
<1> QED
  BY <1>1, <1>2 DEF CompleteInv, OwnSymbols, Ranganath!Predicates, Graph

LEMMA PassNextCompleteInv ==
  ASSUME CompleteInv, NEW n \in Node, Ranganath!PassNext(n) PROVE CompleteInv'
<1>1. SymbolsInv' /\ OwnSymbols' /\ Collected'
  BY ProcessedSound, ProcessedKeeps DEF CompleteInv, Ranganath!PassNext, Collected
<1>2. next' \in Nat /\ changed' \in BOOLEAN
  BY DEF CompleteInv, PassSettles, Ranganath!PassNext
<1>3. ASSUME ~changed', NEW m \in Node, m < next' PROVE Settled(m)'
  <2>1. S' = S /\ succ' = succ /\ ~changed /\ n = next
        /\ Ranganath!Processed(n) = S
    BY <1>3 DEF Ranganath!PassNext, CompleteInv, PassSettles
  <2>2. m < n \/ m = n
    BY <1>3, <2>1 DEF Ranganath!PassNext, Node
  <2>3. Settled(m)
    BY <2>1, <2>2 DEF CompleteInv, PassSettles, Ranganath!PassNext, Settled
  <2> QED
    BY <2>1, <2>3 DEF Settled, Ranganath!Processed, Ranganath!Receives,
       Ranganath!Copied, Ranganath!Predicates
<1>4. PassSettles'
  <2>1. pc' = "pass" /\ doFixpoint' \in BOOLEAN
    BY DEF CompleteInv, PassSettles, Ranganath!PassNext
  <2> QED
    BY <1>2, <1>3, <2>1 DEF PassSettles
<1> QED
  BY <1>1, <1>4 DEF CompleteInv

LEMMA BagPopCompleteInv ==
  ASSUME CompleteInv, NEW n \in Node, Ranganath!BagPop(n) PROVE CompleteInv'
<1>1. SymbolsInv' /\ OwnSymbols' /\ Collected'
  BY ProcessedSound, ProcessedKeeps DEF CompleteInv, Ranganath!BagPop, Collected
<1>2. PassSettles'
  BY DEF CompleteInv, PassSettles, Ranganath!BagPop
<1> QED
  BY <1>1, <1>2 DEF CompleteInv

(* The steps that leave the symbols alone.                                 *)
LEMMA OtherCompleteInv ==
  ASSUME CompleteInv, UNCHANGED <<succ, doFixpoint, S, toInit>>,
         \/ Ranganath!InitEnd \/ Ranganath!PassRepeat
         \/ Ranganath!PassEnd \/ Ranganath!BagEnd
         \/ UNCHANGED <<pc, next, changed, CD>>
  PROVE  CompleteInv'
<1>1. SymbolsInv'
  BY DEF CompleteInv, SymbolsInv, SymbolsTyped, Ranganath!SymbolsSound
<1>2. /\ Ranganath!Predicates' = Ranganath!Predicates
      /\ \A n \in Node : Settled(n)' <=> Settled(n)
      /\ \A n, p \in Node :
           Ranganath!Dependent(n, p)' <=> Ranganath!Dependent(n, p)
  BY DEF Ranganath!Predicates, Settled, Ranganath!Processed,
         Ranganath!Receives, Ranganath!Copied, Ranganath!Dependent
<1>3. OwnSymbols'
  BY <1>2 DEF CompleteInv, OwnSymbols, Ranganath!InitEnd, Ranganath!PassRepeat,
     Ranganath!PassEnd, Ranganath!BagEnd, Ranganath!Collect
<1>4. CASE Ranganath!InitEnd
  <2>1. PassSettles'
    BY <1>4, NAssumption DEF CompleteInv, PassSettles, Ranganath!InitEnd, Node
  <2>2. Collected'
    BY <1>4 DEF Collected, Ranganath!InitEnd
  <2> QED
    BY <1>1, <1>3, <2>1, <2>2 DEF CompleteInv
<1>5. CASE Ranganath!PassRepeat
  <2>1. next' = 1 /\ changed' = FALSE /\ pc = "pass" /\ UNCHANGED <<pc, CD>>
    BY <1>5 DEF Ranganath!PassRepeat
  <2>2. next' \in Nat /\ \A n \in Node : ~(n < next')
    BY <2>1, NAssumption DEF Node
  <2>3. PassSettles'
    BY <2>1, <2>2, Zenon DEF CompleteInv, PassSettles
  <2> QED
    BY <1>1, <1>3, <2>1, <2>3 DEF CompleteInv, Collected
<1>6. CASE Ranganath!PassEnd
  <2>1. PassSettles'
    BY <1>2, <1>6, NAssumption DEF CompleteInv, PassSettles, Ranganath!PassEnd,
       Ranganath!Collect, Node
  <2>2. Collected'
    BY <1>2, <1>6 DEF Collected, Ranganath!PassEnd, Ranganath!Collect
  <2> QED
    BY <1>1, <1>3, <2>1, <2>2 DEF CompleteInv
<1>7. CASE Ranganath!BagEnd
  <2>1. PassSettles'
    BY <1>7 DEF CompleteInv, PassSettles, Ranganath!BagEnd, Ranganath!Collect
  <2>2. Collected'
    BY <1>2, <1>7 DEF Collected, Ranganath!BagEnd, Ranganath!Collect
  <2> QED
    BY <1>1, <1>3, <2>1, <2>2 DEF CompleteInv
<1>8. CASE UNCHANGED <<pc, next, changed, CD>>
  BY <1>1, <1>2, <1>3, <1>8 DEF CompleteInv, PassSettles, Collected
<1> QED
  BY <1>4, <1>5, <1>6, <1>7, <1>8

LEMMA NextCompleteInv == ASSUME CompleteInv, [Ranganath!Next]_Ranganath!vars PROVE CompleteInv'
<1>1. ASSUME NEW n \in Node,
             \/ Ranganath!InitPredicate(n)
             \/ Ranganath!PassNext(n)
             \/ Ranganath!BagPop(n)
      PROVE  CompleteInv'
  BY <1>1, InitPredicateCompleteInv, PassNextCompleteInv, BagPopCompleteInv
<1>2. CASE Ranganath!InitEnd \/ Ranganath!PassRepeat \/ Ranganath!PassEnd
           \/ Ranganath!BagEnd \/ Ranganath!Done \/ UNCHANGED Ranganath!vars
  <2>1. UNCHANGED <<succ, doFixpoint, S, toInit>>
    BY <1>2 DEF Ranganath!InitEnd, Ranganath!PassRepeat, Ranganath!PassEnd,
       Ranganath!BagEnd, Ranganath!Collect, Ranganath!Done, Ranganath!vars
  <2>2. Ranganath!Done \/ UNCHANGED Ranganath!vars =>
          UNCHANGED <<pc, next, changed, CD>>
    BY DEF Ranganath!Done, Ranganath!vars
  <2> QED
    BY <1>2, <2>1, <2>2, OtherCompleteInv
<1> QED
  BY <1>1, <1>2 DEF Ranganath!Next

-----------------------------------------------------------------------------
(* The options choose the mode, and what runs is this algorithm only.      *)
RanganathRunInv ==
  /\ option \in {"ntscdRanganath", "ntscdRanganathOrig"} => CompleteInv
  /\ option = "ntscdRanganath" => doFixpoint

LEMMA InitRanganathRunInv == Init => RanganathRunInv
<1> SUFFICES ASSUME Init PROVE RanganathRunInv
  OBVIOUS
<1>1. CASE InitRanganath
  BY <1>1, InitCompleteInv DEF InitRanganath, RanganathRunInv, Ranganath!Init
<1>2. CASE InitNTSCD \/ InitNTSCD2 \/ InitClosure
  BY <1>2 DEF InitNTSCD, InitNTSCD2, InitClosure, RanganathRunInv
<1> QED
  BY <1>1, <1>2 DEF Init

LEMMA NextRanganathRunInv == ASSUME RanganathRunInv, [Next]_vars PROVE RanganathRunInv'
<1>1. CASE RunRanganath
  <2>1. CompleteInv'
    BY <1>1, NextCompleteInv DEF RunRanganath, RanganathRunInv
  <2>2. option' = option /\ doFixpoint' = doFixpoint
    BY <1>1 DEF RunRanganath, Ranganath!Next, Ranganath!InitPredicate,
                Ranganath!InitEnd, Ranganath!PassNext, Ranganath!PassRepeat,
                Ranganath!PassEnd, Ranganath!BagPop, Ranganath!BagEnd,
                Ranganath!Collect, Ranganath!Done, Ranganath!vars
  <2> QED
    BY <2>1, <2>2 DEF RanganathRunInv
<1>2. CASE RunNTSCD \/ RunNTSCD2 \/ RunClosure
  BY <1>2 DEF RunNTSCD, RunNTSCD2, RunClosure, RanganathRunInv
<1>3. CASE UNCHANGED vars
  <2>1. option' = option /\ doFixpoint' = doFixpoint
        /\ UNCHANGED Ranganath!vars
    BY <1>3 DEF vars, ranganathVars, Ranganath!vars
  <2> QED
    BY <2>1, NextCompleteInv DEF RanganathRunInv
<1> QED
  BY <1>1, <1>2, <1>3 DEF Next

(* processNode is sound: on every graph, in both modes and for every order *)
(* of the work bag, t(p,m) is in S[n][p] only if no maximal path from the  *)
(* successor m of p avoids n.                                              *)
THEOREM SymbolsCorrect ==
  Spec => [](option \in {"ntscdRanganath", "ntscdRanganathOrig"} =>
               Ranganath!SymbolsSound)
<1>1. RanganathRunInv => (option \in {"ntscdRanganath", "ntscdRanganathOrig"} =>
                   Ranganath!SymbolsSound)
  BY DEF RanganathRunInv, CompleteInv, SymbolsInv
<1> QED
  BY <1>1, InitRanganathRunInv, NextRanganathRunInv, PTL DEF Spec

(* Where the options ask for ntscd-ranganath, which repeats its passes     *)
(* until nothing changes, the result is exactly non-termination sensitive  *)
(* control dependence on every graph, the dependence of a loop head on     *)
(* itself included.                                                        *)
THEOREM RanganathCorrect == Spec => []RanganathComputesNTSCD
<1>1. RanganathRunInv => RanganathComputesNTSCD
  <2> SUFFICES ASSUME RanganathRunInv, option = "ntscdRanganath", pc = "done"
               PROVE  \A n, p \in Node :
                        p \in CD[n] <=> NTSCDependent(succ, n, p)
    BY DEF RanganathComputesNTSCD, Ranganath!RanganathComputesNTSCD
  <2>1. CompleteInv /\ doFixpoint
    BY DEF RanganathRunInv
  <2> QED
    BY <2>1, CompleteExact DEF CompleteInv, Collected
<1> QED
  BY <1>1, InitRanganathRunInv, NextRanganathRunInv, PTL DEF Spec

=============================================================================
