-------------------------------- MODULE NTSCD --------------------------------
(***************************************************************************)
(* class NTSCD (lib/ControlDependence/NTSCD.h): for every node of the      *)
(* graph, taken as the target, colour backwards the nodes from which every *)
(* maximal path meets the target, pass by pass over a frontier, and then   *)
(* read the dependencies of the target off the last frontier.              *)
(*                                                                         *)
(* The colours are never reset between targets: a node is coloured for the *)
(* current target when its colour is the target's id.  The frontier is a   *)
(* std::set of pointers, so a pass visits it in an arbitrary order.        *)
(***************************************************************************)
EXTENDS CDGraph

VARIABLES
  succ,        \* the graph
  pc,          \* "target", "pass", "collect" or "done"
  target,      \* the node the current call of compute() is about
  color,       \* data[n].color; 0 is the initial colour
  frontier,    \* the frontier this pass iterates over ...
  pending,     \* ... and the part of it not yet visited
  newFrontier, \* the frontier of the next pass
  progress,    \* has this pass coloured a node?
  CD, revCD    \* the results, a missing key being an empty set

vars == <<succ, pc, target, color, frontier, pending, newFrontier, progress,
          CD, revCD>>

Colored(n) == color[n] = target

UncoloredPreds(n) == {p \in Preds(succ, n) : ~Colored(p)}

TypeOK ==
  /\ succ \in Graph
  /\ pc \in {"target", "pass", "collect", "done"}
  /\ target \in 1 .. N + 1
  /\ pc # "done" => target \in Node
  /\ color \in [Node -> 0 .. N]
  /\ frontier \in SUBSET Node
  /\ pending \in SUBSET frontier
  /\ newFrontier \in SUBSET Node
  /\ progress \in BOOLEAN
  /\ CD \in [Node -> SUBSET Node]
  /\ revCD \in [Node -> SUBSET Node]

Init ==
  /\ succ \in Inputs
  /\ pc = "target"
  /\ target = 1
  /\ color = [n \in Node |-> 0]
  /\ frontier = {}
  /\ pending = {}
  /\ newFrontier = {}
  /\ progress = FALSE
  /\ CD = [n \in Node |-> {}]
  /\ revCD = [n \in Node |-> {}]

-----------------------------------------------------------------------------
(* compute(graph, target) begins: colour the target and put its uncoloured *)
(* predecessors into the first frontier.                                   *)
StartTarget ==
  /\ pc = "target"
  /\ color' = [color EXCEPT ![target] = target]
  /\ frontier' = {p \in Preds(succ, target) : color'[p] # target}
  /\ pending' = frontier'
  /\ newFrontier' = {}
  /\ progress' = FALSE
  /\ pc' = "pass"
  /\ UNCHANGED <<succ, target, CD, revCD>>

(* A frontier node all of whose successors are coloured is coloured, and   *)
(* its uncoloured predecessors are queued for the next pass ...            *)
VisitColors(n) ==
  /\ \A s \in succ[n] : Colored(s)
  /\ color' = [color EXCEPT ![n] = target]
  /\ newFrontier' = newFrontier \cup {p \in Preds(succ, n) : color'[p] # target}
  /\ progress' = TRUE

(* Mutant: a node that cannot be coloured yet is dropped.                  *)
VisitDrops(n) ==
  /\ \E s \in succ[n] : ~Colored(s)
  /\ UNCHANGED <<color, progress, newFrontier>>

(* ... any other one waits for the next pass.                              *)
VisitRequeues(n) ==
  /\ \E s \in succ[n] : ~Colored(s)
  /\ newFrontier' = newFrontier \cup {n}
  /\ UNCHANGED <<color, progress>>

Visit(n) ==
  /\ pc = "pass"
  /\ n \in pending
  /\ pending' = pending \ {n}
  /\ VisitColors(n) \/ VisitRequeues(n)
  /\ UNCHANGED <<succ, pc, target, frontier, CD, revCD>>

(* Mutant: a single pass.                                                  *)
EndPassOnce ==
  /\ pc = "pass"
  /\ pending = {}
  /\ frontier' = newFrontier
  /\ newFrontier' = {}
  /\ progress' = FALSE
  /\ pending' = {} /\ pc' = "collect"
  /\ UNCHANGED <<succ, target, color, CD, revCD>>

(* The end of a pass: new_frontier becomes the frontier, and another pass  *)
(* follows while the last one coloured something.                          *)
EndPass ==
  /\ pc = "pass"
  /\ pending = {}
  /\ frontier' = newFrontier
  /\ newFrontier' = {}
  /\ progress' = FALSE
  /\ IF progress
     THEN pending' = newFrontier /\ pc' = "pass"
     ELSE pending' = {} /\ pc' = "collect"
  /\ UNCHANGED <<succ, target, color, CD, revCD>>

(* The predicates of the last frontier with a coloured and an uncoloured   *)
(* successor are what the target depends on; then the next target.         *)
Dependencies ==
  {p \in frontier : /\ IsPredicate(succ, p)
                    /\ \E s \in succ[p] : Colored(s)
                    /\ \E s \in succ[p] : ~Colored(s)}

Collect ==
  /\ pc = "collect"
  /\ CD' = [CD EXCEPT ![target] = @ \cup Dependencies]
  /\ revCD' = [p \in Node |-> IF p \in Dependencies
                              THEN revCD[p] \cup {target} ELSE revCD[p]]
  /\ target' = target + 1
  /\ pc' = IF target = N THEN "done" ELSE "target"
  /\ UNCHANGED <<succ, color, frontier, pending, newFrontier, progress>>

(* compute(graph) has returned.                                            *)
Done == pc = "done" /\ UNCHANGED vars

Next == StartTarget \/ (\E n \in Node : Visit(n)) \/ EndPass \/ Collect \/ Done

Spec == Init /\ [][Next]_vars

(* The analysis is one sequential loop: it keeps running until it returns. *)
FairSpec == Spec /\ WF_vars(Next)

-----------------------------------------------------------------------------
InSearch == pc \in {"pass", "collect"}

(* Colouring never runs ahead of the paths: whenever a node has the        *)
(* current target's colour, no maximal path from it avoids the target,     *)
(* although colours left by earlier targets are still in the table.        *)
ColoringSound ==
  InSearch => \A n \in Node : Colored(n) => OnAllMaxPaths(succ, n, target)

(* When the passes stop nothing is left to colour: the coloured nodes are  *)
(* exactly those from which the target cannot be avoided.                  *)
ColoringExact ==
  pc = "collect" =>
    \A n \in Node : Colored(n) <=> OnAllMaxPaths(succ, n, target)

(* The dependencies recorded for every finished target are exactly its     *)
(* NTSCD predicates other than itself (the target is never in its own      *)
(* frontier, so the dependence of a loop head on itself is not recorded).  *)
ComputesNTSCD ==
  \A t \in Node : t < target =>
    CD[t] = {p \in Node \ {t} : NTSCDependent(succ, t, p)}

(* Both directions of the result stay each other's inverse.                *)
ResultsInverse == \A t, p \in Node : p \in CD[t] <=> t \in revCD[p]

(* compute(graph) returns on every graph, cyclic ones included.            *)
Termination == <>(pc = "done")

=============================================================================
