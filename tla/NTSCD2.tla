------------------------------- MODULE NTSCD2 --------------------------------
(***************************************************************************)
(* class NTSCD2 (lib/ControlDependence/NTSCD.h): for every node, a         *)
(* backward wave from it, and then every predicate of the graph with a     *)
(* coloured and an uncoloured successor.                                   *)
(***************************************************************************)
EXTENDS BackwardWave

VARIABLES
  pc,         \* "target", "search" or "done"
  target,     \* the node compute(graph, target) is called for
  CD, revCD   \* the results

vars == <<waveVars, pc, target, CD, revCD>>

TypeOK ==
  /\ WaveTypeOK
  /\ pc \in {"target", "search", "done"}
  /\ target \in 1 .. N + 1
  /\ pc # "done" => target \in Node
  /\ CD \in [Node -> SUBSET Node]
  /\ revCD \in [Node -> SUBSET Node]

Init ==
  /\ succ \in Inputs
  /\ WaveInit
  /\ pc = "target"
  /\ target = 1
  /\ CD = [n \in Node |-> {}]
  /\ revCD = [n \in Node |-> {}]

StartTarget ==
  /\ pc = "target"
  /\ WaveStart({target})
  /\ pc' = "search"
  /\ UNCHANGED <<succ, target, CD, revCD>>

Pop ==
  /\ pc = "search"
  /\ queue # <<>>
  /\ WavePop
  /\ UNCHANGED <<succ, pc, target, CD, revCD>>

Split(p) == /\ IsPredicate(succ, p)
            /\ \E s \in succ[p] : s \in colored
            /\ \E s \in succ[p] : s \notin colored

(* The predicates with a coloured and an uncoloured successor; then the    *)
(* next node.                                                              *)
Collect ==
  /\ pc = "search"
  /\ queue = <<>>
  /\ CD' = [CD EXCEPT ![target] = {p \in Node : Split(p)}]
  /\ revCD' = [p \in Node |-> IF Split(p) THEN revCD[p] \cup {target}
                                          ELSE revCD[p]]
  /\ target' = target + 1
  /\ pc' = IF target = N THEN "done" ELSE "target"
  /\ UNCHANGED waveVars

Done == pc = "done" /\ UNCHANGED vars

Next == StartTarget \/ Pop \/ Collect \/ Done

Spec == Init /\ [][Next]_vars

(* One sequential loop, running until it returns.                          *)
FairSpec == Spec /\ WF_vars(Next)

-----------------------------------------------------------------------------
SearchEnded == pc = "search" /\ queue = <<>>

(* For a target that is popped once the recorded dependencies are exactly  *)
(* NTSCD, the dependence of a loop head on itself included.                *)
ComputesNTSCDUnlessReturns ==
  \A t \in Node : t < target /\ ~Returns(t) =>
    CD[t] = {p \in Node : NTSCDependent(succ, t, p)}

(* Both directions of the result stay each other's inverse.                *)
ResultsInverse == \A t, p \in Node : p \in CD[t] <=> t \in revCD[p]

(* The search empties its stack although counters wrap below zero.         *)
Termination == <>(pc = "done")

(* What doc/CDA.md promises of -cda ntscd2, "NTSCD (a different            *)
(* implementation)": no dependence that NTSCD has is missing.              *)
ComputesNTSCD ==
  \A t \in Node : t < target =>
    {p \in Node : NTSCDependent(succ, t, p)} \subseteq CD[t]

=============================================================================
