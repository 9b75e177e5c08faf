--------------------------------- MODULE DOD ---------------------------------
(***************************************************************************)
(* Decisive order dependence: classes AllMaxPath and DOD                   *)
(* (lib/ControlDependence/DOD.h) and DODNTSCD (DODNTSCD.h).  A backward    *)
(* wave per node finds, for every node, the nodes on all maximal paths     *)
(* from it.  Then, for every predicate p, the graph Ap of these nodes is   *)
(* built; it should be p and one cycle.  The nodes where the paths from    *)
(* p's two successors enter the cycle are blue and red, and DOD is read    *)
(* off their order on the cycle.                                           *)
(*                                                                         *)
(* The code leans on assertions; a failed one stops the program, which is  *)
(* pc = "aborted".                                                         *)
(***************************************************************************)
EXTENDS BackwardWave

VARIABLES
  withNTSCD,  \* class DODNTSCD rather than class DOD?
  pc,         \* "target", "search", "predicates", "done" or "aborted"
  target,     \* the node AllMaxPath::compute(graph, target) is called for
  allpaths,   \* AllMaxPath's data[n].colors
  todo,       \* the predicates that are still to be processed
  CD, revCD   \* the results

vars == <<waveVars, withNTSCD, pc, target, allpaths, todo, CD, revCD>>

TypeOK ==
  /\ WaveTypeOK
  /\ withNTSCD \in BOOLEAN
  /\ pc \in {"target", "search", "predicates", "done", "aborted"}
  /\ target \in 1 .. N + 1
  /\ pc \in {"target", "search"} => target \in Node
  /\ allpaths \in [Node -> SUBSET Node]
  /\ todo \in SUBSET Node
  /\ CD \in [Node -> SUBSET Node]
  /\ revCD \in [Node -> SUBSET Node]

Init ==
  /\ succ \in Inputs
  /\ WaveInit
  /\ withNTSCD \in BOOLEAN
  /\ pc = "target"
  /\ target = 1
  /\ allpaths = [n \in Node |-> {}]
  /\ todo = {p \in Node : IsPredicate(succ, p)}
  /\ CD = [n \in Node |-> {}]
  /\ revCD = [n \in Node |-> {}]

-----------------------------------------------------------------------------
(* AllMaxPath.                                                             *)
StartTarget ==
  /\ pc = "target"
  /\ WaveStart({target})
  /\ pc' = "search"
  /\ UNCHANGED <<succ, withNTSCD, target, allpaths, todo, CD, revCD>>

Pop ==
  /\ pc = "search"
  /\ queue # <<>>
  /\ WavePop
  /\ UNCHANGED <<succ, withNTSCD, pc, target, allpaths, todo, CD, revCD>>

(* The colours of the finished search stay in the nodes' bit vectors.      *)
EndTarget ==
  /\ pc = "search"
  /\ queue = <<>>
  /\ allpaths' = [n \in Node |-> IF n \in colored THEN allpaths[n] \cup {target}
                                                  ELSE allpaths[n]]
  /\ target' = target + 1
  /\ pc' = IF target = N THEN "predicates" ELSE "target"
  /\ UNCHANGED <<waveVars, withNTSCD, todo, CD, revCD>>

-----------------------------------------------------------------------------
(* createAp: the edges of Ap(p), whose nodes are M.                        *)
ApSucc(M) == [n \in Node |-> IF n \in M THEN FirstReachable(succ, M, succ[n]) ELSE {}]

(* createColoredAp: where the paths through the successor s of p enter M.  *)
ColorOf(M, s) == IF s \in M THEN {s} ELSE FirstReachable(succ, M, succ[s])

(* The early returns of createAp and createColoredAp.                      *)
NoDODPossible(p, blues, reds) ==
  LET M == allpaths[p] IN
  \/ Cardinality(M) < 3
  \/ Cardinality(ApSucc(M)[p]) < 2
  \/ blues \cap reds # {}

(* checkAp: one node has several successors, the others form one cycle,    *)
(* which the walk from the first of these successors goes round.           *)
Forks(A) == {n \in Node : Cardinality(A[n]) > 1}

CheckAp(M, A, fork, first) ==
  LET C == Visited(A, {}, {first}) IN
  /\ \A n \in M : n > fork => Cardinality(A[n]) = 1 /\ n \notin A[n]
  /\ fork \notin C
  /\ \A n \in C : Cardinality(A[n]) = 1
  /\ first \in Visited(A, {}, A[first])
  /\ Cardinality(C) = Cardinality(M) - 1

(* The cycle of length k from the node b on.                               *)
Cycle(A, b, k) ==
  LET c[i \in 1 .. k] == IF i = 1 THEN b ELSE CHOOSE n \in A[c[i - 1]] : TRUE
  IN  c

(* Mutant: a second run of reds is not looked for.                         *)
FindDODNoSecondRed(c, blues, reds) ==
  LET K  == Len(c)
      B  == {i \in 1 .. K : c[i] \in blues}
      R  == {i \in 1 .. K : c[i] \in reds}
      r1 == Min(R)
      b2 == Max({i \in B : i < r1})
      b3 == Min({i \in B : i > r1} \cup {K + 1})
      r2 == Max({i \in R : i < b3})
  IN  {c[i] : i \in (b2 .. r1 - 1) \cup (r2 .. b3 - 1)}

(* computeDOD(CAp, p): going round the cycle c, which begins with a blue   *)
(* node: b2 is the last blue before the first red, r1; r2 the last red     *)
(* before the next blue, b3; another red means there is no order to        *)
(* decide.  Otherwise the nodes from b2 up to r1 and from r2 up to b3      *)
(* depend on p.                                                            *)
FindDOD(c, blues, reds) ==
  LET K  == Len(c)
      B  == {i \in 1 .. K : c[i] \in blues}
      R  == {i \in 1 .. K : c[i] \in reds}
      r1 == Min(R)
      b2 == Max({i \in B : i < r1})
      b3 == Min({i \in B : i > r1} \cup {K + 1})
      r2 == Max({i \in R : i < b3})
  IN  IF \E i \in R : i > b3 THEN {}
      ELSE {c[i] : i \in (b2 .. r1 - 1) \cup (r2 .. b3 - 1)}

(* DODNTSCD::computeNTSCD: the nodes on all paths from one successor only. *)
NTSCDOf(b, r) ==
  IF withNTSCD THEN (allpaths[b] \ allpaths[r]) \cup (allpaths[r] \ allpaths[b])
               ELSE {}

Record(p, deps) ==
  /\ CD' = [n \in Node |-> IF n \in deps THEN CD[n] \cup {p} ELSE CD[n]]
  /\ revCD' = [revCD EXCEPT ![p] = @ \cup deps]
  /\ todo' = todo \ {p}
  /\ UNCHANGED <<waveVars, withNTSCD, pc, target, allpaths>>

Abort ==
  /\ pc' = "aborted"
  /\ UNCHANGED <<waveVars, withNTSCD, target, allpaths, todo, CD, revCD>>

(* computeDOD(p, graph, ...), and computeNTSCD(p, ...) after it, for a     *)
(* predicate with a blue and a red successor.                              *)
ComputeDOD(p, blue, red) ==
  LET M     == allpaths[p]
      A     == ApSucc(M)
      blues == ColorOf(M, blue)
      reds  == ColorOf(M, red)
      fork  == Min(Forks(A))
      b1    == Min(blues)
  IN
  \/ /\ NoDODPossible(p, blues, reds)
     /\ Record(p, NTSCDOf(blue, red))
  \/ /\ ~NoDODPossible(p, blues, reds)
     /\ \E first \in A[fork] :
          IF /\ CheckAp(M, A, fork, first)
             /\ blues # {}
             /\ b1 # fork
             /\ reds \ {fork} # {}
          THEN Record(p, FindDOD(Cycle(A, b1, Cardinality(M) - 1), blues, reds)
                           \cup NTSCDOf(blue, red))
          ELSE Abort

(* Predicates come in pointer order, successors in edge order.             *)
ProcessPredicate(p) ==
  /\ pc = "predicates"
  /\ p \in todo
  /\ IF Cardinality(succ[p]) = 2
     THEN \E blue \in succ[p] : \E red \in succ[p] \ {blue} :
            ComputeDOD(p, blue, red)
     ELSE Abort

Return ==
  /\ pc = "predicates"
  /\ todo = {}
  /\ pc' = "done"
  /\ UNCHANGED <<waveVars, withNTSCD, target, allpaths, todo, CD, revCD>>

Done == pc \in {"done", "aborted"} /\ UNCHANGED vars

Next ==
  \/ StartTarget \/ Pop \/ EndTarget
  \/ \E p \in Node : ProcessPredicate(p)
  \/ Return \/ Done

Spec == Init /\ [][Next]_vars

(* One sequential computation, running until it returns or is stopped.     *)
FairSpec == Spec /\ WF_vars(Next)

-----------------------------------------------------------------------------
Unavoidable(n) == {t \in Node : OnAllMaxPaths(succ, n, t)}

Expected(p) ==
  DODof(succ, p) \cup
  IF withNTSCD THEN {t \in Node : NTSCDependent(succ, t, p)} ELSE {}

(* The nodes the computation for p looks at.                               *)
ExactFor(p) == \A n \in {p} \cup succ[p] : allpaths[n] = Unavoidable(n)

(* Where AllMaxPath has found just the nodes on all maximal paths, the     *)
(* dependencies recorded for a predicate with two successors are exactly   *)
(* its DOD (and, for DODNTSCD, its NTSCD), whichever successor is blue.    *)
ComputesDODWhereExact ==
  pc \in {"predicates", "done"} =>
    \A p \in Node : /\ IsPredicate(succ, p) /\ p \notin todo /\ ExactFor(p)
                    => revCD[p] = Expected(p)

(* ... and no assertion fails for such a predicate: its Ap is p and a      *)
(* cycle, with a blue and a red node on it.                                *)
AbortsOnlyWhereInexact ==
  pc = "aborted" =>
    \E p \in todo : Cardinality(succ[p]) > 2 \/ ~ExactFor(p)

(* Both directions of the result stay each other's inverse.                *)
ResultsInverse == \A n, p \in Node : p \in CD[n] <=> n \in revCD[p]

(* The computation returns or is stopped by an assertion: neither the      *)
(* search nor a walk round a cycle goes on for ever.                       *)
Termination == <>(pc \in {"done", "aborted"})

=============================================================================
