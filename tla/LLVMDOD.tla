------------------------------- MODULE LLVMDOD -------------------------------
(***************************************************************************)
(* llvmdg::DOD::computeOnDemand (lib/llvm/ControlDependence/DOD.h): the    *)
(* options choose between the algorithms for decisive order dependence.    *)
(* DODRanganath asks onallpaths about pairs of nodes; a call of it (module *)
(* OnAllPaths) is an option of its own here.                               *)
(***************************************************************************)
EXTENDS OnAllPaths

VARIABLES
  option,                  \* LLVMControlDependenceAnalysisOptions::algorithm
  pc, CD, revCD,           \* where the algorithm is, and its results
  colored, counter, queue, target, allpaths, withNTSCD, todo, \* DOD, DODNTSCD
  triple, color            \* DODRanganath, its stack and visited those of onallpaths

dodVars       == <<colored, counter, queue, target, allpaths, withNTSCD, todo>>
ranganathVars == <<triple, color>>
searchVars    == <<stack, visited>>
argumentVars  == <<from, goal, onstack, answer>>

vars == <<option, succ, pc, CD, revCD, dodVars, ranganathVars, searchVars,
          argumentVars>>

CONSTANTS
  DODInputs,        \* the graphs DOD and DODNTSCD are run on,
  RanganathInputs   \* DODRanganath is run on; onallpaths on those of Inputs

ASSUME DODInputsAssumption == DODInputs \cup RanganathInputs \subseteq Graph

Cycles    == INSTANCE DOD WITH Inputs <- DODInputs
Ranganath == INSTANCE DODRanganath WITH Inputs <- RanganathInputs

DODOptions == {"dod", "dodntscd"}

(* Locals of algorithms that are not run.                                  *)
None == "none"

NoDOD == /\ colored = None /\ counter = None /\ queue = None /\ target = None
         /\ allpaths = None /\ withNTSCD = None /\ todo = None
NoRanganath == triple = None /\ color = None
NoSearch == stack = None /\ visited = None
NoQuery == from = None /\ goal = None /\ onstack = None /\ answer = None

InitDOD == /\ Cycles!Init
           /\ option = IF withNTSCD THEN "dodntscd" ELSE "dod"
           /\ NoRanganath /\ NoSearch /\ NoQuery

InitRanganath == /\ option = "dodRanganath"
                 /\ Ranganath!Init
                 /\ NoDOD /\ NoQuery

InitQuery == /\ option = "onallpaths"
             /\ QueryInit
             /\ pc = None /\ CD = None /\ revCD = None
             /\ NoDOD /\ NoRanganath

Init == InitDOD \/ InitRanganath \/ InitQuery

RunDOD == /\ option \in DODOptions
          /\ Cycles!Next
          /\ UNCHANGED <<option, ranganathVars, searchVars, argumentVars>>

RunRanganath == /\ option = "dodRanganath"
                /\ Ranganath!Next
                /\ UNCHANGED <<option, dodVars, argumentVars>>

RunQuery == /\ option = "onallpaths"
            /\ QueryNext
            /\ UNCHANGED <<option, pc, CD, revCD, dodVars, ranganathVars>>

Next == RunDOD \/ RunRanganath \/ RunQuery

Spec == Init /\ [][Next]_vars

(* Each algorithm is one sequential computation that runs until it returns *)
(* or an assertion stops the program.                                      *)
FairSpec == Spec /\ WF_vars(Next)

-----------------------------------------------------------------------------
(* Where AllMaxPath has found just the nodes on all maximal paths, DOD and *)
(* DODNTSCD record exactly their relation for a predicate with two         *)
(* successors, whichever of them is blue, and no assertion fails for such  *)
(* a predicate.                                                            *)
ComputesDODWhereExact ==
  option \in DODOptions =>
    Cycles!ComputesDODWhereExact /\ Cycles!AbortsOnlyWhereInexact

(* DODRanganath records exactly DOD for predicates with two successors, in *)
(* whatever order its search takes them; others lose none of theirs.  What *)
(* it takes for the answers of onallpaths is what onallpaths answers.      *)
RanganathComputesDOD ==
  /\ option = "dodRanganath" => Ranganath!ComputesDOD /\ Ranganath!MissesNothing
  /\ answer \in {"yes", "no"} =>
       (answer = "yes" <=> from \notin Avoiders(succ, goal))

(* Every computation comes to an end: no search, and no walk round a       *)
(* cycle, goes on for ever.                                                *)
Termination == <>(pc \in {"done", "aborted"} \/ answer \in {"yes", "no"})

-----------------------------------------------------------------------------
(***************************************************************************)
(* Graphs for model checking.                                              *)
(***************************************************************************)
(* Graphs on the nodes 1..4; the others are unreachable and lead nowhere. *)
Core == 1 .. 4
Small == {[n \in Node |-> IF n \in Core THEN g[n] ELSE {}] :
            g \in [Core -> {A \in SUBSET Core : Cardinality(A) <= 2}]}

(* Node 1 is a branch or a switch and leads to all nodes of the core. *)
Rooted == {G \in UNION {{[g EXCEPT ![1] = A] : g \in Small} :
                         A \in {{1, 2}, {2, 3}, {2, 3, 4}}} :
             Visited(G, {}, {1}) = Core}

(* A predicate, two entry nodes and a cycle 4..N that each of them enters *)
(* at one or two places, the first of them at node 4: up to rotation, *)
(* colours alternate on the cycle in all ways. *)
Ring == {G \in {[n \in Node |-> IF n = 1 THEN {2, 3} ELSE
                               IF n = 2 THEN X ELSE
                               IF n = 3 THEN Y ELSE
                               IF n = N THEN {4} ELSE {n + 1}] :
                 X, Y \in SUBSET (4 .. N)} :
           4 \in G[2] /\ \A n \in {2, 3} : Cardinality(G[n]) \in 1 .. 2}

DODGraphs == Ring \cup Rooted

(* Node 1 is a branch or a switch; nodes 3 and 4 lie on a cycle: without *)
(* two nodes that reach each other the loops do nothing. *)
OneSwitch == {G \in Rooted : /\ OnAllMaxPaths(G, 4, 3)
                             /\ OnAllMaxPaths(G, 3, 4)}

(* Node 1 branches to 2 and 3. *)
Branching == {G \in Small : G[1] = {2, 3}}

=============================================================================
