------------------------ MODULE LLVMControlDependence ------------------------
(***************************************************************************)
(* The choice of an algorithm for the blocks of one function:              *)
(* LLVMControlDependenceAnalysis::initializeImpl                           *)
(* (lib/llvm/ControlDependence/ControlDependence.cpp), and below it        *)
(* llvmdg::NTSCD::computeOnDemand and llvmdg::StrongControlClosure.  The   *)
(* algorithm that the options name runs to its end; the locals of the      *)
(* others do not exist.  The DOD family is module LLVMDOD.                 *)
(***************************************************************************)
EXTENDS CDGraph

VARIABLES
  option,                  \* LLVMControlDependenceAnalysisOptions::algorithm
  succ,                    \* the graph that CDGraphBuilder built
  pc, CD, revCD,           \* where the algorithm is, and its results
  target,                  \* locals of NTSCD and NTSCD2
  color, frontier, pending, newFrontier, progress,           \* NTSCD
  colored, counter, queue,                     \* NTSCD2, StrongControlClosure
  doFixpoint, toInit, S, bag, queued, next, changed,         \* NTSCDRanganath
  nodes, X, scan, seen                                 \* StrongControlClosure

frontierVars  == <<color, frontier, pending, newFrontier, progress>>
waveVars      == <<colored, counter, queue>>
ranganathVars == <<doFixpoint, toInit, S, bag, queued, next, changed>>
closureVars   == <<nodes, X, scan, seen>>

vars == <<option, succ, pc, CD, revCD, target, frontierVars, waveVars,
          ranganathVars, closureVars>>

Frontier  == INSTANCE NTSCD
Counting  == INSTANCE NTSCD2
Ranganath == INSTANCE NTSCDRanganath
Closure   == INSTANCE ControlClosure WITH queued <- seen

NTSCDOptions == {"ntscd", "ntscd2", "ntscdRanganath", "ntscdRanganathOrig"}

(* Locals of algorithms that are not run.                                  *)
None == "none"

NoFrontier == /\ color = None /\ frontier = None /\ pending = None
              /\ newFrontier = None /\ progress = None
NoWave == colored = None /\ counter = None /\ queue = None
NoRanganath == /\ doFixpoint = None /\ toInit = None /\ S = None /\ bag = None
               /\ queued = None /\ next = None /\ changed = None
NoClosure == nodes = None /\ X = None /\ scan = None /\ seen = None

(* computeOnDemand(F), or getClosure(F, vals), is called.                  *)
InitNTSCD == /\ option = "ntscd"
             /\ Frontier!Init
             /\ NoWave /\ NoRanganath /\ NoClosure

InitNTSCD2 == /\ option = "ntscd2"
              /\ Counting!Init
              /\ NoFrontier /\ NoRanganath /\ NoClosure

InitRanganath ==
  /\ Ranganath!Init
  /\ option = IF doFixpoint THEN "ntscdRanganath" ELSE "ntscdRanganathOrig"
  /\ target = None
  /\ NoFrontier /\ NoWave /\ NoClosure

InitClosure == /\ option = "strongCC"
               /\ Closure!Init
               /\ CD = None /\ revCD = None /\ target = None
               /\ NoFrontier /\ NoRanganath

Init == InitNTSCD \/ InitNTSCD2 \/ InitRanganath \/ InitClosure

RunNTSCD == /\ option = "ntscd"
            /\ Frontier!Next
            /\ UNCHANGED <<option, waveVars, ranganathVars, closureVars>>

RunNTSCD2 == /\ option = "ntscd2"
             /\ Counting!Next
             /\ UNCHANGED <<option, frontierVars, ranganathVars, closureVars>>

RunRanganath ==
  /\ option \in {"ntscdRanganath", "ntscdRanganathOrig"}
  /\ Ranganath!Next
  /\ UNCHANGED <<option, target, frontierVars, waveVars, closureVars>>

RunClosure ==
  /\ option = "strongCC"
  /\ Closure!Next
  /\ UNCHANGED <<option, CD, revCD, target, frontierVars, ranganathVars>>

Next == RunNTSCD \/ RunNTSCD2 \/ RunRanganath \/ RunClosure

Spec == Init /\ [][Next]_vars

(* Each algorithm is one sequential computation that runs until it returns.*)
FairSpec == Spec /\ WF_vars(Next)

-----------------------------------------------------------------------------
(* The passes of the frontier algorithm colour exactly the nodes from      *)
(* which the target cannot be avoided ...                                  *)
ColoringExact == option = "ntscd" => Frontier!ColoringExact

(* ... so that the dependencies of every finished target are exactly its   *)
(* NTSCD predicates other than itself.                                     *)
ComputesNTSCD == option = "ntscd" => Frontier!ComputesNTSCD

(* Unless all paths from the successors of the target return to it (else   *)
(* the target is popped twice), NTSCD2 records exactly NTSCD for it, the   *)
(* dependence of a loop head on itself included.                           *)
ComputesNTSCDUnlessReturns ==
  option = "ntscd2" => Counting!ComputesNTSCDUnlessReturns

(* With ntscd-ranganath the repeated passes find all symbols: the result   *)
(* is exactly NTSCD.                                                       *)
RanganathComputesNTSCD ==
  option = "ntscdRanganath" => Ranganath!RanganathComputesNTSCD

(* closeSet adds nothing that a strongly control-closed set with the given *)
(* nodes could do without.                                                 *)
(* When gamma has found all avoidable nodes in the last round, the result  *)
(* is strongly control-closed: the least such set.                         *)
ClosesLeast ==
  option = "strongCC" => Closure!InsideEveryClosure /\ Closure!ClosedWhereGammaExact

(* Whatever algorithm the options name, it returns on every graph: passes, *)
(* work bags and rounds come to an end although counters wrap below zero.  *)
Termination == <>(pc = "done")

=============================================================================
