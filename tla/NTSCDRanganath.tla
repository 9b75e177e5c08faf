--------------------------- MODULE NTSCDRanganath ----------------------------
(***************************************************************************)
(* class NTSCDRanganath (lib/ControlDependence/NTSCD.h).  The symbol       *)
(* t(p,m) stands for "the maximal paths from p that begin with the edge to *)
(* its successor m"; it is put into S[n][p] once all these paths are known *)
(* to meet n.  A symbol of S[n][p] always has p as its first component, so *)
(* it is represented by m.                                                 *)
(*                                                                         *)
(* compute(graph, doFixpoint) has two modes: passes over all nodes until   *)
(* nothing changes, or the original algorithm with a work bag.  The bag is *)
(* a SetQueue, which refuses for ever what was pushed once.                *)
(***************************************************************************)
EXTENDS CDGraph, Sequences, SequencesExt

VARIABLES
  succ,        \* the graph
  doFixpoint,  \* the argument of compute()
  pc,          \* "init", "pass", "bag" or "done"
  toInit,      \* the predicates step (1) has not visited yet
  S,           \* S[n][p]
  bag,         \* workbag._queue
  queued,      \* workbag._queued
  next,        \* the node the current pass processes next
  changed,     \* has the current pass changed anything?
  CD, revCD    \* the results

vars == <<succ, doFixpoint, pc, toInit, S, bag, queued, next, changed,
          CD, revCD>>

Predicates == {p \in Node : IsPredicate(succ, p)}

TypeOK ==
  /\ succ \in Graph
  /\ doFixpoint \in BOOLEAN
  /\ pc \in {"init", "pass", "bag", "done"}
  /\ toInit \in SUBSET Node
  /\ S \in [Node -> [Node -> SUBSET Node]]
  /\ \A n, p \in Node : S[n][p] \subseteq succ[p]
  /\ bag \in Seq(Node)
  /\ queued \in SUBSET Node
  /\ next \in 1 .. N + 1
  /\ changed \in BOOLEAN
  /\ CD \in [Node -> SUBSET Node]
  /\ revCD \in [Node -> SUBSET Node]

Init ==
  /\ succ \in Inputs
  /\ doFixpoint \in BOOLEAN
  /\ pc = "init"
  /\ toInit = Predicates
  /\ S = [n \in Node |-> [p \in Node |-> {}]]
  /\ bag = <<>>
  /\ queued = {}
  /\ next = 1
  /\ changed = FALSE
  /\ CD = [n \in Node |-> {}]
  /\ revCD = [n \in Node |-> {}]

-----------------------------------------------------------------------------
(* workbag.push for the nodes of a sequence, in its order.                 *)
Push(rest, nodes) ==
  /\ bag' = rest \o SelectSeq(nodes, LAMBDA n : n \notin queued)
  /\ queued' = queued \cup Range(nodes)

(* Step (1): predicates come in pointer order, successors in edge order.   *)
InitPredicate(p) ==
  /\ pc = "init"
  /\ p \in toInit
  /\ toInit' = toInit \ {p}
  /\ S' = [n \in Node |-> [S[n] EXCEPT ![p] = IF n \in succ[p] THEN {n} ELSE @]]
  /\ \E order \in SetToSeqs(succ[p]) : Push(bag, order)
  /\ UNCHANGED <<succ, doFixpoint, pc, next, changed, CD, revCD>>

InitEnd ==
  /\ pc = "init"
  /\ toInit = {}
  /\ pc' = IF doFixpoint THEN "pass" ELSE "bag"
  /\ UNCHANGED <<succ, doFixpoint, toInit, S, bag, queued, next, changed,
                 CD, revCD>>

(* Where processNode(n) copies the symbols of S[n] to: (2.1) the only      *)
(* successor, unless it is n; (2.2) the nodes on all paths from n.         *)
Receives(n) ==
  IF IsPredicate(succ, n)
  THEN {m \in Node : Cardinality(S[m][n]) = Cardinality(succ[n])}
  ELSE succ[n] \ {n}

(* (2.2) leaves out the symbols of n itself.                               *)
Copied(n) == IF IsPredicate(succ, n) THEN Predicates \ {n} ELSE Predicates

(* S after processNode(n), and the nodes whose sets grew.                  *)
Processed(n) ==
  [m \in Node |-> [p \in Node |->
     IF m \in Receives(n) /\ p \in Copied(n) THEN S[m][p] \cup S[n][p]
                                             ELSE S[m][p]]]

Grown(n) == SetToSortSeq({m \in Node : Processed(n)[m] # S[m]}, <)

(* Step (3).                                                               *)
Dependent(n, p) ==
  /\ IsPredicate(succ, p)
  /\ S[n][p] # {}
  /\ Cardinality(S[n][p]) < Cardinality(succ[p])

Collect ==
  /\ CD' = [n \in Node |-> {p \in Node : Dependent(n, p)}]
  /\ revCD' = [p \in Node |-> {n \in Node : Dependent(n, p)}]
  /\ pc' = "done"
  /\ UNCHANGED <<succ, doFixpoint, toInit, S, bag, queued, next, changed>>

(* Step (2), doFixpoint: a pass processes the nodes in their order.        *)
PassNext(n) ==
  /\ pc = "pass"
  /\ n = next
  /\ S' = Processed(n)
  /\ Push(bag, Grown(n))
  /\ changed' = (changed \/ Processed(n) # S)
  /\ next' = n + 1
  /\ UNCHANGED <<succ, doFixpoint, pc, toInit, CD, revCD>>

(* Mutant: changed is not reset when a pass begins.                        *)
PassRepeatNoReset ==
  /\ pc = "pass"
  /\ next > N
  /\ changed
  /\ next' = 1
  /\ UNCHANGED <<succ, doFixpoint, pc, toInit, S, bag, queued, changed,
                 CD, revCD>>

PassRepeat ==
  /\ pc = "pass"
  /\ next > N
  /\ changed
  /\ changed' = FALSE
  /\ next' = 1
  /\ UNCHANGED <<succ, doFixpoint, pc, toInit, S, bag, queued, CD, revCD>>

(* Mutant: one pass only.                                                  *)
PassEndOnce ==
  /\ pc = "pass"
  /\ next > N
  /\ Collect

PassEnd ==
  /\ pc = "pass"
  /\ next > N
  /\ ~changed
  /\ Collect

(* Step (2), the original algorithm.                                       *)
BagPop(n) ==
  /\ pc = "bag"
  /\ bag # <<>>
  /\ n = Head(bag)
  /\ S' = Processed(n)
  /\ Push(Tail(bag), Grown(n))
  /\ UNCHANGED <<succ, doFixpoint, pc, toInit, next, changed, CD, revCD>>

BagEnd ==
  /\ pc = "bag"
  /\ bag = <<>>
  /\ Collect

Done == pc = "done" /\ UNCHANGED vars

Next ==
  \/ \E n \in Node : InitPredicate(n) \/ PassNext(n) \/ BagPop(n)
  \/ InitEnd \/ PassRepeat \/ PassEnd \/ BagEnd
  \/ Done

Spec == Init /\ [][Next]_vars

(* One sequential computation, running until it returns.                   *)
FairSpec == Spec /\ WF_vars(Next)

-----------------------------------------------------------------------------
(* No symbol is copied too far, in either mode: if t(p,m) is in S[n][p],   *)
(* no maximal path from m avoids n.  So what is wrong with the original    *)
(* algorithm is never a symbol that should not be there.                   *)
SymbolsSound ==
  \A n, p \in Node : \A m \in S[n][p] : OnAllMaxPaths(succ, m, n)

(* The repeated passes find all symbols: the result is exactly NTSCD, the  *)
(* dependence of a loop head on itself included.                           *)
RanganathComputesNTSCD ==
  pc = "done" /\ doFixpoint =>
    \A n, p \in Node : p \in CD[n] <=> NTSCDependent(succ, n, p)

(* Both directions of the result are each other's inverse.                 *)
ResultsInverse == \A n, p \in Node : p \in CD[n] <=> n \in revCD[p]

(* Passes and bag come to an end on every graph.                           *)
Termination == <>(pc = "done")

=============================================================================
