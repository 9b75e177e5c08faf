------------------------------- MODULE CDGraph -------------------------------
(***************************************************************************)
(* The graph on which control dependencies are computed                    *)
(* (lib/ControlDependence/CDGraph.h): nodes are numbered 1..N in creation  *)
(* order, edges are kept once (ElemWithEdges::addSuccessor drops a         *)
(* repeated edge), and a node with more than one successor is a predicate. *)
(* A graph is represented by its successor function G.                     *)
(***************************************************************************)
EXTENDS Naturals, FiniteSets

CONSTANTS
  N,          \* the number of nodes, CDGraph::size()
  Inputs      \* the graphs the algorithms are run on

ASSUME NAssumption == N \in Nat \ {0}

Node == 1 .. N      \* CDNode::getID(): createNode numbers from 1

(* All graphs that createNode and addNodeSuccessor can build.              *)
Graph == [Node -> SUBSET Node]

ASSUME InputsAssumption == Inputs \subseteq Graph

Preds(G, n) == {p \in Node : n \in G[p]}

(* CDGraph::isPredicate: two different successors.                         *)
IsPredicate(G, n) == \E s1, s2 \in G[n] : s1 # s2

(* The nodes foreachFirstReachable visits: those reached from the nodes of *)
(* From along edges of E that do not leave a node of Stop.                 *)
Visited(E, Stop, From) ==
  LET v[k \in 0 .. N] ==
        IF k = 0 THEN From
        ELSE UNION {prev \cup UNION {E[m] : m \in prev \ Stop} :
                      prev \in {v[k - 1]}}
  IN  v[N]

(* ... and those of M among them, for which it calls its argument.         *)
FirstReachable(E, M, From) == Visited(E, M, From) \cap M

-----------------------------------------------------------------------------
(***************************************************************************)
(* The reference notion.  A maximal path is infinite or ends in a node     *)
(* without successors.  A maximal path from n avoids t iff n lies in a set *)
(* A of nodes other than t each of which either has no successor or has a  *)
(* successor in A.                                                         *)
(***************************************************************************)
Avoids(G, A, t) ==
  /\ t \notin A
  /\ \A a \in A : G[a] = {} \/ G[a] \cap A # {}

OnAllMaxPaths(G, n, t) == \A A \in SUBSET Node : Avoids(G, A, t) => n \notin A

(* The largest such set, by iteration from all nodes but t.                *)
Avoiders(G, t) ==
  LET a[k \in 0 .. N] ==
        IF k = 0 THEN Node \ {t}
        ELSE UNION {{n \in prev : G[n] = {} \/ G[n] \cap prev # {}} :
                      prev \in {a[k - 1]}}
  IN  a[N]

(* Non-termination sensitive control dependence of t on p: some successor  *)
(* of p cannot avoid t and another one can.                                *)
NTSCDependent(G, t, p) ==
  \E s1, s2 \in G[p] : OnAllMaxPaths(G, s1, t) /\ ~OnAllMaxPaths(G, s2, t)

(* All maximal paths from s meet a, and b not before it: a cannot be       *)
(* avoided even when paths are cut off at b.                               *)
MeetsFirst(G, s, a, b) == OnAllMaxPaths([G EXCEPT ![b] = {}], s, a)

(* {a, b} is decisive order dependent on p: both are on all maximal paths  *)
(* from p, and p's successor decides which of them comes first.            *)
OrderDependent(G, p, a, b) ==
  /\ a # b /\ p \notin {a, b}
  /\ OnAllMaxPaths(G, p, a) /\ OnAllMaxPaths(G, p, b)
  /\ \E s \in G[p] : MeetsFirst(G, s, a, b)
  /\ \E s \in G[p] : MeetsFirst(G, s, b, a)

DODof(G, p) == {a \in Node : \E b \in Node : OrderDependent(G, p, a, b)}

=============================================================================
