--------------------------- MODULE ControlClosure ----------------------------
(***************************************************************************)
(* class StrongControlClosure (lib/ControlDependence/ControlClosure.h):    *)
(* closeSet adds nodes to a set X until no edge p -> r that is reachable   *)
(* from X distinguishes its two ends: r leads to one certain node of X,    *)
(* while p may lead to several or avoid X altogether.                      *)
(*                                                                         *)
(* gamma, a backward wave from X, is called for every edge that is looked  *)
(* at; X does not change meanwhile, so it is run once per round here.      *)
(***************************************************************************)
EXTENDS BackwardWave

VARIABLES
  nodes,      \* the argument of getClosure()
  X,          \* the set that is closed
  pc,         \* "round", "gamma", "scan" or "done"
  scan,       \* the SetQueue of nodes whose edges are still to be looked at
  queued      \* ... and everything that was ever put into it

vars == <<waveVars, nodes, X, pc, scan, queued>>

TypeOK ==
  /\ WaveTypeOK
  /\ nodes \subseteq X
  /\ X \in SUBSET Node
  /\ pc \in {"round", "gamma", "scan", "done"}
  /\ queued \in SUBSET Node
  /\ scan \in Seq(queued)

Init ==
  /\ succ \in Inputs
  /\ WaveInit
  /\ nodes \in SUBSET Node
  /\ X = nodes
  /\ pc = "round"
  /\ scan = <<>>
  /\ queued = {}

-----------------------------------------------------------------------------
(* SetQueue::push for the nodes of M, on a stack, in some order.           *)
PushAll(rest, seen, M) ==
  /\ \E order \in SetToSeqs(M \ seen) : scan' = order \o rest
  /\ queued' = seen \cup M

(* A new round of while (true): the successors of X are queued.            *)
StartRound ==
  /\ pc = "round"
  /\ PushAll(<<>>, {}, UNION {succ[n] : n \in X})
  /\ WaveStart(X)
  /\ pc' = "gamma"
  /\ UNCHANGED <<succ, nodes, X>>

Pop ==
  /\ pc = "gamma"
  /\ queue # <<>>
  /\ WavePop
  /\ UNCHANGED <<succ, nodes, X, pc, scan, queued>>

EndGamma ==
  /\ pc = "gamma"
  /\ queue = <<>>
  /\ pc' = "scan"
  /\ UNCHANGED <<waveVars, nodes, X, scan, queued>>

(* What foreachFirstReachable visits: a walk from the nodes of From goes on *)
(* to the successors of all nodes that are not in M, and stays inside of   *)
(* every set that does so.                                                 *)
Walks(M, From, C) == From \subseteq C /\ \A m \in C \ M : succ[m] \subseteq C

Walked(M, From) == {n \in Node : \A C \in SUBSET Node : Walks(M, From, C) => n \in C}

(* theta(M, n): where paths from n meet M first.                           *)
Theta(M, n) == IF n \in M THEN {n} ELSE Walked(M, succ[n]) \cap M

(* gamma(G, X): from where X can be avoided.                               *)
Gamma == Node \ colored

(* Mutant: condition (c) looks at theta only.                              *)
DistinguishesThetaOnly(p, r) ==
  /\ Cardinality(Theta(X, r)) = 1
  /\ r \notin Gamma
  /\ Cardinality(Theta(X, p)) >= 2

(* Conditions (a), (b) and (c) for the edge p -> r.                        *)
Distinguishes(p, r) ==
  /\ Cardinality(Theta(X, r)) = 1
  /\ r \notin Gamma
  /\ Cardinality(Theta(X, p)) >= 2 \/ p \in Gamma

(* The popped node has such an edge: it joins X and a new round begins.    *)
Add(p) ==
  /\ pc = "scan"
  /\ scan # <<>>
  /\ p = Head(scan)
  /\ \E r \in succ[p] : Distinguishes(p, r)
  /\ X' = X \cup {p}
  /\ pc' = "round"
  /\ UNCHANGED <<waveVars, nodes, scan, queued>>

(* It has none: its successors are queued.                                 *)
Pass(p) ==
  /\ pc = "scan"
  /\ scan # <<>>
  /\ p = Head(scan)
  /\ ~ \E r \in succ[p] : Distinguishes(p, r)
  /\ PushAll(Tail(scan), queued, succ[p])
  /\ UNCHANGED <<waveVars, nodes, X, pc>>

Return ==
  /\ pc = "scan"
  /\ scan = <<>>
  /\ pc' = "done"
  /\ UNCHANGED <<waveVars, nodes, X, scan, queued>>

Done == pc = "done" /\ UNCHANGED vars

Next ==
  \/ StartRound \/ Pop \/ EndGamma
  \/ \E p \in Node : Add(p) \/ Pass(p)
  \/ Return \/ Done

Spec == Init /\ [][Next]_vars

(* One sequential loop, running until it returns.                          *)
FairSpec == Spec /\ WF_vars(Next)

-----------------------------------------------------------------------------
(* Some maximal path from n never meets T.                                 *)
CanAvoid(T, n) ==
  \E A \in SUBSET (Node \ T) :
    n \in A /\ \A a \in A : succ[a] = {} \/ succ[a] \cap A # {}

(* T is strongly control-closed (Danicic et al.): from every node that is  *)
(* reachable from T, either T is never met again or every maximal path     *)
(* meets it, and first of all at one and the same node.                    *)
StronglyClosed(T) ==
  \A n \in Walked({}, T) :
    Theta(T, n) = {} \/ (Cardinality(Theta(T, n)) = 1 /\ ~CanAvoid(T, n))

(* Nothing is added that a strongly control-closed set with these nodes    *)
(* could do without: X stays inside each of them.                          *)
InsideEveryClosure ==
  \A T \in SUBSET Node : nodes \subseteq T /\ StronglyClosed(T) => X \subseteq T

(* When gamma has found all of them in the last round, the result is       *)
(* strongly control-closed: with InsideEveryClosure, the least such set.   *)
ClosedWhereGammaExact ==
  pc = "done" /\ Gamma = {n \in Node : CanAvoid(X, n)} => StronglyClosed(X)

(* closeSet returns: every round adds a node.                              *)
Termination == <>(pc = "done")

=============================================================================
