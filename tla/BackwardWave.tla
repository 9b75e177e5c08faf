---------------------------- MODULE BackwardWave -----------------------------
(***************************************************************************)
(* The counting search that NTSCD2::compute, AllMaxPath::compute and       *)
(* StrongControlClosure::gamma share: colour the targets, then pop nodes   *)
(* from a stack and count down, in every predecessor, the successors that  *)
(* are not coloured yet; a predecessor whose counter reaches zero is       *)
(* coloured and pushed.                                                    *)
(*                                                                         *)
(* The counters are unsigned short and a node is pushed whenever its       *)
(* counter reaches zero, without looking at its colour: a target whose     *)
(* successors all get coloured is pushed, and popped, a second time.       *)
(* Predecessors are kept in edge-insertion order, which the graph value    *)
(* does not record, so they are pushed in an arbitrary order.              *)
(***************************************************************************)
EXTENDS CDGraph, Sequences, SequencesExt

CounterModulus == 65536     \* unsigned short: 2^16

VARIABLES
  succ,       \* the graph
  colored,    \* the nodes whose info is marked coloured
  counter,    \* data[n].counter
  queue       \* ADT::QueueLIFO, its top at the head

waveVars == <<succ, colored, counter, queue>>

WaveTypeOK ==
  /\ succ \in Graph
  /\ colored \in SUBSET Node
  /\ counter \in [Node -> 0 .. CounterModulus - 1]
  /\ queue \in Seq(Node)

WaveInit ==
  /\ colored = {}
  /\ counter = [n \in Node |-> 0]
  /\ queue = <<>>

(* "initialize nodes" and "initialize the search": counters are set to the *)
(* number of successors, only the targets are coloured.                    *)
WaveStart(T) ==
  /\ counter' = [n \in Node |-> Cardinality(succ[n]) % CounterModulus]
  /\ colored' = T
  /\ \E order \in SetToSeqs(T) : queue' = order

(* --D.counter in unsigned short arithmetic.                               *)
Decremented(n) == (counter[n] + CounterModulus - 1) % CounterModulus

(* Mutant: the counter of the popped node is decremented instead of those  *)
(* of its predecessors.                                                    *)
WavePopSelf ==
  LET node == Head(queue) IN
  /\ counter' = [counter EXCEPT ![node] = Decremented(node)]
  /\ colored' = colored
  /\ queue' = Tail(queue)

(* One round of "search!": pop a node and count down its predecessors.     *)
WavePop ==
  LET node  == Head(queue)
      preds == Preds(succ, node)
      zero  == {p \in preds : Decremented(p) = 0}
  IN
  /\ counter' = [p \in Node |-> IF p \in preds THEN Decremented(p)
                                               ELSE counter[p]]
  /\ colored' = colored \cup zero
  /\ \E order \in SetToSeqs(zero) : queue' = order \o Tail(queue)

-----------------------------------------------------------------------------
(* All maximal paths from the successors of t lead back to t: then t is    *)
(* pushed a second time in the search for t.                               *)
Returns(t) == succ[t] # {} /\ \A s \in succ[t] : OnAllMaxPaths(succ, s, t)

=============================================================================
