-------------------------- MODULE BackwardWaveProofs -------------------------
(***************************************************************************)
(* The two algorithms of the LLVM front end that are made of backward      *)
(* waves (module BackwardWave).  The counting algorithm of class NTSCD2    *)
(* computes non-termination sensitive control dependence for every target  *)
(* that is popped only once.  closeSet adds only what every strongly       *)
(* control-closed set with the given nodes contains, and where gamma is    *)
(* exact in the last round the result is such a set.  Both hold on every   *)
(* graph of every size in which the counters do not overflow: in which no  *)
(* node has 2^16 or more successors.                                       *)
(***************************************************************************)
EXTENDS LLVMControlDependence, SequencesExt, FiniteSetTheorems,
        FunctionTheorems, SequenceTheorems, TLAPS

(* The instance shares the notions of module CDGraph.                      *)
LEMMA CountingNotions ==
  /\ Counting!Node = Node
  /\ Counting!Graph = Graph
  /\ \A G, n : Counting!IsPredicate(G, n) = IsPredicate(G, n)
  /\ \A A : Counting!Cardinality(A) = Cardinality(A)
  /\ \A G, n : Counting!Preds(G, n) = Preds(G, n)
  /\ \A G, n, t : Counting!OnAllMaxPaths(G, n, t) = OnAllMaxPaths(G, n, t)
  /\ \A G, t, p : Counting!NTSCDependent(G, t, p) = NTSCDependent(G, t, p)
  /\ \A A : Counting!SetToSeqs(A) = SetToSeqs(A)
BY DEF Counting!Node, Node, Counting!Graph, Graph, Counting!IsPredicate,
       IsPredicate, Counting!Cardinality, Cardinality, Counting!OnAllMaxPaths,
       OnAllMaxPaths, Counting!Avoids, Avoids, Counting!NTSCDependent,
       NTSCDependent, Counting!Preds, Preds, Counting!SetToSeqs, SetToSeqs

USE CountingNotions

(* No counter of type unsigned short has to hold more than it can.         *)
CountersFit ==
  \A G \in Inputs : \A n \in Node : Cardinality(G[n]) < Counting!CounterModulus

(* The nodes that have been popped: coloured, and not waiting any more.    *)
Popped == colored \ Range(queue)

(* The stack holds coloured nodes, none of them twice.                     *)
QueueDistinct ==
  /\ queue \in Seq(Node)
  /\ \A i, j \in 1 .. Len(queue) : queue[i] = queue[j] => i = j
  /\ Range(queue) \subseteq colored

(* A counter counts the successors that have not been popped.              *)
CountersExact == \A n \in Node : counter[n] = Cardinality(succ[n] \ Popped)

(* Besides the target just the nodes all of whose successors have been     *)
(* popped are coloured.                                                    *)
ColoredExact ==
  /\ target \in colored
  /\ \A n \in Node \ {target} :
       n \in colored <=> succ[n] # {} /\ succ[n] \subseteq Popped

(* A coloured node cannot avoid the target.                                *)
ColoringSound == \A n \in colored : OnAllMaxPaths(succ, n, target)

SearchInv ==
  pc = "search" /\ ~Counting!Returns(target) =>
    QueueDistinct /\ CountersExact /\ ColoredExact /\ ColoringSound

CountingInv ==
  /\ succ \in Inputs
  /\ colored \in SUBSET Node
  /\ counter \in [Node -> Nat]
  /\ pc \in {"target", "search", "done"}
  /\ target \in 1 .. N + 1
  /\ pc # "done" => target \in Node
  /\ CD \in [Node -> SUBSET Node]
  /\ SearchInv
  /\ Counting!ComputesNTSCDUnlessReturns

-----------------------------------------------------------------------------
LEMMA NodeSetsFinite ==
  ASSUME NEW A \in SUBSET Node
  PROVE  IsFiniteSet(A) /\ Cardinality(A) \in Nat
<1>1. IsFiniteSet(Node)
  BY FS_Interval, NAssumption DEF Node
<1> QED
  BY <1>1, FS_Subset, FS_CardinalityType

(* All graphs with fewer than 2^16 nodes are of this kind.                 *)
LEMMA SmallGraphsFit == ASSUME N < Counting!CounterModulus PROVE CountersFit
<1> SUFFICES ASSUME NEW G \in Inputs, NEW n \in Node
             PROVE  Cardinality(G[n]) < Counting!CounterModulus
  BY DEF CountersFit
<1>1. G[n] \in SUBSET Node
  BY InputsAssumption DEF Graph
<1>2. IsFiniteSet(Node) /\ Cardinality(Node) = N
  BY FS_Interval, NAssumption DEF Node
<1>3. Cardinality(G[n]) <= N /\ Cardinality(G[n]) \in Nat
  BY <1>1, <1>2, FS_Subset, NodeSetsFinite
<1> QED
  BY <1>3, NAssumption DEF Counting!CounterModulus

(* SetToSeqs(A): the sequences without repetitions that have just the      *)
(* elements of A.                                                          *)
LEMMA SetToSeqsElements ==
  ASSUME NEW A \in SUBSET Node, NEW order \in SetToSeqs(A)
  PROVE  /\ order \in Seq(Node)
         /\ \A i, j \in 1 .. Len(order) : order[i] = order[j] => i = j
         /\ Range(order) = A
<1> DEFINE D == 1 .. Cardinality(A)
<1>1. IsFiniteSet(A) /\ Cardinality(A) \in Nat
  BY NodeSetsFinite
<1>2. order \in [D -> A] /\ \A i, j \in D : i # j => order[i] # order[j]
  BY DEF SetToSeqs
<1>3. order \in Injection(D, A)
  BY <1>2, Fun_IsInj
<1>4. IsFiniteSet(D) /\ Cardinality(D) = Cardinality(A)
  BY <1>1, FS_Interval
<1>5. Range(order) = A
  BY <1>1, <1>3, <1>4, FS_Injection, Fun_SurjectionProperties
<1>6. order \in Seq(A) /\ Len(order) = Cardinality(A)
  BY <1>1, <1>2
<1> QED
  BY <1>2, <1>5, <1>6

LEMMA ConcatRange ==
  ASSUME NEW s \in Seq(Node), NEW t \in Seq(Node)
  PROVE  Range(s \o t) = Range(s) \cup Range(t)
BY RangeConcatenation

(* Popping: what the stack holds afterwards.                               *)
LEMMA PoppedQueue ==
  ASSUME NEW q \in Seq(Node), q # <<>>,
         \A i, j \in 1 .. Len(q) : q[i] = q[j] => i = j,
         NEW A \in SUBSET Node, A \cap Range(q) = {},
         NEW order \in SetToSeqs(A)
  PROVE  /\ order \o Tail(q) \in Seq(Node)
         /\ Head(q) \in Range(q)
         /\ Range(order \o Tail(q)) = A \cup (Range(q) \ {Head(q)})
         /\ \A i, j \in 1 .. Len(order \o Tail(q)) :
              (order \o Tail(q))[i] = (order \o Tail(q))[j] => i = j
<1>1. /\ order \in Seq(Node) /\ Range(order) = A
      /\ \A i, j \in 1 .. Len(order) : order[i] = order[j] => i = j
  BY SetToSeqsElements
<1>2. /\ Tail(q) \in Seq(Node) /\ Len(q) \in Nat \ {0}
      /\ Len(Tail(q)) = Len(q) - 1
      /\ \A i \in 1 .. Len(Tail(q)) : Tail(q)[i] = q[i + 1]
      /\ Head(q) = q[1]
  BY HeadTailProperties, EmptySeq
<1>3. /\ Range(q) = {q[i] : i \in 1 .. Len(q)}
      /\ Range(Tail(q)) = {Tail(q)[i] : i \in 1 .. Len(Tail(q))}
      /\ Range(order) = {order[i] : i \in 1 .. Len(order)}
  BY <1>1, <1>2, LenProperties DEF Range
<1>4. Range(Tail(q)) = Range(q) \ {Head(q)}
  <2>1. ASSUME NEW x \in Range(Tail(q)) PROVE x \in Range(q) \ {Head(q)}
    <3>1. PICK i \in 1 .. Len(Tail(q)) : x = Tail(q)[i]
      BY <1>3
    <3>2. x = q[i + 1] /\ i + 1 \in 1 .. Len(q) /\ i + 1 # 1
      BY <1>2, <3>1
    <3> QED
      BY <1>2, <1>3, <3>2
  <2>2. ASSUME NEW x \in Range(q) \ {Head(q)} PROVE x \in Range(Tail(q))
    <3>1. PICK i \in 1 .. Len(q) : x = q[i]
      BY <1>3
    <3>2. i - 1 \in 1 .. Len(Tail(q)) /\ (i - 1) + 1 = i
      BY <1>2, <3>1
    <3>3. x = Tail(q)[i - 1]
      BY <1>2, <3>1, <3>2
    <3> QED
      BY <1>3, <3>2, <3>3
  <2> QED
    BY <2>1, <2>2
<1>5. Range(order \o Tail(q)) = A \cup (Range(q) \ {Head(q)})
  <2>1. order \in Seq(Node) /\ Tail(q) \in Seq(Node)
    BY <1>1, <1>2
  <2>2. Range(order \o Tail(q)) = Range(order) \cup Range(Tail(q))
    BY <2>1, ConcatRange
  <2> QED
    BY <1>1, <1>4, <2>2
<1>6. Head(q) \in Range(q)
  BY <1>2, <1>3
<1>7. order \o Tail(q) \in Seq(Node)
  BY <1>1, <1>2, ConcatProperties
<1>8. ASSUME NEW i \in 1 .. Len(order \o Tail(q)),
             NEW j \in 1 .. Len(order \o Tail(q)),
             (order \o Tail(q))[i] = (order \o Tail(q))[j]
      PROVE  i = j
  <2> DEFINE L == Len(order)
  <2>1. L \in Nat /\ Len(Tail(q)) \in Nat
    BY <1>1, <1>2, LenProperties
  <2>2. /\ Len(order \o Tail(q)) = L + Len(Tail(q))
        /\ \A k \in 1 .. L + Len(Tail(q)) : (order \o Tail(q))[k] =
             IF k <= L THEN order[k] ELSE Tail(q)[k - L]
    BY <1>1, <1>2, ConcatProperties
  <2>3. \A k \in 1 .. L : order[k] \in A
    BY <1>1, <1>3
  <2>4. \A k \in 1 .. Len(Tail(q)) : Tail(q)[k] \in Range(q)
    BY <1>3, <1>4
  <2>5. i \in 1 .. L + Len(Tail(q)) /\ j \in 1 .. L + Len(Tail(q))
    BY <2>2
  <2> HIDE DEF L
  <2>6. CASE i <= L /\ j <= L
    BY <1>1, <1>8, <2>1, <2>2, <2>5, <2>6 DEF L
  <2>7. CASE i > L /\ j > L
    <3>1. i - L \in 1 .. Len(Tail(q)) /\ j - L \in 1 .. Len(Tail(q))
      BY <2>1, <2>5, <2>7
    <3>2. Tail(q)[i - L] = Tail(q)[j - L]
      BY <1>8, <2>1, <2>2, <2>5, <2>7
    <3>3. /\ Tail(q)[i - L] = q[(i - L) + 1]
          /\ Tail(q)[j - L] = q[(j - L) + 1]
      BY <1>2, <3>1
    <3>4. (i - L) + 1 \in 1 .. Len(q) /\ (j - L) + 1 \in 1 .. Len(q)
      BY <1>2, <3>1
    <3>5. (i - L) + 1 = (j - L) + 1
      <4>1. q[(i - L) + 1] = q[(j - L) + 1]
        BY <3>2, <3>3
      <4> QED
        BY <3>4, <4>1, Zenon
    <3> QED
      BY <2>1, <2>5, <3>5
  <2>8. CASE i <= L /\ j > L
    <3>0. i \in 1 .. L /\ j - L \in 1 .. Len(Tail(q))
      BY <2>1, <2>5, <2>8
    <3>1. order[i] \in A /\ Tail(q)[j - L] \in Range(q)
      BY <2>3, <2>4, <3>0
    <3>2. order[i] = Tail(q)[j - L]
      BY <1>8, <2>1, <2>2, <2>5, <2>8
    <3> QED
      BY <3>1, <3>2
  <2>9. CASE i > L /\ j <= L
    <3>0. j \in 1 .. L /\ i - L \in 1 .. Len(Tail(q))
      BY <2>1, <2>5, <2>9
    <3>1. order[j] \in A /\ Tail(q)[i - L] \in Range(q)
      BY <2>3, <2>4, <3>0
    <3>2. order[j] = Tail(q)[i - L]
      BY <1>8, <2>1, <2>2, <2>5, <2>9
    <3> QED
      BY <3>1, <3>2
  <2> QED
    BY <2>1, <2>5, <2>6, <2>7, <2>8, <2>9
<1> QED
  BY <1>5, <1>6, <1>7, <1>8

-----------------------------------------------------------------------------
LEMMA TargetOnAllMaxPaths ==
  ASSUME NEW G, NEW t \in Node PROVE OnAllMaxPaths(G, t, t)
BY DEF OnAllMaxPaths, Avoids

(* A node cannot avoid what its successors cannot avoid.                   *)
LEMMA ColoringStep ==
  ASSUME NEW G \in Graph, NEW n \in Node, NEW t \in Node, G[n] # {},
         \A s \in G[n] : OnAllMaxPaths(G, s, t)
  PROVE  OnAllMaxPaths(G, n, t)
BY DEF OnAllMaxPaths, Avoids, Graph

LEMMA InitCounting == Counting!Init => CountingInv
BY NAssumption DEF Counting!Init, Counting!WaveInit, CountingInv, SearchInv,
   Counting!ComputesNTSCDUnlessReturns, Node

(* The wave begins: only the target waits, nothing has been popped.        *)
LEMMA StartTargetCounting ==
  ASSUME CountersFit, CountingInv, Counting!StartTarget PROVE CountingInv'
<1>0. /\ succ \in Graph /\ succ \in Inputs /\ target \in Node
      /\ UNCHANGED <<succ, target, CD>> /\ pc' = "search"
      /\ colored' = {target}
      /\ counter' =
           [n \in Node |-> Cardinality(succ[n]) % Counting!CounterModulus]
  BY InputsAssumption DEF CountingInv, Counting!StartTarget, Counting!WaveStart
<1>1. PICK order \in SetToSeqs({target}) : queue' = order
  BY DEF Counting!StartTarget, Counting!WaveStart
<1>2. /\ queue' \in Seq(Node) /\ Range(queue') = {target}
      /\ \A i, j \in 1 .. Len(queue') : queue'[i] = queue'[j] => i = j
  BY <1>0, <1>1, SetToSeqsElements
<1>3. Popped' = {}
  BY <1>0, <1>2 DEF Popped
<1>4. \A n \in Node :
        succ[n] \ Popped' = succ[n] /\ Cardinality(succ[n]) \in Nat
  BY <1>0, <1>3, NodeSetsFinite DEF Graph
<1>5. \A n \in Node : counter'[n] = Cardinality(succ[n])
  BY <1>0, <1>4 DEF CountersFit, Counting!CounterModulus
<1>6. QueueDistinct' /\ CountersExact'
  BY <1>0, <1>2, <1>4, <1>5 DEF QueueDistinct, CountersExact
<1>7. ColoredExact' /\ ColoringSound'
  BY <1>0, <1>3, TargetOnAllMaxPaths DEF ColoredExact, ColoringSound
<1>8. Counting!ComputesNTSCDUnlessReturns'
  BY <1>0 DEF CountingInv, Counting!ComputesNTSCDUnlessReturns,
     Counting!Returns
<1>9. counter' \in [Node -> Nat]
  BY <1>0, <1>4, <1>5
<1> QED
  BY <1>0, <1>6, <1>7, <1>8, <1>9 DEF CountingInv, SearchInv

(* What a pop does to the counters of the predecessors, and which of them  *)
(* it colours, as long as the target does not return.                      *)
LEMMA PopSearch ==
  ASSUME CountersFit, CountingInv, Counting!Pop, ~Counting!Returns(target)
  PROVE  (QueueDistinct /\ CountersExact /\ ColoredExact /\ ColoringSound)'
<1> DEFINE node == Head(queue)
           preds == Preds(succ, node)
           zero == {p \in preds : Counting!Decremented(p) = 0}
           popped == Popped \cup {node}
<1>0. /\ succ \in Graph /\ succ \in Inputs /\ target \in Node
      /\ QueueDistinct /\ CountersExact /\ ColoredExact /\ ColoringSound
      /\ colored \subseteq Node /\ queue # <<>> /\ UNCHANGED <<succ, target>>
  BY InputsAssumption DEF CountingInv, SearchInv, Counting!Pop
<1>1. /\ counter' = [p \in Node |-> IF p \in preds THEN Counting!Decremented(p)
                                                   ELSE counter[p]]
      /\ colored' = colored \cup zero
      /\ \E order \in SetToSeqs(zero) : queue' = order \o Tail(queue)
  BY DEF Counting!Pop, Counting!WavePop
<1>2. preds \subseteq Node /\ zero \subseteq Node
  BY DEF Preds
<1>3. node \in Range(queue) /\ node \in colored /\ node \in Node
      /\ node \notin Popped
  <2>1. queue \in Seq(Node) /\ Len(queue) \in Nat \ {0}
        /\ DOMAIN queue = 1 .. Len(queue)
    BY <1>0, EmptySeq, LenProperties DEF QueueDistinct
  <2>2. node = queue[1] /\ 1 \in DOMAIN queue
    BY <2>1
  <2>3. node \in Range(queue)
    BY <2>2 DEF Range
  <2> QED
    BY <1>0, <2>3 DEF QueueDistinct, Popped
<1>4. popped \subseteq colored
  BY <1>3 DEF Popped
<1>5. ASSUME NEW p \in Node
      PROVE  counter'[p] = Cardinality(succ[p] \ popped)
  <2>1. IsFiniteSet(succ[p] \ Popped) /\ Cardinality(succ[p] \ Popped) \in Nat
    BY <1>0, NodeSetsFinite DEF Graph
  <2>2. CASE p \in preds
    <3>1. node \in succ[p] \ Popped
      BY <1>3, <2>2 DEF Preds
    <3>2. (succ[p] \ Popped) \ {node} = succ[p] \ popped
      OBVIOUS
    <3>3. Cardinality(succ[p] \ popped) = Cardinality(succ[p] \ Popped) - 1
      BY <2>1, <3>1, <3>2, FS_RemoveElement
    <3>4. Cardinality(succ[p] \ popped) \in Nat
      BY <1>0, NodeSetsFinite DEF Graph
    <3>5. Cardinality(succ[p] \ Popped) < Counting!CounterModulus
      <4>1. Cardinality(succ[p] \ Popped) <= Cardinality(succ[p])
        BY <1>0, NodeSetsFinite, FS_Subset DEF Graph
      <4>2. Cardinality(succ[p]) < Counting!CounterModulus
            /\ Cardinality(succ[p]) \in Nat
        BY <1>0, NodeSetsFinite DEF CountersFit, Graph
      <4> QED
        BY <2>1, <4>1, <4>2 DEF Counting!CounterModulus
    <3>6. counter[p] = Cardinality(succ[p] \ Popped)
          /\ counter'[p] = Counting!Decremented(p)
      BY <1>0, <1>1, <2>2 DEF CountersExact
    <3> QED
      BY <2>1, <3>3, <3>4, <3>5, <3>6 DEF Counting!Decremented,
         Counting!CounterModulus
  <2>3. CASE p \notin preds
    <3>1. succ[p] \ popped = succ[p] \ Popped
      BY <2>3 DEF Preds
    <3> QED
      BY <1>0, <1>1, <2>3, <3>1 DEF CountersExact
  <2> QED
    BY <2>2, <2>3
<1>6. \A p \in Node : p \in zero <=> p \in preds /\ succ[p] \subseteq popped
  <2> SUFFICES ASSUME NEW p \in preds
               PROVE  Counting!Decremented(p) = 0 <=> succ[p] \subseteq popped
    BY <1>2
  <2>1. Counting!Decremented(p) = Cardinality(succ[p] \ popped)
    BY <1>1, <1>2, <1>5
  <2>2. IsFiniteSet(succ[p] \ popped)
    BY <1>0, <1>2, NodeSetsFinite DEF Graph
  <2> QED
    BY <2>1, <2>2, FS_EmptySet
<1>7. zero \cap colored = {}
  <2> SUFFICES ASSUME NEW p \in zero, p \in colored PROVE FALSE
    OBVIOUS
  <2>1. p \in Node /\ node \in succ[p] /\ succ[p] \subseteq popped
    BY <1>2, <1>6 DEF Preds
  <2>2. CASE p = target
    <3>1. \A s \in succ[target] : OnAllMaxPaths(succ, s, target)
      BY <1>0, <1>4, <2>1, <2>2 DEF ColoringSound
    <3> QED
      BY <2>1, <2>2, <3>1 DEF Counting!Returns
  <2>3. CASE p # target
    BY <1>0, <1>3, <2>1, <2>3 DEF ColoredExact
  <2> QED
    BY <2>2, <2>3
<1>8. PICK order \in SetToSeqs(zero) : queue' = order \o Tail(queue)
  BY <1>1
<1>9. /\ queue' \in Seq(Node)
      /\ Range(queue') = zero \cup (Range(queue) \ {node})
      /\ \A i, j \in 1 .. Len(queue') : queue'[i] = queue'[j] => i = j
  <2>1. zero \cap Range(queue) = {} /\ queue \in Seq(Node)
        /\ \A i, j \in 1 .. Len(queue) : queue[i] = queue[j] => i = j
    BY <1>0, <1>7 DEF QueueDistinct
  <2>2. order \in SetToSeqs(zero) /\ zero \in SUBSET Node /\ queue # <<>>
    BY <1>0, <1>2, <1>8
  <2> HIDE DEF zero
  <2>3. /\ order \o Tail(queue) \in Seq(Node)
        /\ Range(order \o Tail(queue)) = zero \cup (Range(queue) \ {node})
        /\ \A i, j \in 1 .. Len(order \o Tail(queue)) :
             (order \o Tail(queue))[i] = (order \o Tail(queue))[j] => i = j
    BY <2>1, <2>2, PoppedQueue
  <2> QED
    BY <1>8, <2>3
<1> HIDE DEF node, preds, zero
<1>10. Popped' = popped
  BY <1>0, <1>1, <1>3, <1>7, <1>9 DEF Popped, QueueDistinct
<1>11. QueueDistinct'
  BY <1>0, <1>1, <1>9 DEF QueueDistinct
<1>12. CountersExact'
  BY <1>0, <1>5, <1>10 DEF CountersExact
<1>13. ColoredExact'
  <2> SUFFICES ASSUME NEW n \in Node \ {target}
               PROVE  n \in colored' <=> succ[n] # {}
                      /\ succ[n] \subseteq popped
    BY <1>0, <1>1, <1>10 DEF ColoredExact
  <2>1. n \in colored <=> succ[n] # {} /\ succ[n] \subseteq Popped
    BY <1>0 DEF ColoredExact
  <2>2. n \in preds <=> node \in succ[n]
    BY DEF preds, Preds
  <2> QED
    BY <1>1, <1>6, <2>1, <2>2
<1>14. ColoringSound'
  <2> SUFFICES ASSUME NEW p \in zero PROVE OnAllMaxPaths(succ, p, target)
    BY <1>0, <1>1 DEF ColoringSound
  <2>1. p \in Node /\ node \in succ[p] /\ succ[p] \subseteq popped
    BY <1>2, <1>6 DEF preds, Preds
  <2> QED
    BY <1>0, <1>4, <2>1, ColoringStep DEF ColoringSound
<1> QED
  BY <1>11, <1>12, <1>13, <1>14

LEMMA PopCounting ==
  ASSUME CountersFit, CountingInv, Counting!Pop PROVE CountingInv'
<1>1. SearchInv'
  <2>1. Counting!Returns(target)' <=> Counting!Returns(target)
    BY DEF Counting!Pop, Counting!Returns
  <2> QED
    BY <2>1, PopSearch DEF SearchInv
<1>2. Counting!ComputesNTSCDUnlessReturns'
  BY DEF CountingInv, Counting!ComputesNTSCDUnlessReturns, Counting!Returns,
         Counting!Pop
<1>3. colored' \in SUBSET Node /\ counter' \in [Node -> Nat]
  BY DEF CountingInv, Counting!Pop, Counting!WavePop, Preds,
         Counting!Decremented, Counting!CounterModulus
<1> QED
  BY <1>1, <1>2, <1>3 DEF CountingInv, Counting!Pop

(* The stack is empty: all coloured nodes have been popped, and those that *)
(* are not coloured form a set that avoids the target.                     *)
LEMMA CollectExact ==
  ASSUME CountingInv, Counting!Collect, ~Counting!Returns(target)
  PROVE  /\ \A n \in Node : n \in colored <=> OnAllMaxPaths(succ, n, target)
         /\ \A p \in Node :
              Counting!Split(p) <=> NTSCDependent(succ, target, p)
<1>0. /\ succ \in Graph /\ target \in Node /\ queue = <<>>
      /\ ColoredExact /\ ColoringSound
  BY InputsAssumption DEF CountingInv, SearchInv, Counting!Collect
<1>1. Popped = colored
  BY <1>0 DEF Popped, Range
<1> DEFINE U == Node \ colored
<1>2. Avoids(succ, U, target)
  BY <1>0, <1>1 DEF Avoids, ColoredExact, Graph
<1>3. \A n \in Node : n \in colored <=> OnAllMaxPaths(succ, n, target)
  BY <1>0, <1>2 DEF OnAllMaxPaths, ColoringSound
<1>4. \A p \in Node : Counting!Split(p) <=> NTSCDependent(succ, target, p)
  BY <1>0, <1>3 DEF Counting!Split, NTSCDependent, IsPredicate, Graph
<1> QED
  BY <1>3, <1>4

LEMMA CollectCounting ==
  ASSUME CountingInv, Counting!Collect PROVE CountingInv'
<1>0. target \in Node /\ CD \in [Node -> SUBSET Node] /\ succ' = succ
  BY DEF CountingInv, Counting!Collect, Counting!waveVars
<1>1. ASSUME NEW t \in Node, t < target', ~Counting!Returns(t)'
      PROVE  CD'[t] = {p \in Node : NTSCDependent(succ', t, p)}
  <2>1. ~Counting!Returns(t)
    BY <1>0, <1>1 DEF Counting!Returns
  <2>2. CASE t = target
    BY <1>0, <2>1, <2>2, CollectExact DEF Counting!Collect
  <2>3. CASE t < target
    BY <1>0, <2>1, <2>3 DEF CountingInv, Counting!Collect,
       Counting!ComputesNTSCDUnlessReturns, Node
  <2> QED
    BY <1>0, <1>1, <2>2, <2>3 DEF Counting!Collect, Node
<1>2. CD' \in [Node -> SUBSET Node]
  BY <1>0 DEF Counting!Collect
<1>3. /\ pc' \in {"target", "search", "done"} /\ target' \in 1 .. N + 1
      /\ pc' # "done" => target' \in Node
      /\ pc' # "search"
  BY <1>0, NAssumption DEF Counting!Collect, Node
<1> QED
  BY <1>1, <1>2, <1>3 DEF CountingInv, SearchInv, Counting!Collect,
     Counting!waveVars, Counting!ComputesNTSCDUnlessReturns

LEMMA NextCounting ==
  ASSUME CountersFit, CountingInv, [Counting!Next]_Counting!vars
  PROVE  CountingInv'
<1>1. CASE UNCHANGED Counting!vars
  BY <1>1 DEF CountingInv, SearchInv, QueueDistinct, CountersExact,
     ColoredExact, ColoringSound, Popped, Counting!Returns,
     Counting!ComputesNTSCDUnlessReturns, Counting!vars, Counting!waveVars
<1> QED
  BY <1>1, StartTargetCounting, PopCounting, CollectCounting
     DEF Counting!Next, Counting!Done

-----------------------------------------------------------------------------
(* What runs is this algorithm only.                                       *)
NTSCD2Inv == option = "ntscd2" => CountingInv

LEMMA InitNTSCD2Inv == Init => NTSCD2Inv
<1> SUFFICES ASSUME Init PROVE NTSCD2Inv
  OBVIOUS
<1>1. CASE InitNTSCD2
  BY <1>1, InitCounting DEF InitNTSCD2, NTSCD2Inv
<1>2. CASE InitNTSCD \/ InitRanganath \/ InitClosure
  BY <1>2 DEF InitNTSCD, InitRanganath, InitClosure, NTSCD2Inv
<1> QED
  BY <1>1, <1>2 DEF Init

LEMMA NextNTSCD2Inv ==
  ASSUME CountersFit, NTSCD2Inv, [Next]_vars PROVE NTSCD2Inv'
<1>1. CASE RunNTSCD2
  BY <1>1, NextCounting DEF RunNTSCD2, NTSCD2Inv
<1>2. CASE RunNTSCD \/ RunRanganath \/ RunClosure
  BY <1>2 DEF RunNTSCD, RunRanganath, RunClosure, NTSCD2Inv
<1>3. CASE UNCHANGED vars
  <2>1. option' = option /\ UNCHANGED Counting!vars
    BY <1>3 DEF vars, waveVars, Counting!vars, Counting!waveVars
  <2> QED
    BY <2>1, NextCounting DEF NTSCD2Inv
<1> QED
  BY <1>1, <1>2, <1>3 DEF Next

(* Where the options ask for ntscd2, the result is exactly non-termination *)
(* sensitive control dependence, on every graph in which no node has 2^16  *)
(* successors, for every target whose successors do not all lead back to   *)
(* it: a target that is popped twice is counted down twice.                *)
THEOREM NTSCD2Correct ==
  ASSUME CountersFit PROVE Spec => []ComputesNTSCDUnlessReturns
<1>1. NTSCD2Inv => ComputesNTSCDUnlessReturns
  BY DEF NTSCD2Inv, CountingInv, ComputesNTSCDUnlessReturns
<1>2. NTSCD2Inv /\ [Next]_vars => NTSCD2Inv'
  BY NextNTSCD2Inv
<1> QED
  BY <1>1, <1>2, InitNTSCD2Inv, PTL DEF Spec

-----------------------------------------------------------------------------
(* The set closeSet closes: its graph and counters are those of NTSCD2.    *)
LEMMA ClosureNotions ==
  /\ Closure!Node = Node
  /\ Closure!Graph = Graph
  /\ \A A : Closure!Cardinality(A) = Cardinality(A)
  /\ \A G, n : Closure!Preds(G, n) = Preds(G, n)
  /\ \A A : Closure!SetToSeqs(A) = SetToSeqs(A)
  /\ Closure!CounterModulus = Counting!CounterModulus
BY DEF Closure!Node, Node, Closure!Graph, Graph, Closure!Cardinality,
       Cardinality, Closure!Preds, Preds, Closure!SetToSeqs, SetToSeqs,
       Closure!CounterModulus, Counting!CounterModulus

USE ClosureNotions

(* The nodes of B are not in X, and the only way out of B is to w.         *)
Confined(B, w) == B \cap X = {} /\ \A n \in B : succ[n] \subseteq B \cup {w}

(* gamma: an uncoloured node counts at least one and at most all of its    *)
(* successors that have not been popped, and colours do not get into a set *)
(* but through the way out of it.                                          *)
GammaInv ==
  pc # "round" =>
    /\ queue \in Seq(Node)
    /\ Range(queue) \subseteq colored
    /\ X \subseteq colored
    /\ \A n \in Node \ colored : succ[n] # {} =>
         1 <= counter[n] /\ counter[n] <= Cardinality(succ[n] \ Popped)
    /\ \A B \in SUBSET Node : \A w \in Node \ colored :
         Confined(B, w) => B \cap colored = {}
    /\ pc # "gamma" => queue = <<>>

(* The walk over the edges: what has been looked at distinguishes no edge, *)
(* and its successors will be looked at; all of it is reachable from X.    *)
ScanInv ==
  pc # "round" =>
    /\ scan \in Seq(Node)
    /\ seen \in SUBSET Node
    /\ Range(scan) \subseteq seen
    /\ \A n \in X : succ[n] \subseteq seen
    /\ \A n \in seen \ Range(scan) :
         succ[n] \subseteq seen
         /\ \A r \in succ[n] : ~Closure!Distinguishes(n, r)
    /\ \A C \in SUBSET Node : Closure!Walks({}, X, C) => seen \subseteq C
    /\ pc = "gamma" => seen = Range(scan)
    /\ pc = "done" => scan = <<>>

ClosureInv ==
  /\ succ \in Inputs
  /\ X \in SUBSET Node
  /\ colored \in SUBSET Node
  /\ counter \in [Node -> Nat]
  /\ pc \in {"round", "gamma", "scan", "done"}
  /\ GammaInv
  /\ ScanInv
  /\ Closure!InsideEveryClosure

-----------------------------------------------------------------------------
(* The elements of a stack that is popped, and pushed to.                  *)
LEMMA StackElements ==
  ASSUME NEW q \in Seq(Node), q # <<>>
  PROVE  /\ Tail(q) \in Seq(Node)
         /\ Head(q) \in Range(q)
         /\ Range(q) = Range(Tail(q)) \cup {Head(q)}
<1>1. /\ Tail(q) \in Seq(Node) /\ Len(q) \in Nat \ {0}
      /\ Len(Tail(q)) = Len(q) - 1
      /\ \A i \in 1 .. Len(Tail(q)) : Tail(q)[i] = q[i + 1]
      /\ Head(q) = q[1]
  BY HeadTailProperties, EmptySeq
<1>2. /\ Range(q) = {q[i] : i \in 1 .. Len(q)}
      /\ Range(Tail(q)) = {Tail(q)[i] : i \in 1 .. Len(Tail(q))}
  BY <1>1, LenProperties DEF Range
<1>3. Head(q) \in Range(q)
  BY <1>1, <1>2
<1>4. ASSUME NEW x \in Range(Tail(q)) PROVE x \in Range(q)
  <2>1. PICK i \in 1 .. Len(Tail(q)) : x = Tail(q)[i]
    BY <1>2
  <2>2. x = q[i + 1] /\ i + 1 \in 1 .. Len(q)
    BY <1>1, <2>1
  <2> QED
    BY <1>2, <2>2
<1>5. ASSUME NEW x \in Range(q), x # Head(q) PROVE x \in Range(Tail(q))
  <2>1. PICK i \in 1 .. Len(q) : x = q[i]
    BY <1>2
  <2>2. i # 1
    BY <1>1, <1>5, <2>1
  <2>3. i - 1 \in 1 .. Len(Tail(q)) /\ (i - 1) + 1 = i
    BY <1>1, <2>2
  <2>4. x = Tail(q)[i - 1]
    BY <1>1, <2>1, <2>3
  <2> QED
    BY <1>2, <2>3, <2>4
<1> QED
  BY <1>1, <1>3, <1>4, <1>5

LEMMA PushedElements ==
  ASSUME NEW A \in SUBSET Node, NEW order \in SetToSeqs(A), NEW q \in Seq(Node)
  PROVE  order \o q \in Seq(Node) /\ Range(order \o q) = A \cup Range(q)
BY SetToSeqsElements, RangeConcatenation, ConcatProperties

-----------------------------------------------------------------------------
(* A walk visits the least set that holds where it begins and what follows.*)
LEMMA WalkedFacts ==
  ASSUME succ \in Graph, NEW M, NEW From \in SUBSET Node
  PROVE  /\ Closure!Walked(M, From) \in SUBSET Node
         /\ Closure!Walks(M, From, Closure!Walked(M, From))
         /\ \A C \in SUBSET Node :
              Closure!Walks(M, From, C) => Closure!Walked(M, From) \subseteq C
<1> DEFINE W == Closure!Walked(M, From)
<1>1. W \in SUBSET Node /\ From \subseteq W
  BY DEF Closure!Walked, Closure!Walks
<1>2. ASSUME NEW m \in W \ M, NEW s \in succ[m] PROVE s \in W
  <2>1. m \in Node /\ s \in Node
    BY <1>1, <1>2 DEF Graph
  <2>2. ASSUME NEW C \in SUBSET Node, Closure!Walks(M, From, C) PROVE s \in C
    <3>1. m \in C
      BY <1>2, <2>2 DEF Closure!Walked
    <3> QED
      BY <1>2, <2>2, <3>1 DEF Closure!Walks
  <2> QED
    BY <2>1, <2>2 DEF Closure!Walked
<1>3. \A C \in SUBSET Node : Closure!Walks(M, From, C) => W \subseteq C
  BY DEF Closure!Walked
<1> QED
  BY <1>1, <1>2, <1>3 DEF Closure!Walks

(* After gamma an uncoloured node ends a path or leads to another one.     *)
LEMMA UncoloredStuck ==
  ASSUME ClosureInv, pc \in {"scan", "done"}, NEW n \in Node \ colored
  PROVE  succ[n] = {} \/ \E s \in succ[n] : s \notin colored
<1>1. /\ succ \in Graph /\ queue = <<>>
      /\ succ[n] # {} =>
           1 <= counter[n] /\ counter[n] <= Cardinality(succ[n] \ Popped)
  BY InputsAssumption DEF ClosureInv, GammaInv
<1>2. Popped = colored
  BY <1>1 DEF Popped, Range
<1>3. IsFiniteSet(succ[n] \ colored) /\ Cardinality(succ[n] \ colored) \in Nat
  BY <1>1, NodeSetsFinite DEF Graph
<1>4. ASSUME succ[n] # {} PROVE succ[n] \ colored # {}
  <2>1. counter[n] \in Nat
    BY DEF ClosureInv
  <2>2. Cardinality(succ[n] \ colored) # 0
    BY <1>1, <1>2, <1>3, <1>4, <2>1
  <2> QED
    BY <1>3, <2>2, FS_EmptySet
<1> QED
  BY <1>4

(* A set that one can only leave through w, which X is met behind: a node  *)
(* of it finds nothing else first than w does.                             *)
LEMMA ConfinedMeets ==
  ASSUME succ \in Graph, X \in SUBSET Node,
         NEW B \in SUBSET Node, NEW w \in Node \ X, Confined(B, w),
         NEW r \in B \cup {w}, Closure!Theta(X, r) # {}
  PROVE  Closure!Walked(X, succ[w]) \cap X \subseteq Closure!Theta(X, r)
<1> DEFINE Wr == Closure!Walked(X, succ[r])
           Ww == Closure!Walked(X, succ[w])
<1>1. r \in Node /\ r \notin X /\ succ[r] \in SUBSET Node
      /\ succ[w] \in SUBSET Node
  BY DEF Graph, Confined
<1>2. /\ Wr \in SUBSET Node /\ Closure!Walks(X, succ[r], Wr)
      /\ \A C \in SUBSET Node : Closure!Walks(X, succ[r], C) => Wr \subseteq C
      /\ Ww \in SUBSET Node
      /\ \A C \in SUBSET Node : Closure!Walks(X, succ[w], C) => Ww \subseteq C
  BY <1>1, WalkedFacts
<1>3. Closure!Theta(X, r) = Wr \cap X
  BY <1>1 DEF Closure!Theta
<1>4. CASE r = w
  BY <1>3, <1>4
<1>5. CASE r # w /\ w \in Wr
  <2>1. Closure!Walks(X, succ[w], Wr)
    BY <1>2, <1>5 DEF Closure!Walks
  <2> QED
    BY <1>2, <1>3, <2>1
<1>6. CASE r # w /\ w \notin Wr
  <2>1. Closure!Walks(X, succ[r], Wr \cap B)
    BY <1>2, <1>6 DEF Closure!Walks, Confined
  <2>2. Wr \subseteq B
    BY <1>2, <2>1
  <2> QED
    BY <1>3, <2>2 DEF Confined
<1> QED
  BY <1>4, <1>5, <1>6

(* The key to InsideEveryClosure: an edge whose two ends are distinguished *)
(* begins in every strongly control-closed set around X.                   *)
LEMMA DistinguishedInside ==
  ASSUME ClosureInv, pc = "scan",
         NEW T \in SUBSET Node, X \subseteq T, Closure!StronglyClosed(T),
         NEW p \in seen, NEW r \in succ[p], Closure!Distinguishes(p, r)
  PROVE  p \in T
<1> SUFFICES ASSUME p \notin T PROVE FALSE
  OBVIOUS
<1> DEFINE V == Closure!Walked(T, succ[p])
<1>0. /\ succ \in Graph /\ X \in SUBSET Node /\ X \subseteq colored
      /\ p \in Node /\ p \notin X /\ r \in Node /\ succ[p] \in SUBSET Node
      /\ \A n \in Node : succ[n] \in SUBSET Node
  BY InputsAssumption DEF ClosureInv, GammaInv, ScanInv, Graph
<1>1. /\ Cardinality(Closure!Theta(X, r)) = 1
      /\ r \in colored
      /\ Cardinality(Closure!Theta(X, p)) >= 2 \/ p \notin colored
  BY <1>0 DEF Closure!Distinguishes, Closure!Gamma
<1>2. Closure!Theta(X, r) \in SUBSET Node /\ Closure!Theta(X, r) # {}
  <2>1. Closure!Theta(X, r) \in SUBSET Node
    BY <1>0, WalkedFacts DEF Closure!Theta
  <2> QED
    BY <1>1, <2>1, FS_EmptySet
<1>3. /\ V \in SUBSET Node
      /\ succ[p] \subseteq V
      /\ \A m \in V \ T : succ[m] \subseteq V
  BY <1>0, WalkedFacts DEF Closure!Walks
<1>4. Closure!Theta(T, p) = V \cap T
  BY DEF Closure!Theta
<1>5. Closure!Theta(T, p) = {}
      \/ (Cardinality(Closure!Theta(T, p)) = 1 /\ ~Closure!CanAvoid(T, p))
  <2>1. \A C \in SUBSET Node : Closure!Walks({}, T, C) => p \in C
    BY DEF ClosureInv, ScanInv, Closure!Walks
  <2>2. p \in Closure!Walked({}, T)
    BY <1>0, <2>1 DEF Closure!Walked
  <2> QED
    BY <2>2 DEF Closure!StronglyClosed
<1>6. CASE V \cap T = {}
  <2>1. r \notin X /\ Closure!Walks(X, succ[r], V)
    BY <1>3, <1>6 DEF Closure!Walks
  <2>2. Closure!Walked(X, succ[r]) \subseteq V
    BY <1>0, <1>3, <2>1, WalkedFacts
  <2>3. Closure!Theta(X, r) = {}
    BY <1>6, <2>1, <2>2 DEF Closure!Theta
  <2> QED
    BY <1>2, <2>3
<1>7. CASE V \cap T # {}
  <2>1. ~Closure!CanAvoid(T, p) /\ \E w : V \cap T = {w}
    <3>1. IsFiniteSet(V \cap T)
      BY <1>3, NodeSetsFinite
    <3> QED
      BY <1>4, <1>5, <1>7, <3>1, FS_Singleton
  <2>2. PICK w : V \cap T = {w}
    BY <2>1
  <2> DEFINE B == {p} \cup (V \ {w})
  <2>3. B \in SUBSET Node /\ B \cap T = {} /\ p \in B /\ w \in Node
        /\ r \in B \cup {w}
    BY <1>0, <1>3, <2>2
  <2>4. Confined(B, w)
    BY <1>3, <2>2, <2>3 DEF Confined
  <2>5. w \in colored
    BY <1>1, <2>3, <2>4 DEF ClosureInv, GammaInv
  <2>6. p \in colored
    <3> SUFFICES ASSUME p \notin colored PROVE Closure!CanAvoid(T, p)
      BY <2>1
    <3> DEFINE A == B \ colored
    <3>1. A \in SUBSET (Node \ T) /\ p \in A
      BY <2>3
    <3>2. ASSUME NEW a \in A PROVE succ[a] = {} \/ succ[a] \cap A # {}
      BY <2>3, <2>4, <2>5, UncoloredStuck DEF Confined
    <3> QED
      BY <3>1, <3>2 DEF Closure!CanAvoid
  <2>7. ASSUME NEW M \in SUBSET Node, Closure!Theta(X, p) \subseteq M,
               Cardinality(M) = 1
        PROVE  FALSE
    <3>1. Cardinality(Closure!Theta(X, p)) <= Cardinality(M)
          /\ Cardinality(Closure!Theta(X, p)) \in Nat
      BY <2>7, NodeSetsFinite, FS_Subset
    <3> QED
      BY <1>1, <2>6, <2>7, <3>1
  <2>8. Closure!Theta(X, p) = Closure!Walked(X, succ[p]) \cap X
    BY <1>0 DEF Closure!Theta
  <2>9. CASE w \in X
    <3>1. Closure!Walks(X, succ[p], V)
      BY <1>3, <2>2, <2>9 DEF Closure!Walks
    <3>2. Closure!Walked(X, succ[p]) \subseteq V
      BY <1>0, <1>3, <3>1, WalkedFacts
    <3>3. Closure!Theta(X, p) \subseteq {w}
      BY <2>2, <2>8, <3>2
    <3>4. {w} \in SUBSET Node /\ Cardinality({w}) = 1
      BY <2>3, FS_Singleton
    <3> QED
      BY <2>7, <3>3, <3>4
  <2>10. CASE w \notin X
    <3> DEFINE Ww == Closure!Walked(X, succ[w])
    <3>1. Ww \in SUBSET Node /\ Closure!Walks(X, succ[w], Ww)
      BY <1>0, <2>3, WalkedFacts
    <3>2. Closure!Walks(X, succ[p], V \cup Ww)
      BY <1>3, <2>2, <2>10, <3>1 DEF Closure!Walks
    <3>3. Closure!Walked(X, succ[p]) \subseteq V \cup Ww
      BY <1>0, <1>3, <3>1, <3>2, WalkedFacts
    <3>4. V \cap X = {}
      BY <2>2, <2>10
    <3>5. Closure!Theta(X, p) \subseteq Ww \cap X
      BY <2>8, <3>3, <3>4
    <3>6. Ww \cap X \subseteq Closure!Theta(X, r)
      BY <1>0, <1>2, <2>3, <2>4, <2>10, ConfinedMeets
    <3> QED
      BY <1>1, <1>2, <2>7, <3>5, <3>6
  <2> QED
    BY <2>9, <2>10
<1> QED
  BY <1>6, <1>7

(* The end: nothing that is reachable from X distinguishes an edge.        *)
LEMMA ClosedAtEnd == ASSUME ClosureInv PROVE Closure!ClosedWhereGammaExact
<1> SUFFICES ASSUME pc = "done",
                    Closure!Gamma = {n \in Node : Closure!CanAvoid(X, n)},
                    NEW n \in Closure!Walked({}, X), Closure!Theta(X, n) # {}
             PROVE  Cardinality(Closure!Theta(X, n)) = 1
                    /\ ~Closure!CanAvoid(X, n)
  BY DEF Closure!ClosedWhereGammaExact, Closure!StronglyClosed
<1>0. /\ succ \in Graph /\ X \in SUBSET Node /\ X \subseteq colored
      /\ seen \in SUBSET Node
      /\ \A m \in X : succ[m] \subseteq seen
      /\ \A m \in Node : succ[m] \in SUBSET Node
  BY InputsAssumption DEF ClosureInv, GammaInv, ScanInv, Graph
<1>1. \A m \in seen :
        /\ succ[m] \subseteq seen
        /\ \A r \in succ[m] : ~Closure!Distinguishes(m, r)
  BY DEF ClosureInv, ScanInv, Range
<1>2. n \in Node /\ n \in X \cup seen
  <2>1. Closure!Walks({}, X, X \cup seen)
    BY <1>0, <1>1 DEF Closure!Walks
  <2> QED
    BY <1>0, <2>1 DEF Closure!Walked
<1> DEFINE Good(m) ==
             Cardinality(Closure!Theta(X, m)) = 1 /\ m \notin Closure!Gamma
<1>3. \A m \in X : Good(m)
  BY <1>0, FS_Singleton DEF Closure!Theta, Closure!Gamma
<1>4. ASSUME NEW m \in seen \ X, ~Good(m), NEW r \in succ[m] PROVE ~Good(r)
  <2> SUFFICES ASSUME Good(r) PROVE FALSE
    OBVIOUS
  <2>1. Cardinality(Closure!Theta(X, m)) < 2 /\ m \notin Closure!Gamma
    <3>1. Cardinality(Closure!Theta(X, m)) \in Nat
      BY <1>0, WalkedFacts, NodeSetsFinite DEF Closure!Theta
    <3>2. ~(Cardinality(Closure!Theta(X, m)) >= 2 \/ m \in Closure!Gamma)
      BY <1>1, <1>4 DEF Closure!Distinguishes
    <3> QED
      BY <3>1, <3>2
  <2>2. r \in Node /\ Closure!Theta(X, r) # {}
    <3>1. r \in Node /\ Cardinality(Closure!Theta(X, r)) = 1
      BY <1>0, <1>4
    <3>2. Cardinality({}) = 0
      BY FS_EmptySet
    <3> QED
      BY <3>1, <3>2
  <2>3. Closure!Theta(X, m) # {}
    <3>1. /\ Closure!Theta(X, m) = Closure!Walked(X, succ[m]) \cap X
          /\ Closure!Walked(X, succ[m]) \in SUBSET Node
          /\ Closure!Walks(X, succ[m], Closure!Walked(X, succ[m]))
      BY <1>0, <1>4, WalkedFacts DEF Closure!Theta
    <3>2. r \in Closure!Walked(X, succ[m])
      BY <3>1 DEF Closure!Walks
    <3>3. CASE r \in X
      BY <3>1, <3>2, <3>3
    <3>4. CASE r \notin X
      <4>1. Closure!Walks(X, succ[r], Closure!Walked(X, succ[m]))
        BY <3>1, <3>2, <3>4 DEF Closure!Walks
      <4>2. Closure!Walked(X, succ[r]) \subseteq Closure!Walked(X, succ[m])
        BY <1>0, <2>2, <3>1, <4>1, WalkedFacts
      <4>3. Closure!Theta(X, r) = Closure!Walked(X, succ[r]) \cap X
        BY <3>4 DEF Closure!Theta
      <4> QED
        BY <2>2, <3>1, <4>2, <4>3
    <3> QED
      BY <3>3, <3>4
  <2>4. IsFiniteSet(Closure!Theta(X, m))
        /\ Cardinality(Closure!Theta(X, m)) \in Nat
    BY <1>0, <1>4, WalkedFacts, NodeSetsFinite DEF Closure!Theta
  <2>5. Cardinality(Closure!Theta(X, m)) # 0
    BY <2>3, <2>4, FS_EmptySet
  <2> QED
    BY <1>4, <2>1, <2>4, <2>5
<1>5. Good(n)
  <2> SUFFICES ASSUME ~Good(n) PROVE FALSE
    OBVIOUS
  <2> DEFINE Bad == {m \in seen \ X : ~Good(m)}
  <2>1. n \in Bad /\ Bad \in SUBSET Node
    BY <1>0, <1>2, <1>3
  <2>2. \A m \in Bad : succ[m] \subseteq Bad
    BY <1>1, <1>3, <1>4
  <2> HIDE DEF Good
  <2>3. Closure!Walks(X, succ[n], Bad)
    BY <2>1, <2>2 DEF Closure!Walks
  <2>4. Closure!Walked(X, succ[n]) \subseteq Bad
    BY <1>0, <1>2, <2>1, <2>3, WalkedFacts
  <2>5. n \notin X /\ Bad \cap X = {}
    BY <2>1
  <2>6. Closure!Theta(X, n) = {}
    BY <2>4, <2>5 DEF Closure!Theta
  <2> QED
    BY <2>6
<1> QED
  BY <1>2, <1>5

-----------------------------------------------------------------------------
LEMMA InitClosureInv == Closure!Init => ClosureInv
BY DEF Closure!Init, Closure!WaveInit, ClosureInv, GammaInv, ScanInv,
       Closure!InsideEveryClosure

(* What does not depend on the wave.                                       *)
LEMMA InsideUnchanged ==
  ASSUME Closure!InsideEveryClosure, UNCHANGED <<succ, nodes, X>>
  PROVE  Closure!InsideEveryClosure'
<1>1. \A T : Closure!StronglyClosed(T)' <=> Closure!StronglyClosed(T)
  BY DEF Closure!StronglyClosed, Closure!Theta, Closure!Walked, Closure!Walks,
         Closure!CanAvoid
<1> QED
  BY <1>1 DEF Closure!InsideEveryClosure

(* A round begins: nothing has been popped, and only X is coloured.        *)
LEMMA StartRoundClosure ==
  ASSUME CountersFit, ClosureInv, Closure!StartRound PROVE ClosureInv'
<1> DEFINE F == UNION {succ[n] : n \in X}
<1>0. /\ succ \in Graph /\ succ \in Inputs /\ X \in SUBSET Node
      /\ F \in SUBSET Node
      /\ UNCHANGED <<succ, nodes, X>> /\ pc' = "gamma" /\ colored' = X
      /\ counter' =
           [n \in Node |-> Cardinality(succ[n]) % Counting!CounterModulus]
      /\ seen' = F
  BY InputsAssumption DEF ClosureInv, Closure!StartRound, Closure!WaveStart,
     Closure!PushAll, Graph
<1>1. PICK order \in SetToSeqs(X) : queue' = order
  BY DEF Closure!StartRound, Closure!WaveStart
<1>2. queue' \in Seq(Node) /\ Range(queue') = X
  BY <1>0, <1>1, SetToSeqsElements
<1>3. PICK walk \in SetToSeqs(F \ {}) : scan' = walk \o <<>>
  BY DEF Closure!StartRound, Closure!PushAll
<1>4. scan' \in Seq(Node) /\ Range(scan') = F
  <2>1. F \ {} = F /\ <<>> \in Seq(Node) /\ Range(<<>>) = {}
    BY EmptySeq DEF Range
  <2>2. walk \in SetToSeqs(F)
    BY <1>3, <2>1
  <2> HIDE DEF F
  <2>3. walk \o <<>> \in Seq(Node) /\ Range(walk \o <<>>) = F \cup Range(<<>>)
    BY <1>0, <2>1, <2>2, PushedElements
  <2> QED
    BY <1>3, <2>1, <2>3
<1>5. \A n \in Node :
        counter'[n] = Cardinality(succ[n]) /\ Cardinality(succ[n]) \in Nat
  <2> SUFFICES ASSUME NEW n \in Node
               PROVE  counter'[n] = Cardinality(succ[n])
                      /\ Cardinality(succ[n]) \in Nat
    OBVIOUS
  <2>1. Cardinality(succ[n]) \in Nat
    BY <1>0, NodeSetsFinite DEF Graph
  <2>2. Cardinality(succ[n]) < Counting!CounterModulus
    BY <1>0 DEF CountersFit
  <2> QED
    BY <1>0, <2>1, <2>2 DEF Counting!CounterModulus
<1>6. counter' \in [Node -> Nat]
  BY <1>0, <1>5
<1>7. ASSUME NEW n \in Node, succ[n] # {}
      PROVE  1 <= counter'[n] /\ counter'[n] <= Cardinality(succ[n] \ Popped')
  <2>1. Popped' = {} /\ succ[n] \ {} = succ[n]
    BY <1>0, <1>2 DEF Popped
  <2>2. IsFiniteSet(succ[n])
    BY <1>0, NodeSetsFinite DEF Graph
  <2>3. Cardinality(succ[n]) # 0
    BY <1>7, <2>2, FS_EmptySet
  <2>4. succ[n] \ Popped' = succ[n]
    BY <2>1
  <2>5. counter'[n] = Cardinality(succ[n]) /\ Cardinality(succ[n]) \in Nat
    BY <1>5
  <2>6. Cardinality(succ[n] \ Popped') = Cardinality(succ[n])
    BY <2>4
  <2> HIDE DEF F
  <2> QED
    BY <2>3, <2>5, <2>6
<1>8. GammaInv'
  <2>1. \A n \in Node \ colored' : succ'[n] # {} =>
          1 <= counter'[n] /\ counter'[n] <= Cardinality(succ'[n] \ Popped')
    BY <1>0, <1>7
  <2>2. \A B \in SUBSET Node : \A w \in Node \ colored' :
          Confined(B, w)' => B \cap colored' = {}
    BY <1>0 DEF Confined
  <2>3. Range(queue') \subseteq colored' /\ X' \subseteq colored'
        /\ pc' = "gamma"
    BY <1>0, <1>2
  <2> QED
    BY <1>2, <2>1, <2>2, <2>3 DEF GammaInv
<1>9. ScanInv'
  BY <1>0, <1>4 DEF ScanInv, Closure!Walks
<1>10. Closure!InsideEveryClosure'
  BY <1>0, InsideUnchanged DEF ClosureInv
<1> QED
  BY <1>0, <1>6, <1>8, <1>9, <1>10 DEF ClosureInv

(* A pop counts each of its predecessors down by one; those it colours lead*)
(* to the popped node, which was coloured before.                          *)
LEMMA PopGamma == ASSUME CountersFit, ClosureInv, Closure!Pop PROVE GammaInv'
<1> DEFINE node == Head(queue)
           preds == Preds(succ, node)
           zero == {p \in preds : Closure!Decremented(p) = 0}
<1>0. /\ succ \in Graph /\ succ \in Inputs /\ colored \in SUBSET Node
      /\ pc = "gamma" /\ queue # <<>> /\ UNCHANGED <<succ, X, pc>>
      /\ queue \in Seq(Node) /\ Range(queue) \subseteq colored
      /\ X \subseteq colored
      /\ counter \in [Node -> Nat]
  BY InputsAssumption DEF ClosureInv, GammaInv, Closure!Pop
<1>1. /\ counter' = [p \in Node |-> IF p \in preds THEN Closure!Decremented(p)
                                                   ELSE counter[p]]
      /\ colored' = colored \cup zero
      /\ \E order \in SetToSeqs(zero) : queue' = order \o Tail(queue)
  BY DEF Closure!Pop, Closure!WavePop
<1>2. preds \subseteq Node /\ zero \in SUBSET Node
  BY DEF Preds
<1>3. /\ Tail(queue) \in Seq(Node) /\ node \in Range(queue) /\ node \in colored
      /\ Range(queue) = Range(Tail(queue)) \cup {node}
  BY <1>0, StackElements
<1>4. queue' \in Seq(Node) /\ Range(queue') = zero \cup Range(Tail(queue))
  <2>1. PICK order \in SetToSeqs(zero) : queue' = order \o Tail(queue)
    BY <1>1
  <2> HIDE DEF zero
  <2>2. /\ order \o Tail(queue) \in Seq(Node)
        /\ Range(order \o Tail(queue)) = zero \cup Range(Tail(queue))
    BY <1>2, <1>3, <2>1, PushedElements
  <2> QED
    BY <2>1, <2>2
<1>5. Popped' \subseteq Popped \cup {node}
  BY <1>1, <1>3, <1>4 DEF Popped
<1>6. ASSUME NEW n \in Node \ colored', succ[n] # {}
      PROVE  1 <= counter'[n] /\ counter'[n] <= Cardinality(succ[n] \ Popped')
  <2>1. /\ n \in Node \ colored /\ n \notin zero
        /\ 1 <= counter[n] /\ counter[n] <= Cardinality(succ[n] \ Popped)
        /\ counter[n] \in Nat
    BY <1>0, <1>1, <1>6 DEF ClosureInv, GammaInv
  <2>2. /\ succ[n] \in SUBSET Node
        /\ succ[n] \ Popped \in SUBSET Node
        /\ succ[n] \ Popped' \in SUBSET Node
        /\ (succ[n] \ Popped) \ {node} \in SUBSET Node
    BY <1>0 DEF Graph
  <2>3. /\ IsFiniteSet(succ[n] \ Popped)
        /\ Cardinality(succ[n] \ Popped) \in Nat
        /\ IsFiniteSet(succ[n] \ Popped')
        /\ Cardinality(succ[n] \ Popped') \in Nat
        /\ IsFiniteSet(succ[n]) /\ Cardinality(succ[n]) \in Nat
    BY <2>2, NodeSetsFinite
  <2>4. Cardinality((succ[n] \ Popped) \ {node})
          <= Cardinality(succ[n] \ Popped')
    BY <1>5, <2>3, FS_Subset
  <2>5. CASE n \in preds
    <3>1. node \in succ[n] \ Popped
      BY <1>3, <2>5 DEF Preds, Popped
    <3>2. Cardinality((succ[n] \ Popped) \ {node})
            = Cardinality(succ[n] \ Popped) - 1
      BY <2>3, <3>1, FS_RemoveElement
    <3>3. Cardinality(succ[n] \ Popped) <= Cardinality(succ[n])
      BY <2>3, FS_Subset
    <3>4. Cardinality(succ[n]) < Counting!CounterModulus
      BY <1>0, <2>1 DEF CountersFit
    <3>5. counter[n] < Counting!CounterModulus
      BY <2>1, <2>3, <3>3, <3>4 DEF Counting!CounterModulus
    <3>6. Closure!Decremented(n) = counter[n] - 1
      BY <2>1, <3>5 DEF Closure!Decremented, Counting!CounterModulus
    <3>7. counter'[n] = Closure!Decremented(n) /\ Closure!Decremented(n) # 0
      BY <1>1, <2>1, <2>5
    <3> QED
      BY <2>1, <2>3, <2>4, <3>2, <3>6, <3>7
  <2>6. CASE n \notin preds
    <3>1. (succ[n] \ Popped) \ {node} = succ[n] \ Popped
      BY <2>6 DEF Preds
    <3>2. counter'[n] = counter[n]
      BY <1>1, <2>6
    <3> QED
      BY <2>1, <2>3, <2>4, <3>1, <3>2
  <2> QED
    BY <2>5, <2>6
<1>7. ASSUME NEW B \in SUBSET Node, NEW w \in Node \ colored', Confined(B, w)
      PROVE  B \cap colored' = {}
  <2>1. w \in Node \ colored /\ B \cap colored = {}
    BY <1>0, <1>1, <1>7 DEF ClosureInv, GammaInv
  <2>2. ASSUME NEW p \in B \cap zero PROVE FALSE
    <3>1. node \in succ[p] /\ succ[p] \subseteq B \cup {w}
      BY <1>7, <2>2 DEF Preds, Confined
    <3> QED
      BY <1>3, <2>1, <3>1
  <2> QED
    BY <1>1, <2>1, <2>2
<1>8. Range(queue') \subseteq colored' /\ X' \subseteq colored'
  BY <1>0, <1>1, <1>3, <1>4
<1>9. \A n \in Node \ colored' : succ'[n] # {} =>
        1 <= counter'[n] /\ counter'[n] <= Cardinality(succ'[n] \ Popped')
  BY <1>0, <1>6
<1>10. \A B \in SUBSET Node : \A w \in Node \ colored' :
         Confined(B, w)' => B \cap colored' = {}
  <2>1. \A B \in SUBSET Node : \A w \in Node :
          Confined(B, w)' <=> Confined(B, w)
    BY <1>0 DEF Confined
  <2> QED
    BY <1>7, <2>1
<1> QED
  BY <1>0, <1>4, <1>8, <1>9, <1>10 DEF GammaInv

LEMMA PopClosure ==
  ASSUME CountersFit, ClosureInv, Closure!Pop PROVE ClosureInv'
<1>1. pc = "gamma" /\ UNCHANGED <<succ, nodes, X, pc, scan, seen>>
  BY DEF Closure!Pop
<1>2. colored' \in SUBSET Node /\ counter' \in [Node -> Nat]
  BY DEF ClosureInv, Closure!Pop, Closure!WavePop, Preds, Closure!Decremented,
         Counting!CounterModulus
<1>3. seen = Range(scan)
  BY <1>1 DEF ClosureInv, ScanInv
<1>4. ScanInv'
  BY <1>1, <1>3 DEF ClosureInv, ScanInv, Closure!Walks
<1> QED
  BY <1>1, <1>2, <1>4, PopGamma, InsideUnchanged DEF ClosureInv

LEMMA EndGammaClosure == ASSUME ClosureInv, Closure!EndGamma PROVE ClosureInv'
<1>1. /\ pc = "gamma" /\ pc' = "scan" /\ queue = <<>>
      /\ UNCHANGED <<succ, colored, counter, queue, nodes, X, scan, seen>>
  BY DEF Closure!EndGamma, Closure!waveVars
<1>2. GammaInv'
  BY <1>1 DEF ClosureInv, GammaInv, Popped, Confined
<1>3. seen = Range(scan)
  BY <1>1 DEF ClosureInv, ScanInv
<1>4. ScanInv'
  BY <1>1, <1>3 DEF ClosureInv, ScanInv, Closure!Walks
<1> QED
  BY <1>1, <1>2, <1>4, InsideUnchanged DEF ClosureInv

LEMMA AddClosure ==
  ASSUME ClosureInv, NEW p \in Node, Closure!Add(p) PROVE ClosureInv'
<1>1. /\ pc = "scan" /\ pc' = "round" /\ scan # <<>> /\ p = Head(scan)
      /\ X' = X \cup {p} /\ UNCHANGED <<succ, colored, counter, nodes>>
  BY DEF Closure!Add, Closure!waveVars
<1>2. p \in seen
  <2>1. scan \in Seq(Node) /\ Range(scan) \subseteq seen
    BY <1>1 DEF ClosureInv, ScanInv
  <2> QED
    BY <1>1, <2>1, StackElements
<1>3. PICK r \in succ[p] : Closure!Distinguishes(p, r)
  BY DEF Closure!Add
<1>4. ASSUME NEW T \in SUBSET Node, nodes \subseteq T,
             Closure!StronglyClosed(T)
      PROVE  X \cup {p} \subseteq T
  <2>1. X \subseteq T
    BY <1>4 DEF ClosureInv, Closure!InsideEveryClosure
  <2> QED
    BY <1>1, <1>2, <1>3, <1>4, <2>1, DistinguishedInside
<1>5. \A T : Closure!StronglyClosed(T)' <=> Closure!StronglyClosed(T)
  BY <1>1 DEF Closure!StronglyClosed, Closure!Theta, Closure!Walked,
     Closure!Walks, Closure!CanAvoid
<1>6. Closure!InsideEveryClosure'
  BY <1>1, <1>4, <1>5 DEF Closure!InsideEveryClosure
<1> QED
  BY <1>1, <1>6 DEF ClosureInv, GammaInv, ScanInv

LEMMA PassClosure ==
  ASSUME ClosureInv, NEW p \in Node, Closure!Pass(p) PROVE ClosureInv'
<1>0. /\ pc = "scan" /\ scan # <<>> /\ p = Head(scan) /\ succ \in Graph
      /\ \A r \in succ[p] : ~Closure!Distinguishes(p, r)
      /\ UNCHANGED <<succ, colored, counter, queue, nodes, X, pc>>
      /\ seen' = seen \cup succ[p]
      /\ scan \in Seq(Node) /\ seen \in SUBSET Node
      /\ Range(scan) \subseteq seen
      /\ succ[p] \in SUBSET Node
  BY InputsAssumption DEF Closure!Pass, Closure!PushAll, Closure!waveVars,
     ClosureInv, ScanInv, Graph
<1>1. PICK order \in SetToSeqs(succ[p] \ seen) : scan' = order \o Tail(scan)
  BY DEF Closure!Pass, Closure!PushAll
<1>2. /\ Tail(scan) \in Seq(Node) /\ p \in Range(scan)
      /\ Range(scan) = Range(Tail(scan)) \cup {p}
  BY <1>0, StackElements
<1>3. scan' \in Seq(Node)
      /\ Range(scan') = (succ[p] \ seen) \cup Range(Tail(scan))
  <2>1. succ[p] \ seen \in SUBSET Node
    BY <1>0
  <2> QED
    BY <1>1, <1>2, <2>1, PushedElements
<1>4. \A m, r : Closure!Distinguishes(m, r)' <=> Closure!Distinguishes(m, r)
  BY <1>0 DEF Closure!Distinguishes, Closure!Theta, Closure!Walked,
     Closure!Walks, Closure!Gamma
<1>5. ASSUME NEW n \in seen' \ Range(scan')
      PROVE  succ[n] \subseteq seen'
             /\ \A r \in succ[n] : ~Closure!Distinguishes(n, r)
  <2>1. CASE n = p
    BY <1>0, <2>1
  <2>2. CASE n # p
    <3>1. n \in seen \ Range(scan)
      BY <1>0, <1>2, <1>3, <1>5, <2>2
    <3> QED
      BY <1>0, <3>1 DEF ClosureInv, ScanInv
  <2> QED
    BY <2>1, <2>2
<1>6. ASSUME NEW C \in SUBSET Node, Closure!Walks({}, X, C)
      PROVE  seen' \subseteq C
  <2>1. seen \subseteq C
    BY <1>0, <1>6 DEF ClosureInv, ScanInv
  <2>2. p \in C
    BY <1>0, <1>2, <2>1
  <2>3. succ[p] \subseteq C
    BY <1>6, <2>2 DEF Closure!Walks
  <2> QED
    BY <1>0, <2>1, <2>3
<1>7. Range(scan') \subseteq seen' /\ seen' \in SUBSET Node
  BY <1>0, <1>2, <1>3
<1>8. \A n \in X' : succ'[n] \subseteq seen'
  BY <1>0 DEF ClosureInv, ScanInv
<1>9. \A C \in SUBSET Node :
        Closure!Walks({}, X, C)' <=> Closure!Walks({}, X, C)
  BY <1>0 DEF Closure!Walks
<1>10. ScanInv'
  BY <1>0, <1>3, <1>4, <1>5, <1>6, <1>7, <1>8, <1>9 DEF ScanInv
<1>11. GammaInv'
  BY <1>0 DEF ClosureInv, GammaInv, Popped, Confined
<1> QED
  BY <1>0, <1>10, <1>11, InsideUnchanged DEF ClosureInv

LEMMA ReturnClosure == ASSUME ClosureInv, Closure!Return PROVE ClosureInv'
<1>1. /\ pc = "scan" /\ pc' = "done" /\ scan = <<>>
      /\ UNCHANGED <<succ, colored, counter, queue, nodes, X, scan, seen>>
  BY DEF Closure!Return, Closure!waveVars
<1>2. GammaInv'
  BY <1>1 DEF ClosureInv, GammaInv, Popped, Confined
<1>3. \A m, r : Closure!Distinguishes(m, r)' <=> Closure!Distinguishes(m, r)
  BY <1>1 DEF Closure!Distinguishes, Closure!Theta, Closure!Walked,
     Closure!Walks, Closure!Gamma
<1>4. ScanInv'
  BY <1>1, <1>3 DEF ClosureInv, ScanInv, Closure!Walks
<1> QED
  BY <1>1, <1>2, <1>4, InsideUnchanged DEF ClosureInv

LEMMA StutterClosure ==
  ASSUME ClosureInv, UNCHANGED Closure!vars PROVE ClosureInv'
<1>1. UNCHANGED <<succ, colored, counter, queue, nodes, X, pc, scan, seen>>
  BY DEF Closure!vars, Closure!waveVars
<1>2. GammaInv'
  BY <1>1 DEF ClosureInv, GammaInv, Popped, Confined
<1>3. \A m, r : Closure!Distinguishes(m, r)' <=> Closure!Distinguishes(m, r)
  BY <1>1 DEF Closure!Distinguishes, Closure!Theta, Closure!Walked,
     Closure!Walks, Closure!Gamma
<1>4. ScanInv'
  BY <1>1, <1>3 DEF ClosureInv, ScanInv, Closure!Walks
<1> QED
  BY <1>1, <1>2, <1>4, InsideUnchanged DEF ClosureInv

LEMMA NextClosure ==
  ASSUME CountersFit, ClosureInv, [Closure!Next]_Closure!vars PROVE ClosureInv'
BY StartRoundClosure, PopClosure, EndGammaClosure, AddClosure, PassClosure,
   ReturnClosure, StutterClosure
   DEF Closure!Next, Closure!Done

-----------------------------------------------------------------------------
(* What runs is this algorithm only.                                       *)
StrongCCInv == option = "strongCC" => ClosureInv

LEMMA InitStrongCCInv == Init => StrongCCInv
<1> SUFFICES ASSUME Init PROVE StrongCCInv
  OBVIOUS
<1>1. CASE InitClosure
  BY <1>1, InitClosureInv DEF InitClosure, StrongCCInv
<1>2. CASE InitNTSCD \/ InitNTSCD2 \/ InitRanganath
  BY <1>2 DEF InitNTSCD, InitNTSCD2, InitRanganath, StrongCCInv
<1> QED
  BY <1>1, <1>2 DEF Init

LEMMA NextStrongCCInv ==
  ASSUME CountersFit, StrongCCInv, [Next]_vars PROVE StrongCCInv'
<1>1. CASE RunClosure
  BY <1>1, NextClosure DEF RunClosure, StrongCCInv
<1>2. CASE RunNTSCD \/ RunNTSCD2 \/ RunRanganath
  BY <1>2 DEF RunNTSCD, RunNTSCD2, RunRanganath, StrongCCInv
<1>3. CASE UNCHANGED vars
  <2>1. option' = option /\ UNCHANGED Closure!vars
    BY <1>3 DEF vars, waveVars, closureVars, Closure!vars, Closure!waveVars
  <2> QED
    BY <2>1, NextClosure DEF StrongCCInv
<1> QED
  BY <1>1, <1>2, <1>3 DEF Next

(* Where getClosure is called, for whatever graph and nodes, X stays       *)
(* inside of every strongly control-closed set with these nodes, and is    *)
(* one at the end if gamma has found all avoidable nodes.                  *)
THEOREM ClosureCorrect == ASSUME CountersFit PROVE Spec => []ClosesLeast
<1>1. StrongCCInv => ClosesLeast
  BY ClosedAtEnd DEF StrongCCInv, ClosureInv, ClosesLeast
<1>2. StrongCCInv /\ [Next]_vars => StrongCCInv'
  BY NextStrongCCInv
<1> QED
  BY <1>1, <1>2, InitStrongCCInv, PTL DEF Spec

=============================================================================
