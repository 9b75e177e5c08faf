--------------------------- MODULE OnAllPathsProofs --------------------------
(***************************************************************************)
(* DODRanganath::onallpaths answers right on every graph, for all its      *)
(* arguments and in whatever order it takes the successors of a node,      *)
(* although it never looks at a node twice.                                *)
(***************************************************************************)
EXTENDS OnAllPaths, SequenceTheorems, TLAPS

(* The nodes whose call has returned.                                      *)
Finished == visited \ onstack

(* The active calls: each node is a successor of its caller's, all of them *)
(* different from each other and from the goal; the outermost is from.     *)
StackChain ==
  /\ stack # <<>>
  /\ stack[Len(stack)].node = from
  /\ \A i \in 2 .. Len(stack) : stack[i - 1].node \in succ[stack[i].node]
  /\ \A i, j \in 1 .. Len(stack) : stack[i].node = stack[j].node => i = j
  /\ \A x \in Node : x \in onstack <=> \E i \in 1 .. Len(stack) : stack[i].node = x
  /\ goal \notin onstack
  /\ onstack \subseteq visited

(* What a loop over successors is through with is the goal, a node whose   *)
(* call has returned, or the node of the call it is waiting for.           *)
LoopsCovered ==
  \A i \in 1 .. Len(stack) :
    /\ succ[stack[i].node] # {}
    /\ stack[i].rest \subseteq succ[stack[i].node]
    /\ \A s \in succ[stack[i].node] \ stack[i].rest :
         s = goal \/ s \in Finished \/ (i > 1 /\ s = stack[i - 1].node)

(* A call that has returned, with true, was right.                         *)
FinishedGood == \A x \in Finished : OnAllMaxPaths(succ, x, goal)

Searching == StackChain /\ LoopsCovered /\ FinishedGood

IInv ==
  /\ succ \in Graph
  /\ from \in Node /\ goal \in Node
  /\ stack \in Seq(Frame)
  /\ onstack \in SUBSET Node
  /\ visited \in SUBSET Node
  /\ answer \in {"running", "yes", "no"}
  /\ answer = "running" => Searching
  /\ AnswerExact

-----------------------------------------------------------------------------
LEMMA GoalOnAllMaxPaths ==
  ASSUME NEW G, NEW t \in Node PROVE OnAllMaxPaths(G, t, t)
BY DEF OnAllMaxPaths, Avoids

(* A node cannot avoid what its successors cannot avoid.                   *)
LEMMA AllSuccessors ==
  ASSUME NEW G \in Graph, NEW n \in Node, NEW t \in Node, G[n] # {},
         \A s \in G[n] : OnAllMaxPaths(G, s, t)
  PROVE  OnAllMaxPaths(G, n, t)
BY DEF OnAllMaxPaths, Avoids, Graph

(* A stack with an element on top.                                         *)
LEMMA PushedStack ==
  ASSUME NEW f \in Frame, NEW t \in Seq(Frame)
  PROVE  /\ <<f>> \o t \in Seq(Frame)
         /\ <<f>> \o t # <<>>
         /\ Len(<<f>> \o t) = Len(t) + 1
         /\ (<<f>> \o t)[1] = f
         /\ \A i \in 2 .. Len(t) + 1 : (<<f>> \o t)[i] = t[i - 1]
<1>1. <<f>> \in Seq(Frame) /\ Len(<<f>>) = 1 /\ <<f>>[1] = f
  OBVIOUS
<1>2. Len(t) \in Nat
  BY LenProperties
<1>3. /\ <<f>> \o t \in Seq(Frame)
      /\ Len(<<f>> \o t) = Len(t) + 1
      /\ \A i \in 1 .. 1 + Len(t) :
           (<<f>> \o t)[i] = IF i <= 1 THEN <<f>>[i] ELSE t[i - 1]
  BY <1>1, <1>2, ConcatProperties
<1>4. <<f>> \o t # <<>>
  BY <1>2, <1>3, EmptySeq
<1> QED
  BY <1>1, <1>2, <1>3, <1>4

(* The loop of the innermost call takes a successor.                       *)
LEMMA PoppedStack ==
  ASSUME stack \in Seq(Frame), stack # <<>>, NEW s
  PROVE  /\ Len(stack) \in Nat \ {0}
         /\ Head(stack) = stack[1]
         /\ \A i \in 1 .. Len(stack) : stack[i] \in Frame
         /\ Popped(s) \in Seq(Frame)
         /\ Popped(s) # <<>>
         /\ Len(Popped(s)) = Len(stack)
         /\ Popped(s)[1].node = stack[1].node
         /\ Popped(s)[1].rest = stack[1].rest \ {s}
         /\ \A i \in 2 .. Len(stack) : Popped(s)[i] = stack[i]
<1>1. /\ Len(stack) \in Nat \ {0} /\ Head(stack) = stack[1]
      /\ \A i \in 1 .. Len(stack) : stack[i] \in Frame
  BY EmptySeq, ElementOfSeq
<1>2. /\ Tail(stack) \in Seq(Frame) /\ Len(Tail(stack)) = Len(stack) - 1
      /\ \A i \in 1 .. Len(stack) - 1 : Tail(stack)[i] = stack[i + 1]
  BY HeadTailProperties
<1> DEFINE f == [Head(stack) EXCEPT !.rest = @ \ {s}]
<1>3. f \in Frame /\ f.node = stack[1].node /\ f.rest = stack[1].rest \ {s}
  BY <1>1 DEF Frame
<1>4. Popped(s) = <<f>> \o Tail(stack)
  BY DEF Popped
<1> HIDE DEF f
<1>5. /\ Popped(s) \in Seq(Frame) /\ Popped(s) # <<>>
      /\ Len(Popped(s)) = Len(stack) /\ Popped(s)[1] = f
      /\ \A i \in 2 .. Len(stack) : Popped(s)[i] = Tail(stack)[i - 1]
  BY <1>1, <1>2, <1>3, <1>4, PushedStack
<1>6. \A i \in 2 .. Len(stack) : Popped(s)[i] = stack[i]
  <2> SUFFICES ASSUME NEW i \in 2 .. Len(stack) PROVE Popped(s)[i] = stack[i]
    OBVIOUS
  <2>1. i - 1 \in 1 .. Len(stack) - 1 /\ (i - 1) + 1 = i
    BY <1>1
  <2> QED
    BY <1>2, <1>5, <2>1
<1> QED
  BY <1>1, <1>3, <1>5, <1>6

(* The nodes on the stack lead to each other and never to the goal: if the *)
(* innermost leads back to one of them, or to a node without successors,   *)
(* all of them can avoid the goal.                                         *)
LEMMA StackAvoids ==
  ASSUME IInv, answer = "running", NEW s \in Node,
         s \in succ[stack[1].node], s # goal, s \in onstack \/ succ[s] = {}
  PROVE  ~OnAllMaxPaths(succ, from, goal)
<1> DEFINE A == onstack \cup {s}
<1>0. /\ StackChain /\ Len(stack) \in Nat \ {0} /\ A \in SUBSET Node
      /\ from \in Node
  BY EmptySeq DEF IInv, Searching, StackChain
<1>1. from \in A /\ goal \notin A
  BY <1>0 DEF StackChain
<1>2. ASSUME NEW a \in A PROVE succ[a] = {} \/ succ[a] \cap A # {}
  <2>1. CASE a \in onstack
    <3>1. PICK i \in 1 .. Len(stack) : stack[i].node = a
      BY <1>0, <2>1 DEF StackChain
    <3>2. CASE i = 1
      BY <3>1, <3>2
    <3>3. CASE i # 1
      <4>1. i \in 2 .. Len(stack) /\ i - 1 \in 1 .. Len(stack)
        BY <1>0, <3>3
      <4>2. stack[i - 1].node \in succ[a]
        BY <1>0, <3>1, <4>1 DEF StackChain
      <4>3. stack[i - 1] \in Frame
        BY <4>1, ElementOfSeq DEF IInv
      <4>4. stack[i - 1].node \in Node
        BY <4>3 DEF Frame
      <4> QED
        BY <1>0, <4>1, <4>2, <4>4 DEF StackChain
    <3> QED
      BY <3>2, <3>3
  <2>2. CASE a = s /\ succ[s] = {}
    BY <2>2
  <2> QED
    BY <2>1, <2>2
<1>3. Avoids(succ, A, goal)
  BY <1>1, <1>2 DEF Avoids
<1> QED
  BY <1>0, <1>1, <1>3 DEF OnAllMaxPaths

-----------------------------------------------------------------------------
LEMMA InitIInv == ASSUME QueryInit PROVE IInv
<1>0. succ \in Graph /\ from \in Node /\ goal \in Node
  BY InputsAssumption DEF QueryInit
<1>1. CASE from = goal
  <2>1. AnswerExact /\ answer = "yes" /\ stack = <<>> /\ onstack = {} /\ visited = {}
    BY <1>0, <1>1, GoalOnAllMaxPaths DEF QueryInit, AnswerExact
  <2> QED
    BY <1>0, <2>1 DEF IInv
<1>2. CASE from # goal
  <2>1. /\ onstack = {from} /\ visited = {from}
        /\ stack = <<[node |-> from, rest |-> succ[from]]>>
        /\ answer = IF succ[from] = {} THEN "no" ELSE "running"
    BY <1>2 DEF QueryInit
  <2>2. /\ stack \in Seq(Frame) /\ stack # <<>> /\ Len(stack) = 1
        /\ stack[1].node = from /\ stack[1].rest = succ[from]
    BY <1>0, <2>1 DEF Frame, Graph
  <2>3. CASE succ[from] = {}
    <3>1. Avoids(succ, {from}, goal)
      BY <1>2, <2>3 DEF Avoids
    <3>2. AnswerExact
      BY <1>0, <2>1, <2>3, <3>1 DEF AnswerExact, OnAllMaxPaths
    <3> QED
      BY <1>0, <2>1, <2>2, <2>3, <3>2 DEF IInv
  <2>4. CASE succ[from] # {}
    <3>1. Searching
      BY <1>0, <1>2, <2>1, <2>2, <2>4
         DEF Searching, StackChain, LoopsCovered, FinishedGood, Finished
    <3> QED
      BY <1>0, <2>1, <2>2, <2>4, <3>1 DEF IInv, AnswerExact
  <2> QED
    BY <2>3, <2>4
<1> QED
  BY <1>1, <1>2

LEMMA CloseCycleIInv ==
  ASSUME IInv, NEW s \in Node, CloseCycle(s) PROVE IInv'
<1>0. answer = "running" /\ Searching /\ stack # <<>> /\ s \in Rest /\ s \in onstack
  BY DEF CloseCycle, Proceed, IInv
<1>1. Len(stack) \in Nat \ {0} /\ Head(stack) = stack[1]
  BY <1>0, PoppedStack DEF IInv
<1>2. s \in succ[stack[1].node] /\ s # goal
  BY <1>0, <1>1 DEF Searching, StackChain, LoopsCovered, Rest
<1>3. ~OnAllMaxPaths(succ, from, goal)
  BY <1>0, <1>2, StackAvoids
<1> QED
  BY <1>3 DEF CloseCycle, Fail, IInv, AnswerExact

LEMMA SkipIInv ==
  ASSUME IInv, NEW s \in Node, Skip(s) PROVE IInv'
<1>0. /\ answer = "running" /\ answer' = "running" /\ Searching
      /\ stack # <<>> /\ stack \in Seq(Frame) /\ s \in stack[1].rest
      /\ s \notin onstack /\ s \in visited \cup {goal} /\ stack' = Popped(s)
      /\ UNCHANGED <<succ, from, goal, onstack, visited>>
  BY PoppedStack DEF Skip, Proceed, IInv, Rest
<1>1. /\ Len(stack) \in Nat \ {0}
      /\ stack' \in Seq(Frame) /\ stack' # <<>> /\ Len(stack') = Len(stack)
      /\ stack'[1].rest = stack[1].rest \ {s}
      /\ \A i \in 1 .. Len(stack) : stack'[i].node = stack[i].node
      /\ \A i \in 2 .. Len(stack) : stack'[i].rest = stack[i].rest
  <2>1. \A i \in 1 .. Len(stack) : i = 1 \/ i \in 2 .. Len(stack)
    BY <1>0, PoppedStack
  <2> QED
    BY <1>0, <2>1, PoppedStack
<1>2. StackChain'
  <2>1. \A i \in 2 .. Len(stack) : i - 1 \in 1 .. Len(stack) /\ i \in 1 .. Len(stack)
    BY <1>1
  <2>2. Len(stack) \in 1 .. Len(stack)
    BY <1>1
  <2>3. stack'[Len(stack')].node = from'
    BY <1>0, <1>1, <2>2 DEF Searching, StackChain
  <2>4. \A i \in 2 .. Len(stack') : stack'[i - 1].node \in succ'[stack'[i].node]
    BY <1>0, <1>1, <2>1 DEF Searching, StackChain
  <2>5. \A i, j \in 1 .. Len(stack') : stack'[i].node = stack'[j].node => i = j
    BY <1>0, <1>1 DEF Searching, StackChain
  <2>6. \A x \in Node : x \in onstack' <=> \E i \in 1 .. Len(stack') : stack'[i].node = x
    BY <1>0, <1>1 DEF Searching, StackChain
  <2>7. stack' # <<>> /\ goal' \notin onstack' /\ onstack' \subseteq visited'
    BY <1>0, <1>1 DEF Searching, StackChain
  <2> QED
    BY <2>3, <2>4, <2>5, <2>6, <2>7 DEF StackChain
<1>3. LoopsCovered'
  <2> SUFFICES ASSUME NEW i \in 1 .. Len(stack)
               PROVE  /\ succ[stack'[i].node] # {}
                      /\ stack'[i].rest \subseteq succ[stack'[i].node]
                      /\ \A x \in succ[stack'[i].node] \ stack'[i].rest :
                           \/ x = goal \/ x \in Finished
                           \/ i > 1 /\ x = stack'[i - 1].node
    BY <1>0, <1>1 DEF LoopsCovered, Finished
  <2>1. CASE i = 1
    BY <1>0, <1>1, <2>1 DEF Searching, LoopsCovered, Finished
  <2>2. CASE i # 1
    <3>1. i \in 2 .. Len(stack) /\ i - 1 \in 1 .. Len(stack)
      BY <1>1, <2>2
    <3>2. stack'[i].node = stack[i].node /\ stack'[i].rest = stack[i].rest
          /\ stack'[i - 1].node = stack[i - 1].node
      BY <1>1, <3>1
    <3> QED
      BY <1>0, <3>2 DEF Searching, LoopsCovered, Finished
  <2> QED
    BY <2>1, <2>2
<1>4. FinishedGood'
  BY <1>0 DEF Searching, FinishedGood, Finished
<1> QED
  BY <1>0, <1>1, <1>2, <1>3, <1>4 DEF IInv, Searching, AnswerExact

LEMMA EnterIInv ==
  ASSUME IInv, NEW s \in Node, Enter(s) PROVE IInv'
<1> DEFINE L == Len(stack)
<1>0. /\ answer = "running" /\ Searching /\ succ \in Graph
      /\ stack # <<>> /\ stack \in Seq(Frame) /\ s \in stack[1].rest
      /\ s \notin onstack /\ s \notin visited /\ s # goal
      /\ stack' = <<[node |-> s, rest |-> succ[s]]>> \o Popped(s)
      /\ onstack' = onstack \cup {s} /\ visited' = visited \cup {s}
      /\ answer' = IF succ[s] = {} THEN "no" ELSE answer
      /\ UNCHANGED <<succ, from, goal>>
  BY PoppedStack DEF Enter, Proceed, IInv, Rest
<1>1. [node |-> s, rest |-> succ[s]] \in Frame
  BY <1>0 DEF Frame, Graph
<1>2. /\ L \in Nat \ {0}
      /\ stack' \in Seq(Frame) /\ stack' # <<>> /\ Len(stack') = L + 1
      /\ stack'[1].node = s /\ stack'[1].rest = succ[s]
      /\ \A i \in 1 .. L : stack'[i + 1] = Popped(s)[i]
  <2>1. /\ Popped(s) \in Seq(Frame) /\ L \in Nat \ {0} /\ Len(Popped(s)) = L
    BY <1>0, PoppedStack
  <2>2. /\ stack' \in Seq(Frame) /\ stack' # <<>> /\ Len(stack') = L + 1
        /\ stack'[1] = [node |-> s, rest |-> succ[s]]
        /\ \A i \in 2 .. L + 1 : stack'[i] = Popped(s)[i - 1]
    BY <1>0, <1>1, <2>1, PushedStack
  <2>3. \A i \in 1 .. L : i + 1 \in 2 .. L + 1 /\ (i + 1) - 1 = i
    BY <2>1
  <2> QED
    BY <2>1, <2>2, <2>3
<1>3. /\ \A i \in 1 .. L : stack'[i + 1].node = stack[i].node
      /\ stack'[2].rest = stack[1].rest \ {s}
      /\ \A i \in 2 .. L : stack'[i + 1].rest = stack[i].rest
  <2>1. /\ Popped(s)[1].node = stack[1].node
        /\ Popped(s)[1].rest = stack[1].rest \ {s}
        /\ \A i \in 2 .. L : Popped(s)[i] = stack[i]
    BY <1>0, PoppedStack
  <2>2. \A i \in 1 .. L : i = 1 \/ i \in 2 .. L
    BY <1>2
  <2>3. 1 \in 1 .. L /\ 1 + 1 = 2 /\ \A i \in 2 .. L : i \in 1 .. L
    BY <1>2
  <2> QED
    BY <1>2, <2>1, <2>2, <2>3
<1>4. \A i \in 1 .. L + 1 : i = 1 \/ (i # 1 /\ i - 1 \in 1 .. L /\ (i - 1) + 1 = i)
  BY <1>2
<1>5. StackChain /\ LoopsCovered /\ s \in succ[stack[1].node]
  BY <1>0, <1>2 DEF Searching, LoopsCovered
<1> HIDE DEF L
<1>6. StackChain'
  <2>1. stack'[L + 1].node = from
    BY <1>2, <1>3, <1>5 DEF StackChain, L
  <2>2. ASSUME NEW i \in 2 .. L + 1
        PROVE  stack'[i - 1].node \in succ[stack'[i].node]
    <3>1. i - 1 \in 1 .. L /\ stack'[i].node = stack[i - 1].node
      BY <1>2, <1>3, <1>4
    <3>2. CASE i = 2
      BY <1>2, <1>5, <3>1, <3>2
    <3>3. CASE i # 2
      <4>1. i - 1 \in 2 .. L /\ i - 2 \in 1 .. L /\ (i - 2) + 1 = i - 1
            /\ (i - 1) - 1 = i - 2
        BY <1>2, <3>3
      <4>2. stack'[i - 1].node = stack[i - 2].node
        BY <1>3, <4>1
      <4> QED
        BY <1>5, <3>1, <4>1, <4>2 DEF StackChain, L
    <3> QED
      BY <3>2, <3>3
  <2>3. ASSUME NEW i \in 1 .. L PROVE stack[i].node \in onstack
    <3>1. stack[i] \in Frame
      BY <1>0, ElementOfSeq DEF L
    <3>2. stack[i].node \in Node
      BY <3>1 DEF Frame
    <3> QED
      BY <1>5, <3>2 DEF StackChain, L
  <2>4. \A x \in Node : x \in onstack' <=> \E i \in 1 .. L + 1 : stack'[i].node = x
    <3>1. 1 \in 1 .. L + 1 /\ \A i \in 1 .. L : i + 1 \in 1 .. L + 1
      BY <1>2
    <3>2. ASSUME NEW x \in onstack PROVE \E i \in 1 .. L + 1 : stack'[i].node = x
      <4>1. PICK i \in 1 .. L : stack[i].node = x
        BY <1>5 DEF StackChain, L, IInv
      <4> QED
        BY <1>3, <3>1, <4>1
    <3>3. ASSUME NEW i \in 1 .. L + 1 PROVE stack'[i].node \in onstack'
      <4>1. CASE i = 1
        BY <1>0, <1>2, <4>1
      <4>2. CASE i # 1
        <5>1. i - 1 \in 1 .. L /\ (i - 1) + 1 = i
          BY <1>4, <4>2
        <5>2. stack'[i].node = stack[i - 1].node
          BY <1>3, <5>1
        <5> QED
          BY <1>0, <2>3, <5>1, <5>2
      <4> QED
        BY <4>1, <4>2
    <3> QED
      BY <1>0, <1>2, <3>1, <3>2, <3>3
  <2>5. ASSUME NEW i \in 1 .. L + 1, NEW j \in 1 .. L + 1,
               stack'[i].node = stack'[j].node
        PROVE  i = j
    <3>0. \A k \in 1 .. L + 1 : k # 1 => stack'[k].node \in onstack
      <4> SUFFICES ASSUME NEW k \in 1 .. L + 1, k # 1
                   PROVE  stack'[k].node \in onstack
        OBVIOUS
      <4>1. k - 1 \in 1 .. L /\ (k - 1) + 1 = k
        BY <1>4
      <4>2. stack'[k].node = stack[k - 1].node
        BY <1>3, <4>1
      <4> QED
        BY <2>3, <4>1, <4>2
    <3>1. CASE i = 1 \/ j = 1
      BY <1>0, <1>2, <2>5, <3>0, <3>1
    <3>2. CASE i # 1 /\ j # 1
      <4>1. i - 1 \in 1 .. L /\ j - 1 \in 1 .. L
            /\ stack[i - 1].node = stack[j - 1].node
        BY <1>3, <1>4, <2>5, <3>2
      <4>2. i - 1 = j - 1
        BY <1>5, <4>1 DEF StackChain, L
      <4> QED
        BY <1>2, <4>2
    <3> QED
      BY <3>1, <3>2
  <2>6. goal \notin onstack' /\ onstack' \subseteq visited'
    BY <1>0, <1>5 DEF StackChain
  <2> QED
    BY <1>0, <1>2, <2>1, <2>2, <2>4, <2>5, <2>6 DEF StackChain
<1>7. ASSUME succ[s] # {} PROVE LoopsCovered'
  <2>1. Finished' = Finished
    BY <1>0 DEF Finished
  <2> SUFFICES ASSUME NEW i \in 1 .. L + 1
               PROVE  /\ succ[stack'[i].node] # {}
                      /\ stack'[i].rest \subseteq succ[stack'[i].node]
                      /\ \A x \in succ[stack'[i].node] \ stack'[i].rest :
                           \/ x = goal \/ x \in Finished
                           \/ i > 1 /\ x = stack'[i - 1].node
    BY <1>0, <1>2, <2>1 DEF LoopsCovered
  <2>2. CASE i = 1
    BY <1>2, <1>7, <2>2
  <2>3. CASE i = 2
    <3>1. 1 \in 1 .. L /\ 1 + 1 = 2 /\ stack'[2].node = stack[1].node
      BY <1>2, <1>3
    <3>2. /\ succ[stack[1].node] # {} /\ stack[1].rest \subseteq succ[stack[1].node]
          /\ \A x \in succ[stack[1].node] \ stack[1].rest : x = goal \/ x \in Finished
      BY <1>5, <3>1 DEF LoopsCovered, L
    <3>3. i > 1 /\ stack'[i - 1].node = s
      BY <1>2, <2>3
    <3>4. stack'[i].node = stack[1].node /\ stack'[i].rest = stack[1].rest \ {s}
      BY <1>3, <2>3, <3>1
    <3> QED
      BY <3>2, <3>3, <3>4
  <2>4. CASE i # 1 /\ i # 2
    <3>1. /\ i - 1 \in 2 .. L /\ i - 1 \in 1 .. L /\ i - 2 \in 1 .. L
          /\ (i - 2) + 1 = i - 1 /\ (i - 1) + 1 = i /\ (i - 1) - 1 = i - 2
          /\ i > 1 /\ i - 1 > 1
      BY <1>2, <2>4
    <3>2. /\ stack'[i].node = stack[i - 1].node /\ stack'[i].rest = stack[i - 1].rest
          /\ stack'[i - 1].node = stack[i - 2].node
      BY <1>3, <3>1
    <3>3. /\ succ[stack[i - 1].node] # {}
          /\ stack[i - 1].rest \subseteq succ[stack[i - 1].node]
          /\ \A x \in succ[stack[i - 1].node] \ stack[i - 1].rest :
               x = goal \/ x \in Finished \/ x = stack[i - 2].node
      BY <1>5, <3>1 DEF LoopsCovered, L
    <3> QED
      BY <3>1, <3>2, <3>3
  <2> QED
    BY <2>2, <2>3, <2>4
<1>8. FinishedGood'
  BY <1>0 DEF Searching, FinishedGood, Finished
<1>9. AnswerExact'
  <2>1. CASE succ[s] = {}
    <3>1. ~OnAllMaxPaths(succ, from, goal)
      BY <1>0, <1>5, <2>1, StackAvoids
    <3> QED
      BY <1>0, <2>1, <3>1 DEF AnswerExact
  <2>2. CASE succ[s] # {}
    BY <1>0, <2>2 DEF AnswerExact
  <2> QED
    BY <2>1, <2>2
<1> QED
  BY <1>0, <1>2, <1>6, <1>7, <1>8, <1>9 DEF IInv, Searching

(* The innermost call returns true: all successors of its node are the     *)
(* goal or have been found good.                                           *)
LEMMA LeaveIInv == ASSUME IInv, Leave PROVE IInv'
<1> DEFINE L == Len(stack)
           top == stack[1].node
<1>0. /\ answer = "running" /\ Searching /\ succ \in Graph
      /\ StackChain /\ LoopsCovered /\ FinishedGood
      /\ stack # <<>> /\ stack \in Seq(Frame) /\ stack[1].rest = {}
      /\ stack' = Tail(stack) /\ onstack' = onstack \ ({top} \ {from})
      /\ answer' = IF Tail(stack) = <<>> THEN "yes" ELSE answer
      /\ UNCHANGED <<succ, from, goal, visited>>
      /\ from \in Node /\ goal \in Node /\ onstack \in SUBSET Node
  BY PoppedStack DEF Leave, IInv, Rest, Searching
<1>1. /\ L \in Nat \ {0} /\ stack' \in Seq(Frame) /\ Len(stack') = L - 1
      /\ \A i \in 1 .. L - 1 : stack'[i] = stack[i + 1]
  BY <1>0, HeadTailProperties, EmptySeq
<1>2. top \in Node /\ top \in onstack /\ 1 \in 1 .. L
  <2>1. 1 \in 1 .. L
    BY <1>1
  <2>2. stack[1] \in Frame
    BY <1>0, <2>1, ElementOfSeq
  <2>3. top \in Node
    BY <2>2 DEF Frame
  <2> QED
    BY <1>0, <2>1, <2>3 DEF StackChain
<1>3. OnAllMaxPaths(succ, top, goal)
  <2>1. succ[top] # {} /\ \A s \in succ[top] : s = goal \/ s \in Finished
    BY <1>0, <1>2 DEF LoopsCovered
  <2>2. \A s \in succ[top] : OnAllMaxPaths(succ, s, goal)
    BY <1>0, <2>1, GoalOnAllMaxPaths DEF FinishedGood
  <2> QED
    BY <1>0, <1>2, <2>1, <2>2, AllSuccessors
<1> HIDE DEF L, top
<1>4. CASE L = 1
  <2>1. stack' = <<>> /\ answer' = "yes" /\ from = top
    <3>1. Len(stack') = 0
      BY <1>1, <1>4
    <3>2. stack' = <<>>
      BY <1>1, <3>1, EmptySeq
    <3> QED
      BY <1>0, <1>4, <3>2 DEF StackChain, L, top
  <2>2. AnswerExact'
    BY <1>0, <1>3, <2>1 DEF AnswerExact
  <2> QED
    BY <1>0, <1>1, <2>1, <2>2 DEF IInv
<1>5. CASE L # 1
  <2>0. L - 1 \in Nat \ {0} /\ \A i \in 1 .. L - 1 : i + 1 \in 1 .. L /\ i + 1 # 1
    BY <1>1, <1>5
  <2>1. stack' # <<>> /\ answer' = "running"
    BY <1>0, <1>1, <2>0
  <2>2. top # from /\ onstack' = onstack \ {top}
    <3>1. stack[L].node = from /\ L \in 1 .. L
      BY <1>0, <1>1 DEF StackChain, L
    <3>2. top # from
      BY <1>0, <1>2, <1>5, <3>1 DEF StackChain, L, top
    <3> QED
      BY <1>0, <3>2
  <2>3. Finished' = Finished \cup {top}
    BY <1>0, <1>2, <2>2 DEF Finished, StackChain
  <2>4. FinishedGood'
    BY <1>0, <1>3, <2>3 DEF FinishedGood
  <2>5. StackChain'
    <3>1. stack'[L - 1].node = from
      BY <1>0, <1>1, <2>0 DEF StackChain, L
    <3>2. ASSUME NEW i \in 2 .. L - 1
          PROVE  stack'[i - 1].node \in succ[stack'[i].node]
      <4>1. i \in 1 .. L - 1 /\ i - 1 \in 1 .. L - 1 /\ (i - 1) + 1 = i
            /\ i + 1 \in 2 .. L /\ (i + 1) - 1 = i
        BY <1>1
      <4>2. stack'[i].node = stack[i + 1].node /\ stack'[i - 1].node = stack[i].node
        BY <1>1, <4>1
      <4> QED
        BY <1>0, <4>1, <4>2 DEF StackChain, L
    <3>3. ASSUME NEW i \in 1 .. L - 1, NEW j \in 1 .. L - 1,
                 stack'[i].node = stack'[j].node
          PROVE  i = j
      <4>1. i + 1 = j + 1
        BY <1>0, <1>1, <2>0, <3>3 DEF StackChain, L
      <4> QED
        BY <1>1, <4>1
    <3>4. \A x \in Node : x \in onstack' <=> \E i \in 1 .. L - 1 : stack'[i].node = x
      <4>1. ASSUME NEW x \in onstack'
            PROVE  \E i \in 1 .. L - 1 : stack'[i].node = x
        <5>1. PICK i \in 1 .. L : stack[i].node = x
          BY <1>0, <2>2, <4>1 DEF StackChain, L
        <5>2. i # 1
          BY <2>2, <4>1, <5>1 DEF top
        <5>3. i - 1 \in 1 .. L - 1 /\ (i - 1) + 1 = i
          BY <1>1, <5>2
        <5> QED
          BY <1>1, <5>1, <5>3
      <4>2. ASSUME NEW i \in 1 .. L - 1 PROVE stack'[i].node \in onstack'
        <5>1. stack'[i] = stack[i + 1] /\ i + 1 \in 1 .. L /\ i + 1 # 1
          BY <1>1, <2>0
        <5>2. stack[i + 1] \in Frame
          BY <1>0, <5>1, ElementOfSeq DEF L
        <5>3. stack[i + 1].node \in onstack
          BY <1>0, <5>1, <5>2 DEF StackChain, L, Frame
        <5>4. stack[i + 1].node # top
          BY <1>0, <1>2, <5>1 DEF StackChain, L, top
        <5> QED
          BY <2>2, <5>1, <5>3, <5>4
      <4> QED
        BY <4>1, <4>2
    <3>5. goal \notin onstack' /\ onstack' \subseteq visited'
      BY <1>0 DEF StackChain
    <3> QED
      BY <1>0, <1>1, <2>1, <3>1, <3>2, <3>3, <3>4, <3>5 DEF StackChain
  <2>6. LoopsCovered'
    <3> SUFFICES ASSUME NEW i \in 1 .. L - 1
                 PROVE  /\ succ[stack'[i].node] # {}
                        /\ stack'[i].rest \subseteq succ[stack'[i].node]
                        /\ \A x \in succ[stack'[i].node] \ stack'[i].rest :
                             \/ x = goal \/ x \in Finished'
                             \/ i > 1 /\ x = stack'[i - 1].node
      BY <1>0, <1>1 DEF LoopsCovered
    <3>1. i + 1 \in 1 .. L /\ (i + 1) - 1 = i /\ stack'[i] = stack[i + 1]
      BY <1>1, <2>0
    <3>2. /\ succ[stack[i + 1].node] # {}
          /\ stack[i + 1].rest \subseteq succ[stack[i + 1].node]
          /\ \A x \in succ[stack[i + 1].node] \ stack[i + 1].rest :
               x = goal \/ x \in Finished \/ x = stack[i].node
      BY <1>0, <3>1 DEF LoopsCovered, L
    <3>3. i = 1 => stack[i].node = top
      BY DEF top
    <3>4. i # 1 => i > 1 /\ stack'[i - 1] = stack[i]
      <4> SUFFICES ASSUME i # 1 PROVE i > 1 /\ stack'[i - 1] = stack[i]
        OBVIOUS
      <4>1. i > 1 /\ i - 1 \in 1 .. L - 1 /\ (i - 1) + 1 = i
        BY <1>1
      <4> QED
        BY <1>1, <4>1
    <3> QED
      BY <2>3, <3>1, <3>2, <3>3, <3>4
  <2> QED
    BY <1>0, <1>1, <2>1, <2>4, <2>5, <2>6 DEF IInv, Searching, AnswerExact
<1> QED
  BY <1>4, <1>5

LEMMA NextIInv == ASSUME IInv, [QueryNext]_queryVars PROVE IInv'
<1>1. CASE UNCHANGED queryVars
  BY <1>1 DEF IInv, Searching, StackChain, LoopsCovered, FinishedGood, Finished,
              AnswerExact, queryVars
<1> QED
  BY <1>1, CloseCycleIInv, SkipIInv, EnterIInv, LeaveIInv DEF QueryNext, QueryDone

(* onallpaths answers right: "yes" just if every maximal path from its     *)
(* first argument meets the second one, on every graph and for every order *)
(* in which successors are taken.                                          *)
THEOREM OnAllPathsCorrect == QuerySpec => []AnswerExact
<1>1. QueryInit => IInv
  BY InitIInv
<1>2. IInv /\ [QueryNext]_queryVars => IInv'
  BY NextIInv
<1>3. IInv => AnswerExact
  BY DEF IInv
<1> QED
  BY <1>1, <1>2, <1>3, PTL DEF QuerySpec

=============================================================================
