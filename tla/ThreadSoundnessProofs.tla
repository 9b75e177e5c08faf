------------------------ MODULE ThreadSoundnessProofs ------------------------
(***************************************************************************)
(* The dependencies between threads miss nothing that an execution does,   *)
(* for every program, any number of threads and any depth of calls: what   *)
(* module ThreadSoundness states, as theorems.                             *)
(***************************************************************************)
EXTENDS ThreadSoundness, WellFoundedInduction, TLAPS

-----------------------------------------------------------------------------
(* Programs and the graph that is built for one.                           *)

LEMMA ListFacts ==
  ASSUME NEW s, IsList(s)
  PROVE  /\ s \in Seq(Range(s)) /\ Len(s) \in Nat \ {0} /\ DOMAIN s = 1 .. Len(s)
         /\ 1 \in DOMAIN s
<1> DEFINE S == Range(s)
<1>1. s \in Seq(S) /\ s # <<>>
  BY DEF IsList
<1> HIDE DEF S
<1>2. Len(s) \in Nat \ {0} /\ DOMAIN s = 1 .. Len(s)
  BY <1>1
<1> QED
  BY <1>1, <1>2 DEF S

LEMMA BlockFacts ==
  ASSUME NEW P, WellFormed(P), NEW f \in DOMAIN P
  PROVE  /\ IsList(P[f])
         /\ 1 \in DOMAIN P[f] /\ predecessorsOf(P, f, 1) = {}
         /\ \A b \in DOMAIN P[f] : LegalBlock(P, f, b)
<1>1. IsList(P[f]) /\ predecessorsOf(P, f, 1) = {} /\ \A b \in DOMAIN P[f] : LegalBlock(P, f, b)
  BY DEF WellFormed
<1> QED
  BY <1>1, ListFacts

(* A set of numbers has a least one.                                       *)
LEMMA LeastNumber ==
  ASSUME NEW S, S \subseteq Nat, S # {}
  PROVE  \E x \in S : \A y \in S : x <= y
<1>1. PICK x \in S : \A y \in S : ~(<<y, x>> \in OpToRel(<, Nat))
  BY NatLessThanWellFounded, WFMin, Zenon
<1>2. \A y \in S : ~(y < x)
  BY <1>1, Zenon DEF OpToRel
<1> QED
  BY <1>2

(* What is built of a block ends with the block or with the first RETURN.  *)
LEMMA BuiltLengthFacts ==
  ASSUME NEW P, WellFormed(P), NEW f \in DOMAIN P, NEW b \in DOMAIN P[f]
  PROVE  /\ BuiltLength(P, f, b) \in 1 .. Len(P[f][b].ins)
         /\ Len(P[f][b].ins) \in Nat \ {0}
         /\ DOMAIN P[f][b].ins = 1 .. Len(P[f][b].ins)
         /\ \/ BuiltLength(P, f, b) = Len(P[f][b].ins)
            \/ NodeType(LastNode(P, <<f, b, BuiltLength(P, f, b)>>)) = "RETURN"
<1> DEFINE n == Len(P[f][b].ins)
           returns == {i \in 1 .. n : NodeType(LastNode(P, <<f, b, i>>)) = "RETURN"}
<1>1. IsList(P[f][b].ins)
  BY BlockFacts DEF LegalBlock
<1>2. n \in Nat \ {0} /\ DOMAIN P[f][b].ins = 1 .. n
  BY <1>1, ListFacts
<1>3. BuiltLength(P, f, b) =
        IF returns = {} THEN n ELSE CHOOSE i \in returns : \A j \in returns : i <= j
  BY DEF BuiltLength
<1> HIDE DEF n
<1>4. CASE returns = {}
  BY <1>2, <1>3, <1>4 DEF n
<1>5. CASE returns # {}
  <2>1. returns \subseteq Nat
    BY <1>2
  <2>2. \E i \in returns : \A j \in returns : i <= j
    BY <2>1, <1>5, LeastNumber, Zenon
  <2>3. BuiltLength(P, f, b) \in returns
    BY <1>3, <1>5, <2>2, Zenon
  <2> QED
    BY <1>2, <2>3 DEF n
<1> QED
  BY <1>4, <1>5

(* The instructions that are built, and what is known of each.             *)
LEMMA InstrsFacts ==
  ASSUME NEW P, WellFormed(P), NEW x \in Instrs(P)
  PROVE  /\ x = <<x[1], x[2], x[3]>>
         /\ x[1] \in BuiltFunctions(P) /\ x[1] \in DOMAIN P
         /\ x[2] \in BuiltBlocks(P, x[1]) /\ x[2] \in DOMAIN P[x[1]]
         /\ x[3] \in 1 .. BuiltLength(P, x[1], x[2])
         /\ x[3] \in 1 .. Len(P[x[1]][x[2]].ins)
         /\ x \in FunctionInstrs(P, x[1])
         /\ LegalBlock(P, x[1], x[2])
         /\ LegalInstr(P, InstrAt(P, x))
         /\ InstrAt(P, x).op \in {"br", "ret"} <=> x[3] = Len(P[x[1]][x[2]].ins)
         /\ InstrAt(P, x).op = "ret" => P[x[1]][x[2]].succ = {}
<1>1. PICK f \in BuiltFunctions(P) : x \in FunctionInstrs(P, f)
  BY DEF Instrs
<1>2. f \in DOMAIN P
  BY DEF BuiltFunctions
<1>3. PICK b \in BuiltBlocks(P, f) : x \in BlockInstrs(P, f, b)
  BY <1>1 DEF FunctionInstrs
<1>4. b \in DOMAIN P[f]
  BY DEF BuiltBlocks
<1>5. PICK i \in 1 .. BuiltLength(P, f, b) : x = <<f, b, i>>
  BY <1>3 DEF BlockInstrs
<1>6. i \in 1 .. Len(P[f][b].ins) /\ DOMAIN P[f][b].ins = 1 .. Len(P[f][b].ins)
  <2>1. /\ BuiltLength(P, f, b) \in 1 .. Len(P[f][b].ins)
        /\ Len(P[f][b].ins) \in Nat \ {0}
        /\ DOMAIN P[f][b].ins = 1 .. Len(P[f][b].ins)
    BY <1>2, <1>4, BuiltLengthFacts, Zenon
  <2> QED
    BY <2>1
<1>7. LegalBlock(P, f, b)
  BY <1>2, <1>4, BlockFacts
<1>8. InstrAt(P, x) = P[f][b].ins[i] /\ x[1] = f /\ x[2] = b /\ x[3] = i
  BY <1>5 DEF InstrAt
<1>9. /\ LegalInstr(P, P[f][b].ins[i])
      /\ P[f][b].ins[i].op \in {"br", "ret"} <=> i = Len(P[f][b].ins)
      /\ P[f][b].ins[i].op = "ret" => P[f][b].succ = {}
  BY <1>6, <1>7 DEF LegalBlock
<1> QED
  BY <1>1, <1>2, <1>3, <1>4, <1>5, <1>6, <1>7, <1>8, <1>9

LEMMA InstrBuilt ==
  ASSUME NEW P, NEW f \in BuiltFunctions(P), NEW b \in BuiltBlocks(P, f),
         NEW i \in 1 .. BuiltLength(P, f, b)
  PROVE  <<f, b, i>> \in Instrs(P)
  BY DEF Instrs, FunctionInstrs, BlockInstrs

(* Functions are built with what they call or spawn.                       *)
LEMMA FunctionsClosed ==
  ASSUME NEW P, WellFormed(P)
  PROVE  /\ BuiltFunctions(P) \subseteq DOMAIN P
         /\ Main \in BuiltFunctions(P)
         /\ \A x \in Instrs(P) : \A c \in DOMAIN InstrAt(P, x).to :
              InstrAt(P, x).to[c].k \in {"fun", "create"} =>
                InstrAt(P, x).to[c].fns \subseteq BuiltFunctions(P)
<1>1. BuiltFunctions(P) \subseteq DOMAIN P
  BY DEF BuiltFunctions
<1>2. Main \in DOMAIN P
  BY ListFacts DEF WellFormed, Main
<1>3. Main \in BuiltFunctions(P)
  BY <1>2 DEF BuiltFunctions
<1>4. ASSUME NEW f \in BuiltFunctions(P), NEW g \in Called(P, f), g \in DOMAIN P
      PROVE  g \in BuiltFunctions(P)
  <2>1. SUFFICES ASSUME NEW S \in SUBSET (DOMAIN P \ {g}), Main \in S,
                        \A h \in S : Called(P, h) \subseteq S
                 PROVE  FALSE
    BY <1>4 DEF BuiltFunctions
  <2>2. f \in S
    <3>1. CASE S \in SUBSET (DOMAIN P \ {f})
      BY <2>1, <3>1 DEF BuiltFunctions
    <3> QED
      BY <3>1, <1>1
  <2> QED
    BY <2>1, <2>2
<1>5. ASSUME NEW x \in Instrs(P), NEW c \in DOMAIN InstrAt(P, x).to,
             InstrAt(P, x).to[c].k \in {"fun", "create"}
      PROVE  InstrAt(P, x).to[c].fns \subseteq BuiltFunctions(P)
  <2>1. x[1] \in BuiltFunctions(P) /\ x \in FunctionInstrs(P, x[1]) /\ LegalInstr(P, InstrAt(P, x))
    BY InstrsFacts
  <2>2. InstrAt(P, x).to[c].fns \subseteq DOMAIN P
    BY <2>1 DEF LegalInstr, LegalCallee
  <2>3. InstrAt(P, x).to[c].fns \subseteq Called(P, x[1])
    BY <2>1, <1>5 DEF Called, Targets
  <2> QED
    BY <1>4, <2>1, <2>2, <2>3
<1> QED
  BY <1>1, <1>3, <1>5

(* The edges of a function, by where they come from.                       *)
LEMMA EdgesBuilt ==
  ASSUME NEW P, NEW f \in BuiltFunctions(P), NEW b \in BuiltBlocks(P, f)
  PROVE  /\ BlockEdges(P, f, b) \subseteq Edges(P)
         /\ predecessorsOf(P, f, b) = {} => <<EntryNode(f), BlockFirst(P, f, b)>> \in Edges(P)
         /\ P[f][b].succ = {} => <<BlockLast(P, f, b), ExitNode(f)>> \in Edges(P)
         /\ \A k \in P[f][b].succ : <<BlockLast(P, f, b), BlockFirst(P, f, k)>> \in Edges(P)
<1>1. FunctionEdges(P, f) \subseteq Edges(P)
  BY DEF Edges
<1>2. BlockEdges(P, f, b) \subseteq FunctionEdges(P, f)
  BY DEF FunctionEdges
<1>3. predecessorsOf(P, f, b) = {} => <<EntryNode(f), BlockFirst(P, f, b)>> \in FunctionEdges(P, f)
  BY DEF FunctionEdges
<1>4. P[f][b].succ = {} => <<BlockLast(P, f, b), ExitNode(f)>> \in FunctionEdges(P, f)
  BY DEF FunctionEdges
<1>5. \A k \in P[f][b].succ : <<BlockLast(P, f, b), BlockFirst(P, f, k)>> \in FunctionEdges(P, f)
  BY DEF FunctionEdges
<1> QED
  BY <1>1, <1>2, <1>3, <1>4, <1>5

LEMMA InstrEdgesBuilt ==
  ASSUME NEW P, NEW x \in Instrs(P)
  PROVE  InstrEdges(P, x) \subseteq Edges(P)
<1>1. \E f \in BuiltFunctions(P) : \E b \in BuiltBlocks(P, f) : x \in BlockInstrs(P, f, b)
  BY DEF Instrs, FunctionInstrs
<1>2. PICK f \in BuiltFunctions(P) : \E b \in BuiltBlocks(P, f) : x \in BlockInstrs(P, f, b)
  BY <1>1
<1>3. PICK b \in BuiltBlocks(P, f) : x \in BlockInstrs(P, f, b)
  BY <1>2
<1>4. InstrEdges(P, x) \subseteq BlockEdges(P, f, b)
  BY <1>3 DEF BlockEdges
<1> QED
  BY <1>4, EdgesBuilt

(* Behind what is not a RETURN there is the next instruction.              *)
LEMMA NextBuilt ==
  ASSUME NEW P, WellFormed(P), NEW x \in Instrs(P), InstrAt(P, x).op \notin {"br", "ret"},
         NodeType(LastNode(P, x)) # "RETURN"
  PROVE  /\ NextPoint(x) \in Instrs(P)
         /\ <<LastNode(P, x), FirstNode(P, NextPoint(x))>> \in Edges(P)
<1> DEFINE f == x[1]  b == x[2]  i == x[3]  n == BuiltLength(P, f, b)
<1>1. /\ x = <<f, b, i>> /\ f \in BuiltFunctions(P) /\ f \in DOMAIN P
      /\ b \in BuiltBlocks(P, f) /\ b \in DOMAIN P[f]
      /\ i \in 1 .. n /\ i \in 1 .. Len(P[f][b].ins) /\ i # Len(P[f][b].ins)
  BY InstrsFacts
<1>2. /\ n \in 1 .. Len(P[f][b].ins) /\ Len(P[f][b].ins) \in Nat \ {0}
      /\ n = Len(P[f][b].ins) \/ NodeType(LastNode(P, <<f, b, n>>)) = "RETURN"
  BY <1>1, BuiltLengthFacts, Zenon
<1>3. i # n
  BY <1>1, <1>2
<1> HIDE DEF n
<1>4. i + 1 \in 2 .. n /\ i + 1 \in 1 .. n /\ (i + 1) - 1 = i
  BY <1>1, <1>2, <1>3
<1>5. NextPoint(x) = <<f, b, i + 1>>
  BY DEF NextPoint
<1>6. NextPoint(x) \in Instrs(P)
  BY <1>1, <1>4, <1>5, InstrBuilt DEF n
<1>7. <<LastNode(P, <<f, b, i>>), FirstNode(P, <<f, b, i + 1>>)>> \in BlockEdges(P, f, b)
  <2> DEFINE steps == {<<LastNode(P, <<f, b, j - 1>>), FirstNode(P, <<f, b, j>>)>> : j \in 2 .. n}
  <2>1. steps \subseteq BlockEdges(P, f, b)
    BY DEF BlockEdges, n
  <2>2. <<LastNode(P, <<f, b, (i + 1) - 1>>), FirstNode(P, <<f, b, i + 1>>)>> \in steps
    BY <1>4
  <2> QED
    BY <1>4, <2>1, <2>2
<1> QED
  BY <1>1, <1>5, <1>6, <1>7, EdgesBuilt

LEMMA EntryBuilt ==
  ASSUME NEW P, WellFormed(P), NEW f \in BuiltFunctions(P)
  PROVE  /\ <<f, 1, 1>> \in Instrs(P)
         /\ <<EntryNode(f), FirstNode(P, <<f, 1, 1>>)>> \in Edges(P)
<1>1. f \in DOMAIN P
  BY FunctionsClosed
<1>2. 1 \in DOMAIN P[f] /\ predecessorsOf(P, f, 1) = {}
  BY <1>1, BlockFacts
<1>3. 1 \in BuiltBlocks(P, f)
  BY <1>2 DEF BuiltBlocks
<1>4. BuiltLength(P, f, 1) \in 1 .. Len(P[f][1].ins) /\ Len(P[f][1].ins) \in Nat
  BY <1>1, <1>2, BuiltLengthFacts
<1>5. 1 \in 1 .. BuiltLength(P, f, 1)
  BY <1>4
<1> QED
  BY <1>2, <1>3, <1>5, InstrBuilt, EdgesBuilt DEF BlockFirst

(* The last instruction of a block leads to the blocks behind it.          *)
LEMMA BranchBuilt ==
  ASSUME NEW P, WellFormed(P), NEW x \in Instrs(P), InstrAt(P, x).op \in {"br", "ret"}
  PROVE  /\ \A k \in P[x[1]][x[2]].succ :
              /\ <<x[1], k, 1>> \in Instrs(P)
              /\ <<FirstNode(P, x), FirstNode(P, <<x[1], k, 1>>)>> \in Edges(P)
         /\ InstrAt(P, x).op = "ret" => <<FirstNode(P, x), ExitNode(x[1])>> \in Edges(P)
<1> DEFINE f == x[1]  b == x[2]  i == x[3]
<1>1. /\ x = <<f, b, i>> /\ f \in BuiltFunctions(P) /\ f \in DOMAIN P
      /\ b \in BuiltBlocks(P, f) /\ b \in DOMAIN P[f]
      /\ i \in 1 .. BuiltLength(P, f, b) /\ i = Len(P[f][b].ins)
      /\ LegalBlock(P, f, b)
      /\ InstrAt(P, x).op = "ret" => P[f][b].succ = {}
  BY InstrsFacts
<1>2. BuiltLength(P, f, b) \in 1 .. Len(P[f][b].ins) /\ Len(P[f][b].ins) \in Nat
  BY <1>1, BuiltLengthFacts
<1>3. BuiltLength(P, f, b) = i
  BY <1>1, <1>2
<1>4. FirstNode(P, x) = BlockLast(P, f, b)
  <2>1. LastNode(P, x) = FirstNode(P, x)
    BY InstrsFacts DEF LastNode, LegalInstr
  <2> QED
    BY <1>1, <1>3, <2>1 DEF BlockLast
<1>5. ASSUME NEW k \in P[f][b].succ
      PROVE  /\ <<f, k, 1>> \in Instrs(P)
             /\ <<FirstNode(P, x), FirstNode(P, <<f, k, 1>>)>> \in Edges(P)
  <2>1. k \in DOMAIN P[f]
    BY <1>1 DEF LegalBlock
  <2>2. k \in BuiltBlocks(P, f)
    BY <1>1, <2>1 DEF BuiltBlocks, predecessorsOf
  <2>3. BuiltLength(P, f, k) \in 1 .. Len(P[f][k].ins) /\ Len(P[f][k].ins) \in Nat
    BY <1>1, <2>1, BuiltLengthFacts
  <2>4. 1 \in 1 .. BuiltLength(P, f, k)
    BY <2>3
  <2>5. <<f, k, 1>> \in Instrs(P)
    BY <1>1, <2>2, <2>4, InstrBuilt
  <2>6. <<BlockLast(P, f, b), BlockFirst(P, f, k)>> \in Edges(P)
    BY <1>1, EdgesBuilt
  <2> QED
    BY <1>4, <2>5, <2>6 DEF BlockFirst
<1>6. InstrAt(P, x).op = "ret" => <<FirstNode(P, x), ExitNode(f)>> \in Edges(P)
  BY <1>1, <1>4, EdgesBuilt
<1> QED
  BY <1>5, <1>6

-----------------------------------------------------------------------------
(* Calls.                                                                  *)

CalleeNumber(P, x, c) == IF InstrAt(P, x).ptr THEN c ELSE 0
CallNode(P, x, c) == CalleeFirst(P, x, CalleeNumber(P, x, c))
CallLast(P, x, c) == CalleeLast(P, x, CalleeNumber(P, x, c))

LEMMA CallFacts ==
  ASSUME NEW P, WellFormed(P), NEW x \in Instrs(P), NEW c \in DOMAIN InstrAt(P, x).to,
         IsCallInst(P, x)
  PROVE  /\ InstrAt(P, x).ptr \in BOOLEAN
         /\ c \in 1 .. Len(InstrAt(P, x).to) /\ Len(InstrAt(P, x).to) \in Nat \ {0}
         /\ ~InstrAt(P, x).ptr => c = 1 /\ Len(InstrAt(P, x).to) = 1
         /\ LegalCallee(P, InstrAt(P, x).to[c])
         /\ CalleeOf(P, x, CalleeNumber(P, x, c)) = InstrAt(P, x).to[c]
<1> DEFINE in == InstrAt(P, x)
<1>1. LegalInstr(P, in)
  BY InstrsFacts
<1>2. in.to # <<>>
  <2>1. ASSUME in.to = <<>> PROVE FALSE
    <3>1. c \in DOMAIN <<>>
      BY <2>1
    <3> QED
      BY <3>1
  <2> QED
    BY <2>1
<1>3. IsList(in.to)
  BY <1>1, <1>2 DEF LegalInstr
<1>4. Len(in.to) \in Nat \ {0} /\ DOMAIN in.to = 1 .. Len(in.to)
  BY <1>3, ListFacts
<1>5. in.ptr \in BOOLEAN /\ (~in.ptr => Len(in.to) = 1) /\ LegalCallee(P, in.to[c])
  BY <1>1 DEF LegalInstr, IsCallInst
<1>6. ~in.ptr => c = 1
  BY <1>4, <1>5
<1>7. CalleeOf(P, x, CalleeNumber(P, x, c)) = in.to[c]
  <2>1. CASE in.ptr
    BY <1>4, <2>1 DEF CalleeOf, CalleeNumber
  <2>2. CASE ~in.ptr
    BY <1>6, <2>2 DEF CalleeOf, CalleeNumber
  <2> QED
    BY <1>5, <2>1, <2>2
<1> QED
  BY <1>4, <1>5, <1>6, <1>7

(* The node that stands for a callee, and how control comes to it.         *)
LEMMA CallNodeFacts ==
  ASSUME NEW P, WellFormed(P), NEW x \in Instrs(P), NEW c \in DOMAIN InstrAt(P, x).to,
         IsCallInst(P, x)
  PROVE  /\ CalleeOfNode(P, CallNode(P, x, c)) = InstrAt(P, x).to[c]
         /\ NodeInstr(CallNode(P, x, c)) = x
         /\ NodeType(CallNode(P, x, c)) = CalleeType(InstrAt(P, x).to[c].k)
         /\ CallNode(P, x, c)[4] = CalleeNumber(P, x, c)
         /\ CallNode(P, x, c) \in CalleeNodes(P, InstrAt(P, x).to[c].k)
         /\ \/ FirstNode(P, x) = CallNode(P, x, c)
            \/ <<FirstNode(P, x), CallNode(P, x, c)>> \in Edges(P)
         /\ InstrAt(P, x).to[c].k = "fun" =>
              \A f \in InstrAt(P, x).to[c].fns : <<CallNode(P, x, c), EntryNode(f)>> \in Edges(P)
<1> DEFINE in == InstrAt(P, x)  n == CalleeNumber(P, x, c)  node == CallNode(P, x, c)
<1>1. /\ in.ptr \in BOOLEAN /\ c \in 1 .. Len(in.to) /\ Len(in.to) \in Nat \ {0}
      /\ ~in.ptr => c = 1 /\ Len(in.to) = 1
      /\ CalleeOf(P, x, n) = in.to[c]
  BY CallFacts
<1>2. x = <<x[1], x[2], x[3]>>
  BY InstrsFacts
<1>3. node = <<x[1], x[2], x[3], n, CalleeType(in.to[c].k)>>
  BY <1>1 DEF CallNode, CalleeFirst, Node
<1>4. /\ NodeInstr(node) = x /\ NodeType(node) = CalleeType(in.to[c].k) /\ node[4] = n
      /\ CalleeOfNode(P, node) = in.to[c]
  BY <1>1, <1>2, <1>3 DEF NodeInstr, NodeType, CalleeOfNode
<1>5. node \in CalleeNodes(P, in.to[c].k)
  BY DEF CalleeNodes, CallNode, CalleeNumber
<1>6. InstrEdges(P, x) \subseteq Edges(P)
  BY InstrEdgesBuilt
<1>7. CalleeEdges(P, x, n) \subseteq InstrEdges(P, x)
  <2>1. CASE in.ptr
    <3>1. CalleeEdges(P, x, c) \subseteq PointerCallEdges(P, x)
      BY <1>1 DEF PointerCallEdges
    <3> QED
      BY <2>1, <3>1 DEF InstrEdges, CalleeNumber, IsCallInst
  <2>2. CASE ~in.ptr
    BY <2>2 DEF InstrEdges, CalleeNumber, IsCallInst
  <2> QED
    BY <1>1, <2>1, <2>2
<1>8. in.to[c].k = "fun" => \A f \in in.to[c].fns : <<node, EntryNode(f)>> \in CalleeEdges(P, x, n)
  BY <1>1 DEF CalleeEdges, CallNode
<1>9. FirstNode(P, x) = node \/ <<FirstNode(P, x), node>> \in InstrEdges(P, x)
  <2>1. CASE in.ptr
    <3>1. <<FirstNode(P, x), CalleeFirst(P, x, c)>> \in PointerCallEdges(P, x)
      BY <1>1 DEF PointerCallEdges
    <3> QED
      BY <2>1, <3>1 DEF InstrEdges, CalleeNumber, IsCallInst, CallNode
  <2>2. CASE ~in.ptr
    BY <2>2 DEF FirstNode, CalleeNumber, IsCallInst, CallNode
  <2> QED
    BY <1>1, <2>1, <2>2
<1> QED
  BY <1>4, <1>5, <1>6, <1>7, <1>8, <1>9

(* And how it comes from there to the next instruction.                    *)
LEMMA CallLastFacts ==
  ASSUME NEW P, WellFormed(P), NEW x \in Instrs(P), NEW c \in DOMAIN InstrAt(P, x).to,
         IsCallInst(P, x), InstrAt(P, x).to[c].k # "exit"
  PROVE  /\ InstrAt(P, x).to[c].k # "fun" => CallLast(P, x, c) = CallNode(P, x, c)
         /\ \A f : InstrAt(P, x).to[c].k = "fun" /\ InstrAt(P, x).to[c].fns = {f} =>
              CallLast(P, x, c) = ExitNode(f)
         /\ LastNode(P, x) = CallLast(P, x, c) \/
              /\ <<CallLast(P, x, c), LastNode(P, x)>> \in Edges(P)
              /\ NodeType(LastNode(P, x)) = "CALL_RETURN"
         /\ NodeType(LastNode(P, x)) # "RETURN"
<1> DEFINE in == InstrAt(P, x)  n == CalleeNumber(P, x, c)  l == CallLast(P, x, c)
<1>1. /\ in.ptr \in BOOLEAN /\ c \in 1 .. Len(in.to) /\ Len(in.to) \in Nat \ {0}
      /\ ~in.ptr => c = 1 /\ Len(in.to) = 1
      /\ CalleeOf(P, x, n) = in.to[c] /\ LegalCallee(P, in.to[c])
  BY CallFacts
<1>2. in.to[c].k # "fun" => l = CallNode(P, x, c)
  BY <1>1 DEF CallLast, CalleeLast, CallNode
<1>3. \A f : in.to[c].k = "fun" /\ in.to[c].fns = {f} => l = ExitNode(f)
  BY <1>1 DEF CallLast, CalleeLast
<1>4. NodeType(l) # "RETURN"
  <2>1. CASE in.to[c].k = "fun"
    <3>1. PICK f \in DOMAIN P : in.to[c].fns = {f}
      BY <1>1, <2>1 DEF LegalCallee
    <3> QED
      BY <1>3, <2>1, <3>1 DEF ExitNode, NodeType
  <2>2. CASE in.to[c].k # "fun"
    BY <1>2, <2>2, CallNodeFacts DEF CalleeType
  <2> QED
    BY <2>1, <2>2
<1>5. CASE in.ptr /\ Len(in.to) > 1
  <2>1. LastNode(P, x) = <<x[1], x[2], x[3], 0, "CALL_RETURN">>
    BY <1>1, <1>5 DEF LastNode, Node, IsCallInst
  <2> DEFINE edges(d) == {<<FirstNode(P, x), CalleeFirst(P, x, d)>>} \cup CalleeEdges(P, x, d)
                           \cup (IF Len(in.to) > 1 THEN {<<CalleeLast(P, x, d), LastNode(P, x)>>}
                                                   ELSE {})
  <2>2. <<CalleeLast(P, x, c), LastNode(P, x)>> \in PointerCallEdges(P, x)
    <3>1. PointerCallEdges(P, x) = UNION {edges(d) : d \in DOMAIN in.to}
      BY <1>5 DEF PointerCallEdges
    <3>2. <<CalleeLast(P, x, c), LastNode(P, x)>> \in edges(c)
      BY <1>5
    <3> HIDE DEF edges
    <3> QED
      BY <3>1, <3>2
  <2>3. <<l, LastNode(P, x)>> \in Edges(P)
    BY <1>5, <2>2, InstrEdgesBuilt DEF InstrEdges, IsCallInst, CallLast, CalleeNumber
  <2> QED
    BY <1>2, <1>3, <2>1, <2>3 DEF NodeType
<1>6. CASE ~(in.ptr /\ Len(in.to) > 1)
  <2>1. LastNode(P, x) = l
    <3>1. CASE in.ptr
      <4>1. Len(in.to) = 1 /\ c = 1
        <5>1. PICK k \in Nat : k = Len(in.to) /\ k # 0 /\ ~(k > 1)
          BY <1>1, <1>6, <3>1, Zenon
        <5>2. k = 1
          BY <5>1
        <5>3. c \in 1 .. 1
          BY <1>1, <5>1, <5>2, Zenon
        <5> QED
          BY <5>1, <5>2, <5>3
      <4>2. LastNode(P, x) = CalleeLast(P, x, 1)
        BY <1>1, <3>1, <4>1 DEF LastNode, IsCallInst
      <4> QED
        BY <3>1, <4>1, <4>2 DEF CallLast, CalleeNumber
    <3>2. CASE ~in.ptr
      BY <3>2 DEF LastNode, IsCallInst, CallLast, CalleeNumber
    <3> QED
      BY <1>1, <3>1, <3>2
  <2> QED
    BY <1>2, <1>3, <1>4, <2>1
<1> QED
  BY <1>5, <1>6

-----------------------------------------------------------------------------
(* A thread moves along the edges of the graph.  X is a set of nodes that  *)
(* edges do not leave, except at the unlocks S.                            *)
Keeps(P, X, S) ==
  /\ \A n \in S : NodeType(n) = "UNLOCK"
  /\ \A e \in Edges(P) : e[1] \in X \ S => e[2] \in X

LEMMA EdgeStays ==
  ASSUME NEW P, NEW X, NEW S, Keeps(P, X, S), NEW a \in X, NEW b, <<a, b>> \in Edges(P),
         a \notin S \/ NodeType(a) # "UNLOCK"
  PROVE  b \in X
<1>1. a \in X \ S
  BY DEF Keeps
<1>2. <<a, b>>[1] = a /\ <<a, b>>[2] = b
  OBVIOUS
<1> QED
  BY <1>1, <1>2, Zenon DEF Keeps

LEMMA AccessStays ==
  ASSUME NEW P, WellFormed(P), NEW x \in Instrs(P), InstrAt(P, x).op \in {"load", "store"},
         NEW X, NEW S, Keeps(P, X, S), FirstNode(P, x) \in X
  PROVE  NextPoint(x) \in Instrs(P) /\ FirstNode(P, NextPoint(x)) \in X
<1>1. FirstNode(P, x) = <<x[1], x[2], x[3], 0, "GENERAL">> /\ LastNode(P, x) = FirstNode(P, x)
  BY DEF FirstNode, LastNode, Node
<1>2. NodeType(FirstNode(P, x)) = "GENERAL"
  BY <1>1 DEF NodeType
<1> QED
  BY <1>1, <1>2, NextBuilt, EdgeStays

LEMMA BranchStays ==
  ASSUME NEW P, WellFormed(P), NEW x \in Instrs(P), InstrAt(P, x).op = "br",
         NEW k \in P[x[1]][x[2]].succ,
         NEW X, NEW S, Keeps(P, X, S), FirstNode(P, x) \in X
  PROVE  <<x[1], k, 1>> \in Instrs(P) /\ FirstNode(P, <<x[1], k, 1>>) \in X
<1>1. NodeType(FirstNode(P, x)) = "GENERAL"
  BY DEF FirstNode, NodeType, Node
<1> QED
  BY <1>1, BranchBuilt, EdgeStays

LEMMA CallNodeStays ==
  ASSUME NEW P, WellFormed(P), NEW x \in Instrs(P), NEW c \in DOMAIN InstrAt(P, x).to,
         IsCallInst(P, x), NEW X, NEW S, Keeps(P, X, S), FirstNode(P, x) \in X
  PROVE  CallNode(P, x, c) \in X
<1>1. CASE InstrAt(P, x).ptr
  <2>1. NodeType(FirstNode(P, x)) = "CALL_FUNCPTR"
    BY <1>1 DEF FirstNode, NodeType, Node, IsCallInst
  <2> QED
    BY <2>1, CallNodeFacts, EdgeStays
<1>2. CASE ~InstrAt(P, x).ptr
  BY <1>2 DEF CallNode, CalleeNumber, FirstNode, IsCallInst
<1> QED
  BY <1>1, <1>2

LEMMA PassStays ==
  ASSUME NEW P, WellFormed(P), NEW x \in Instrs(P), NEW c \in DOMAIN InstrAt(P, x).to,
         IsCallInst(P, x), InstrAt(P, x).to[c].k \notin {"fun", "exit"},
         NEW X, NEW S, Keeps(P, X, S), CallNode(P, x, c) \in X \ S
  PROVE  NextPoint(x) \in Instrs(P) /\ FirstNode(P, NextPoint(x)) \in X
<1>1. /\ CallLast(P, x, c) = CallNode(P, x, c)
      /\ LastNode(P, x) = CallLast(P, x, c) \/
           /\ <<CallLast(P, x, c), LastNode(P, x)>> \in Edges(P)
           /\ NodeType(LastNode(P, x)) = "CALL_RETURN"
      /\ NodeType(LastNode(P, x)) # "RETURN"
  BY CallLastFacts
<1>2. LastNode(P, x) \in X /\ (LastNode(P, x) \notin S \/ NodeType(LastNode(P, x)) # "UNLOCK")
  BY <1>1, EdgeStays
<1>3. /\ NextPoint(x) \in Instrs(P)
      /\ <<LastNode(P, x), FirstNode(P, NextPoint(x))>> \in Edges(P)
  BY <1>1, NextBuilt DEF IsCallInst
<1> QED
  BY <1>2, <1>3, EdgeStays

LEMMA EnterStays ==
  ASSUME NEW P, WellFormed(P), NEW x \in Instrs(P), NEW c \in DOMAIN InstrAt(P, x).to,
         IsCallInst(P, x), InstrAt(P, x).to[c].k = "fun", NEW f \in InstrAt(P, x).to[c].fns,
         NEW X, NEW S, Keeps(P, X, S), FirstNode(P, x) \in X
  PROVE  <<f, 1, 1>> \in Instrs(P) /\ FirstNode(P, <<f, 1, 1>>) \in X
<1>1. CallNode(P, x, c) \in X
  BY CallNodeStays
<1>2. /\ NodeType(CallNode(P, x, c)) = "CALL"
      /\ <<CallNode(P, x, c), EntryNode(f)>> \in Edges(P)
  BY CallNodeFacts DEF CalleeType
<1>3. EntryNode(f) \in X
  BY <1>1, <1>2, EdgeStays
<1>4. f \in BuiltFunctions(P)
  BY FunctionsClosed
<1>5. NodeType(EntryNode(f)) = "ENTRY"
  BY DEF EntryNode, NodeType
<1> QED
  BY <1>3, <1>4, <1>5, EntryBuilt, EdgeStays

(* A call y of the function that x returns from.                           *)
CallsFun(P, y, f) ==
  /\ IsCallInst(P, y)
  /\ \E c \in DOMAIN InstrAt(P, y).to :
       InstrAt(P, y).to[c].k = "fun" /\ InstrAt(P, y).to[c].fns = {f}

LEMMA ReturnStays ==
  ASSUME NEW P, WellFormed(P), NEW x \in Instrs(P), InstrAt(P, x).op = "ret",
         NEW y \in Instrs(P), CallsFun(P, y, x[1]),
         NEW X, NEW S, Keeps(P, X, S), FirstNode(P, x) \in X
  PROVE  NextPoint(y) \in Instrs(P) /\ FirstNode(P, NextPoint(y)) \in X
<1>1. PICK c \in DOMAIN InstrAt(P, y).to :
        InstrAt(P, y).to[c].k = "fun" /\ InstrAt(P, y).to[c].fns = {x[1]}
  BY DEF CallsFun
<1>2. IsCallInst(P, y)
  BY DEF CallsFun
<1>3. /\ CallLast(P, y, c) = ExitNode(x[1])
      /\ LastNode(P, y) = CallLast(P, y, c) \/
           /\ <<CallLast(P, y, c), LastNode(P, y)>> \in Edges(P)
           /\ NodeType(LastNode(P, y)) = "CALL_RETURN"
      /\ NodeType(LastNode(P, y)) # "RETURN"
  BY <1>1, <1>2, CallLastFacts
<1>4. NodeType(FirstNode(P, x)) = "RETURN" /\ NodeType(ExitNode(x[1])) = "EXIT"
  BY DEF FirstNode, NodeType, Node, ExitNode
<1>5. ExitNode(x[1]) \in X
  BY <1>4, BranchBuilt, EdgeStays
<1>6. LastNode(P, y) \in X /\ NodeType(LastNode(P, y)) # "UNLOCK"
  BY <1>3, <1>4, <1>5, EdgeStays
<1>7. /\ NextPoint(y) \in Instrs(P)
      /\ <<LastNode(P, y), FirstNode(P, NextPoint(y))>> \in Edges(P)
  BY <1>2, <1>3, NextBuilt DEF IsCallInst
<1> QED
  BY <1>6, <1>7, EdgeStays

-----------------------------------------------------------------------------
(* Pointer analysis and the graph.                                         *)

PtaTyped ==
  pta \in [known : SUBSET Forks, fresh : SUBSET Joins,
           functions : [Joins -> SUBSET DOMAIN prog], forks : [Joins -> SUBSET Forks]]

(* A join has every function that the forks it is matched with may spawn,  *)
(* and for every function a fork that may spawn it.                        *)
JoinsMatched ==
  \A j \in Joins :
    /\ \A g \in pta.functions[j] : \E f \in pta.forks[j] : g \in CalleeOfNode(prog, f).fns
    /\ j \in pta.fresh =>
         \A f \in MatchedForks(j) : CalleeOfNode(prog, f).fns \subseteq pta.functions[j]

Built ==
  phase # "pta" =>
    /\ cfg = GraphOf(Edges(prog), ThreadEdges)
    /\ Forks \subseteq pta.known /\ Joins \subseteq pta.fresh

BuildInv ==
  /\ prog \in Programs
  /\ phase \in {"pta", "locks", "regions", "run"}
  /\ PtaTyped /\ JoinsMatched /\ Built

LEMMA CalleeNodeFacts ==
  ASSUME NEW P, WellFormed(P), NEW k, NEW n \in CalleeNodes(P, k)
  PROVE  /\ \E x \in Instrs(P) : \E c \in DOMAIN InstrAt(P, x).to :
              IsCallInst(P, x) /\ InstrAt(P, x).to[c].k = k /\ n = CallNode(P, x, c)
         /\ CalleeOfNode(P, n).k = k /\ CalleeOfNode(P, n).fns \subseteq DOMAIN P
         /\ NodeType(n) = CalleeType(k) /\ NodeInstr(n) \in Instrs(P)
<1>1. PICK x \in Instrs(P) : \E c \in DOMAIN InstrAt(P, x).to :
        InstrAt(P, x).to[c].k = k /\ n = CallNode(P, x, c)
  BY DEF CalleeNodes, CallNode, CalleeNumber
<1>2. PICK c \in DOMAIN InstrAt(P, x).to : InstrAt(P, x).to[c].k = k /\ n = CallNode(P, x, c)
  BY <1>1
<1>3. IsCallInst(P, x)
  <2>1. LegalInstr(P, InstrAt(P, x))
    BY InstrsFacts
  <2>2. ASSUME InstrAt(P, x).to = <<>> PROVE FALSE
    <3>1. c \in DOMAIN <<>>
      BY <2>2
    <3> QED
      BY <3>1
  <2> QED
    BY <2>1, <2>2 DEF LegalInstr, IsCallInst
<1>4. LegalCallee(P, InstrAt(P, x).to[c])
  BY <1>3, CallFacts
<1>5. /\ CalleeOfNode(P, n) = InstrAt(P, x).to[c] /\ NodeInstr(n) = x
      /\ NodeType(n) = CalleeType(k)
  BY <1>2, <1>3, CallNodeFacts
<1> QED
  BY <1>2, <1>3, <1>4, <1>5 DEF LegalCallee

LEMMA InitBuildInv == Init => BuildInv
<1> SUFFICES ASSUME Init PROVE BuildInv
  OBVIOUS
<1>1. /\ prog \in Programs /\ phase = "pta"
      /\ pta = [known |-> {f \in Forks : CalleeOfNode(prog, f).now}, fresh |-> {},
                functions |-> [j \in Joins |-> {}], forks |-> [j \in Joins |-> {}]]
  BY DEF Init, BuilderInit
<1>2. PtaTyped
  BY <1>1 DEF PtaTyped
<1>3. JoinsMatched
  BY <1>1 DEF JoinsMatched
<1> QED
  BY <1>1, <1>2, <1>3 DEF BuildInv, Built

(* What a step may change of the program, the phase and the graph.         *)
Calm == UNCHANGED <<prog, pta, cfg>>

LEMMA BuildSteps ==
  ASSUME [Next]_<<vars, execVars>>
  PROVE  \/ \E f \in Forks : Learn(f)
         \/ \E j \in Joins : matchJoinToRightCreate(j)
         \/ BuildGraph
         \/ Calm /\ phase' = phase
         \/ Calm /\ phase = "locks" /\ phase' = "regions"
         \/ Calm /\ phase = "regions" /\ phase' = "run"
<1>1. CASE BuilderNext
  <2>1. CASE \E l \in Locks : buildCriticalSection(l)
    BY <2>1 DEF buildCriticalSection, Calm
  <2>2. CASE \E s \in cfg.nodes : VisitSuccessor(s)
    BY <2>2 DEF VisitSuccessor, Calm
  <2>3. CASE PostVisit
    BY <2>3 DEF PostVisit, Calm
  <2>4. CASE build
    BY <2>4 DEF build, Calm
  <2>5. CASE \E s \in cfg.nodes : Visit(s)
    BY <2>5 DEF Visit, Calm
  <2>6. CASE Examine
    BY <2>6 DEF Examine, Calm
  <2>7. CASE ComputeDependencies
    BY <2>7 DEF ComputeDependencies, Calm
  <2> QED
    BY <1>1, <2>1, <2>2, <2>3, <2>4, <2>5, <2>6, <2>7 DEF BuilderNext
<1>2. CASE Step
  BY <1>2 DEF Step, vars, Calm
<1>3. CASE UNCHANGED <<vars, execVars>>
  BY <1>3 DEF vars, Calm
<1> QED
  BY <1>1, <1>2, <1>3 DEF Next

LEMMA CalmBuildInv ==
  ASSUME BuildInv, Calm, phase' \in {"locks", "regions", "run"} \/ phase' = phase,
         phase = "pta" => phase' = "pta"
  PROVE  BuildInv'
<1>1. Forks' = Forks /\ Joins' = Joins /\ Edges(prog)' = Edges(prog)
  BY DEF Calm, Forks, Joins
<1>2. ThreadEdges' = ThreadEdges
  BY <1>1 DEF Calm, ThreadEdges, JoinEdges
<1>3. PtaTyped'
  BY <1>1 DEF BuildInv, Calm, PtaTyped
<1>4. JoinsMatched'
  BY <1>1 DEF BuildInv, Calm, JoinsMatched, MatchedForks, Handles
<1>5. Built'
  BY <1>1, <1>2 DEF BuildInv, Calm, Built
<1> QED
  BY <1>3, <1>4, <1>5 DEF BuildInv, Calm

LEMMA LearnBuildInv ==
  ASSUME BuildInv, NEW fork \in Forks, Learn(fork)
  PROVE  BuildInv'
<1>1. /\ phase = "pta" /\ phase' = "pta" /\ prog' = prog
      /\ pta' = [pta EXCEPT !.known = @ \cup {fork}, !.fresh = {}]
  BY DEF Learn
<1>2. Forks' = Forks /\ Joins' = Joins
  BY <1>1 DEF Forks, Joins
<1>3. PtaTyped
  BY DEF BuildInv
<1>4. PtaTyped'
  BY <1>1, <1>2, <1>3 DEF PtaTyped
<1>5. pta'.functions = pta.functions /\ pta'.forks = pta.forks /\ pta'.fresh = {}
  BY <1>1, <1>3 DEF PtaTyped
<1>6. JoinsMatched'
  BY <1>1, <1>2, <1>5 DEF BuildInv, JoinsMatched
<1> QED
  BY <1>1, <1>4, <1>6 DEF BuildInv, Built

LEMMA MatchBuildInv ==
  ASSUME BuildInv, NEW j \in Joins, matchJoinToRightCreate(j)
  PROVE  BuildInv'
<1> DEFINE spawned(f) == CalleeOfNode(prog, f).fns
           all == UNION {spawned(f) : f \in MatchedForks(j)}
<1>1. /\ phase = "pta" /\ phase' = "pta" /\ prog' = prog
      /\ pta' = [pta EXCEPT !.functions[j] = @ \cup all,
                            !.forks[j] = @ \cup AddedForks(j), !.fresh = @ \cup {j}]
  BY DEF matchJoinToRightCreate
<1>2. Forks' = Forks /\ Joins' = Joins
  BY <1>1 DEF Forks, Joins
<1>3. prog \in Programs /\ WellFormed(prog) /\ PtaTyped /\ JoinsMatched
  BY ProgramsAssumption DEF BuildInv
<1>4. MatchedForks(j) \subseteq Forks /\ AddedForks(j) \subseteq Forks
  BY <1>3 DEF MatchedForks, AddedForks, PtaTyped
<1>5. all \subseteq DOMAIN prog
  BY <1>3, <1>4, CalleeNodeFacts DEF Forks
<1> HIDE DEF all
<1>6. /\ pta'.known = pta.known /\ pta'.fresh = pta.fresh \cup {j}
      /\ pta'.functions = [pta.functions EXCEPT ![j] = @ \cup all]
      /\ pta'.forks = [pta.forks EXCEPT ![j] = @ \cup AddedForks(j)]
      /\ pta' \in [known : SUBSET Forks, fresh : SUBSET Joins,
                   functions : [Joins -> SUBSET DOMAIN prog], forks : [Joins -> SUBSET Forks]]
  BY <1>1, <1>3, <1>4, <1>5 DEF PtaTyped
<1>7. PtaTyped'
  BY <1>1, <1>2, <1>6 DEF PtaTyped
<1>8. \A i : MatchedForks(i)' = MatchedForks(i)
  BY <1>1, <1>6 DEF MatchedForks, Handles
<1>9. ASSUME NEW i \in Joins
      PROVE  /\ \A g \in pta'.functions[i] : \E f \in pta'.forks[i] : g \in spawned(f)
             /\ i \in pta'.fresh => \A f \in MatchedForks(i) : spawned(f) \subseteq pta'.functions[i]
  <2>1. CASE i # j
    <3>1. pta'.functions[i] = pta.functions[i] /\ pta'.forks[i] = pta.forks[i]
      BY <1>3, <1>6, <2>1 DEF PtaTyped
    <3> QED
      BY <1>3, <1>6, <2>1, <3>1 DEF JoinsMatched
  <2>2. CASE i = j
    <3>1. pta'.functions[j] = pta.functions[j] \cup all
      BY <1>3, <1>6 DEF PtaTyped
    <3>2. pta'.forks[j] = pta.forks[j] \cup AddedForks(j)
      BY <1>3, <1>6 DEF PtaTyped
    <3>3. ASSUME NEW g \in all, g \notin pta.functions[j]
          PROVE  \E f \in AddedForks(j) : g \in spawned(f)
      <4>1. PICK f \in MatchedForks(j) : g \in spawned(f)
        BY DEF all
      <4>2. NewFunctions(j, f) # {}
        BY <3>3, <4>1 DEF NewFunctions
      <4>3. f \in AddedForks(j)
        BY <4>2 DEF AddedForks
      <4> QED
        BY <4>1, <4>3
    <3>4. \A g \in pta.functions[j] : \E f \in pta.forks[j] : g \in spawned(f)
      BY <1>3 DEF JoinsMatched
    <3>5. \A f \in MatchedForks(j) : spawned(f) \subseteq all
      BY DEF all
    <3> QED
      BY <2>2, <3>1, <3>2, <3>3, <3>4, <3>5
  <2> QED
    BY <2>1, <2>2
<1>10. JoinsMatched'
  BY <1>1, <1>2, <1>8, <1>9 DEF JoinsMatched
<1> QED
  BY <1>1, <1>7, <1>10 DEF BuildInv, Built

LEMMA NextBuildInv ==
  ASSUME BuildInv, [Next]_<<vars, execVars>>
  PROVE  BuildInv' /\ prog' = prog
<1>1. CASE \E f \in Forks : Learn(f)
  BY <1>1, LearnBuildInv DEF Learn
<1>2. CASE \E j \in Joins : matchJoinToRightCreate(j)
  BY <1>2, MatchBuildInv DEF matchJoinToRightCreate
<1>3. CASE BuildGraph
  <2>1. /\ phase' = "locks" /\ prog' = prog /\ pta' = pta
        /\ Forks \subseteq pta.known /\ Joins \subseteq pta.fresh
        /\ cfg' = GraphOf(Edges(prog), ThreadEdges)
    BY <1>3 DEF BuildGraph
  <2>2. Forks' = Forks /\ Joins' = Joins
    BY <2>1 DEF Forks, Joins
  <2>3. ThreadEdges' = ThreadEdges
    BY <2>1, <2>2 DEF ThreadEdges, JoinEdges
  <2>4. PtaTyped'
    BY <2>1, <2>2 DEF BuildInv, PtaTyped
  <2>5. JoinsMatched'
    BY <2>1, <2>2 DEF BuildInv, JoinsMatched, MatchedForks, Handles
  <2>6. Built'
    BY <2>1, <2>2, <2>3 DEF Built
  <2> QED
    BY <2>1, <2>4, <2>5, <2>6 DEF BuildInv
<1>4. CASE Calm /\ phase' = phase
  BY <1>4, CalmBuildInv DEF Calm
<1>5. CASE Calm /\ phase = "locks" /\ phase' = "regions"
  BY <1>5, CalmBuildInv DEF Calm
<1>6. CASE Calm /\ phase = "regions" /\ phase' = "run"
  BY <1>6, CalmBuildInv DEF Calm
<1> QED
  BY <1>1, <1>2, <1>3, <1>4, <1>5, <1>6, BuildSteps

-----------------------------------------------------------------------------
(* Stacks of frames.                                                       *)

LEMMA AdvancedFacts ==
  ASSUME NEW F, NEW stack \in Seq(F), stack # <<>>, NEW s, Without(stack[1], s) \in F
  PROVE  /\ Advanced(stack, s) \in Seq(F)
         /\ Len(Advanced(stack, s)) = Len(stack)
         /\ Advanced(stack, s)[1] = Without(stack[1], s)
         /\ \A i \in 2 .. Len(stack) : Advanced(stack, s)[i] = stack[i]
<1> DEFINE fr == Without(stack[1], s)
<1>1. Advanced(stack, s) = <<fr>> \o Tail(stack)
  BY DEF Advanced
<1> HIDE DEF fr
<1>2. /\ <<fr>> \in Seq(F) /\ Len(<<fr>>) = 1 /\ Tail(stack) \in Seq(F)
      /\ Len(stack) \in Nat \ {0} /\ Len(Tail(stack)) = Len(stack) - 1
      /\ \A i \in 1 .. Len(stack) - 1 : Tail(stack)[i] = stack[i + 1]
  BY DEF fr
<1>3. /\ <<fr>> \o Tail(stack) \in Seq(F) /\ Len(<<fr>> \o Tail(stack)) = Len(stack)
      /\ (<<fr>> \o Tail(stack))[1] = fr
  BY <1>2
<1>4. ASSUME NEW i \in 2 .. Len(stack) PROVE (<<fr>> \o Tail(stack))[i] = stack[i]
  <2>1. (<<fr>> \o Tail(stack))[i] = Tail(stack)[i - 1]
    BY <1>2
  <2> QED
    BY <1>2, <2>1
<1> QED
  BY <1>1, <1>3, <1>4 DEF fr

LEMMA PushedFacts ==
  ASSUME NEW F, NEW stack \in Seq(F), NEW fr \in F
  PROVE  /\ <<fr>> \o stack \in Seq(F) /\ <<fr>> \o stack # <<>>
         /\ Len(stack) \in Nat /\ Len(<<fr>> \o stack) = Len(stack) + 1
         /\ (<<fr>> \o stack)[1] = fr
         /\ \A i \in 1 .. Len(stack) : (<<fr>> \o stack)[i + 1] = stack[i]
         /\ \A i \in 2 .. Len(stack) + 1 :
              i - 1 \in 1 .. Len(stack) /\ (<<fr>> \o stack)[i] = stack[i - 1]
  OBVIOUS

LEMMA OneFacts ==
  ASSUME NEW F, NEW e \in F
  PROVE  <<e>> \in Seq(F) /\ Len(<<e>>) = 1 /\ <<e>>[1] = e /\ DOMAIN <<e>> = {1}
<1>1. <<e>> \in Seq(F) /\ Len(<<e>>) = 1 /\ <<e>>[1] = e
  OBVIOUS
<1>2. DOMAIN <<e>> = 1 .. 1
  BY <1>1
<1> QED
  BY <1>1, <1>2

LEMMA PoppedFacts ==
  ASSUME NEW F, NEW stack \in Seq(F), stack # <<>>
  PROVE  /\ Popped(stack) \in Seq(F)
         /\ Len(stack) \in Nat \ {0} /\ Len(Popped(stack)) = Len(stack) - 1
         /\ \A i \in 1 .. Len(stack) - 1 : Popped(stack)[i] = stack[i + 1]
         /\ Head(stack) = stack[1] /\ stack[1] \in F
  BY DEF Popped

Remaining(fr) == fr.thr \cup fr.succ

(* Frames of nodes of the graph.                                           *)
Ends == UNION {AllSuccessors(n) : n \in cfg.nodes}
Frames == [node : cfg.nodes, thr : SUBSET Ends, succ : SUBSET Ends]

(* What is left of a frame are successors of its node.                     *)
Fits(fr) == fr.thr \subseteq cfg.thr[fr.node] /\ fr.succ \subseteq cfg.succ[fr.node]

LEMMA FrameFacts ==
  ASSUME NEW n \in cfg.nodes
  PROVE  /\ Frame(n) \in Frames /\ Fits(Frame(n)) /\ Frame(n).node = n
         /\ Remaining(Frame(n)) = AllSuccessors(n)
         /\ LastFrame(n) \in Frames /\ Fits(LastFrame(n)) /\ LastFrame(n).node = n
         /\ Remaining(LastFrame(n)) = {}
<1>1. cfg.thr[n] \subseteq Ends /\ cfg.succ[n] \subseteq Ends
  BY DEF Ends, AllSuccessors
<1> QED
  BY <1>1 DEF Frame, LastFrame, Frames, Fits, Remaining, AllSuccessors

LEMMA WithoutFacts ==
  ASSUME NEW fr \in Frames, NEW s \in NextSuccessors(fr)
  PROVE  /\ Without(fr, s) \in Frames /\ Without(fr, s).node = fr.node
         /\ Without(fr, s).thr \subseteq fr.thr /\ Without(fr, s).succ \subseteq fr.succ
         /\ Remaining(fr) \subseteq Remaining(Without(fr, s)) \cup {s}
         /\ s \in Remaining(fr)
         /\ s \in Remaining(Without(fr, s)) => s \in fr.thr /\ s \in fr.succ
         /\ Fits(fr) => Fits(Without(fr, s))
<1>1. CASE fr.thr # {}
  <2>1. Without(fr, s) = [fr EXCEPT !.thr = @ \ {s}] /\ s \in fr.thr
    BY <1>1 DEF Without, NextSuccessors
  <2> QED
    BY <2>1 DEF Frames, Remaining, Fits
<1>2. CASE fr.thr = {}
  <2>1. Without(fr, s) = [fr EXCEPT !.succ = @ \ {s}] /\ s \in fr.succ
    BY <1>2 DEF Without, NextSuccessors
  <2> QED
    BY <1>2, <2>1 DEF Frames, Remaining, Fits
<1> QED
  BY <1>1, <1>2

LEMMA NothingLeft ==
  ASSUME NEW fr, NextSuccessors(fr) = {}
  PROVE  Remaining(fr) = {}
  BY DEF NextSuccessors, Remaining

(* A step of a search on a stack of frames that fit.                       *)
LEMMA AdvancedFits ==
  ASSUME NEW stack \in Seq(Frames), stack # <<>>, NEW s \in NextSuccessors(Head(stack)),
         \A i \in 1 .. Len(stack) : Fits(stack[i])
  PROVE  /\ Advanced(stack, s) \in Seq(Frames)
         /\ Len(Advanced(stack, s)) = Len(stack) /\ Len(stack) \in Nat \ {0}
         /\ \A i \in 1 .. Len(stack) :
              /\ stack[i] \in Frames
              /\ Fits(Advanced(stack, s)[i])
              /\ Advanced(stack, s)[i].node = stack[i].node
              /\ Remaining(Advanced(stack, s)[i]) \subseteq Remaining(stack[i])
              /\ Remaining(stack[i]) \subseteq Remaining(Advanced(stack, s)[i]) \cup {s}
              /\ i # 1 => Advanced(stack, s)[i] = stack[i]
         /\ s \in Remaining(stack[1])
         /\ s \in Remaining(Advanced(stack, s)[1]) => s \in stack[1].thr /\ s \in stack[1].succ
<1>1. Head(stack) = stack[1] /\ stack[1] \in Frames /\ Len(stack) \in Nat \ {0}
  BY PoppedFacts
<1>2. /\ Without(stack[1], s) \in Frames /\ Without(stack[1], s).node = stack[1].node
      /\ Remaining(Without(stack[1], s)) \subseteq Remaining(stack[1])
      /\ Remaining(stack[1]) \subseteq Remaining(Without(stack[1], s)) \cup {s}
      /\ Fits(Without(stack[1], s))
      /\ s \in Remaining(stack[1])
      /\ s \in Remaining(Without(stack[1], s)) => s \in stack[1].thr /\ s \in stack[1].succ
  <2>1. Fits(stack[1])
    BY <1>1
  <2> QED
    BY <1>1, <2>1, WithoutFacts DEF Remaining
<1>3. /\ Advanced(stack, s) \in Seq(Frames) /\ Len(Advanced(stack, s)) = Len(stack)
      /\ Advanced(stack, s)[1] = Without(stack[1], s)
      /\ \A i \in 2 .. Len(stack) : Advanced(stack, s)[i] = stack[i]
  BY <1>2, AdvancedFacts
<1>4. \A i \in 1 .. Len(stack) : i = 1 \/ i \in 2 .. Len(stack)
  BY <1>1
<1>5. \A i \in 1 .. Len(stack) : stack[i] \in Frames
  OBVIOUS
<1> QED
  BY <1>1, <1>2, <1>3, <1>4, <1>5

-----------------------------------------------------------------------------
(* Thread regions.                                                         *)

RegionsIdle ==
  tr = [founding |-> <<>>, visited |-> NoMap, examined |-> NoMap, succ |-> {},
        stack |-> NoFrames]

RegionsTyped ==
  /\ tr = [founding |-> tr.founding, visited |-> tr.visited, examined |-> tr.examined,
           succ |-> tr.succ, stack |-> tr.stack]
  /\ tr.stack \in Seq(Frames) /\ tr.founding \in Seq(cfg.nodes)
  /\ DOMAIN tr.visited \cup DOMAIN tr.examined \subseteq cfg.nodes
  /\ DOMAIN tr.visited \cap DOMAIN tr.examined = {}

(* The visited nodes are those on the stack, each once; whatever is gone   *)
(* from a frame has a region.                                              *)
RegionsOnStack ==
  /\ \A i \in 1 .. Len(tr.stack) :
       /\ tr.stack[i].node \in DOMAIN tr.visited /\ Fits(tr.stack[i])
       /\ AllSuccessors(tr.stack[i].node) \subseteq
            Remaining(tr.stack[i]) \cup {n \in cfg.nodes : HasRegion(n)}
  /\ \A n \in DOMAIN tr.visited : \E i \in 1 .. Len(tr.stack) : tr.stack[i].node = n
  /\ \A i, j \in 1 .. Len(tr.stack) : tr.stack[i].node = tr.stack[j].node => i = j
  /\ \A n \in DOMAIN tr.examined : AllSuccessors(n) \subseteq {m \in cfg.nodes : HasRegion(m)}

(* s is in the region of its only predecessor, and will not be met again.  *)
OnlyFrom(n, s) == \A m \in cfg.nodes : s \in AllSuccessors(m) => m = n

Inherited(s) ==
  /\ \E n \in cfg.nodes :
       /\ HasRegion(n) /\ RegionOf(n) = RegionOf(s)
       /\ s \in AllSuccessors(n) /\ OnlyFrom(n, s)
  /\ \A i \in 1 .. Len(tr.stack) : s \notin Remaining(tr.stack[i])

RegionsFounded ==
  /\ \A s \in cfg.nodes : HasRegion(s) =>
       /\ RegionOf(s) \in DOMAIN tr.founding
       /\ tr.founding[RegionOf(s)] = s \/ Inherited(s)
  /\ \A r \in DOMAIN tr.founding : HasRegion(tr.founding[r]) /\ RegionOf(tr.founding[r]) = r

RegionsBusy ==
  RegionsTyped /\ RegionsOnStack /\ RegionsFounded /\ HasRegion(EntryNode(Main))

RegionsInv ==
  /\ phase \in {"pta", "locks"} => RegionsIdle
  /\ phase \in {"regions", "run"} => RegionsBusy
  /\ phase = "run" => tr.stack = NoFrames

LEMMA GraphFacts ==
  ASSUME BuildInv, phase # "pta"
  PROVE  /\ cfg.nodes = UNION {{e[1], e[2]} : e \in Edges(prog)}
         /\ \A n \in cfg.nodes : /\ cfg.succ[n] = Outgoing(Edges(prog), n)
                                 /\ cfg.thr[n] = Outgoing(ThreadEdges, n)
                                 /\ cfg.preds[n] = ({"flow"} \X Incoming(Edges(prog), n)) \cup
                                                   ({"threads"} \X Incoming(ThreadEdges, n))
  BY DEF BuildInv, Built, GraphOf

(* Whatever has not more than one predecessor has one way in.              *)
LEMMA OnePredecessor ==
  ASSUME BuildInv, phase # "pta", NEW s \in cfg.nodes, NEW n \in cfg.nodes,
         s \in AllSuccessors(n), \A d, e \in cfg.preds[s] : d = e
  PROVE  /\ OnlyFrom(n, s)
         /\ ~(s \in cfg.thr[n] /\ s \in cfg.succ[n])
<1> DEFINE kinds == {"flow", "threads"}
<1>1. ASSUME NEW m \in cfg.nodes, s \in AllSuccessors(m)
      PROVE  \/ s \in cfg.succ[m] /\ \E e \in cfg.preds[s] : e[1] = "flow" /\ e[2][1] = m
             \/ s \in cfg.thr[m] /\ \E e \in cfg.preds[s] : e[1] = "threads" /\ e[2][1] = m
  <2>1. CASE s \in cfg.succ[m]
    <3>1. PICK e \in Edges(prog) : e[1] = m /\ e[2] = s
      BY <2>1, GraphFacts DEF Outgoing
    <3>2. <<"flow", e>> \in cfg.preds[s]
      BY <3>1, GraphFacts DEF Incoming
    <3> QED
      BY <2>1, <3>1, <3>2
  <2>2. CASE s \in cfg.thr[m]
    <3>1. PICK e \in ThreadEdges : e[1] = m /\ e[2] = s
      BY <2>2, GraphFacts DEF Outgoing
    <3>2. <<"threads", e>> \in cfg.preds[s]
      BY <3>1, GraphFacts DEF Incoming
    <3> QED
      BY <2>2, <3>1, <3>2
  <2> QED
    BY <1>1, <2>1, <2>2 DEF AllSuccessors
<1>2. OnlyFrom(n, s)
  BY <1>1 DEF OnlyFrom
<1>3. ASSUME s \in cfg.thr[n], s \in cfg.succ[n] PROVE FALSE
  <2>1. PICK d \in Edges(prog) : d[1] = n /\ d[2] = s
    BY <1>3, GraphFacts DEF Outgoing
  <2>2. PICK e \in ThreadEdges : e[1] = n /\ e[2] = s
    BY <1>3, GraphFacts DEF Outgoing
  <2>3. <<"flow", d>> \in cfg.preds[s] /\ <<"threads", e>> \in cfg.preds[s]
    BY <2>1, <2>2, GraphFacts DEF Incoming
  <2> QED
    BY <2>3
<1> QED
  BY <1>2, <1>3

(* A successor s of the node on top of the stack, and what is left then.   *)
Advances(s) ==
  /\ Advanced(tr.stack, s) \in Seq(Frames)
  /\ Len(Advanced(tr.stack, s)) = Len(tr.stack) /\ Len(tr.stack) \in Nat \ {0}
  /\ \A i \in 1 .. Len(tr.stack) :
       /\ tr.stack[i] \in Frames
       /\ Fits(Advanced(tr.stack, s)[i])
       /\ Advanced(tr.stack, s)[i].node = tr.stack[i].node
       /\ Remaining(Advanced(tr.stack, s)[i]) \subseteq Remaining(tr.stack[i])
       /\ Remaining(tr.stack[i]) \subseteq Remaining(Advanced(tr.stack, s)[i]) \cup {s}
       /\ i # 1 => Advanced(tr.stack, s)[i] = tr.stack[i]
  /\ s \in Remaining(tr.stack[1])
  /\ s \in Remaining(Advanced(tr.stack, s)[1]) =>
       s \in tr.stack[1].thr /\ s \in tr.stack[1].succ
  /\ 1 \in 1 .. Len(tr.stack) /\ Head(tr.stack) = tr.stack[1] /\ Fits(tr.stack[1])
  /\ tr.stack[1].node \in DOMAIN tr.visited /\ tr.stack[1].node \in cfg.nodes
  /\ s \in AllSuccessors(tr.stack[1].node)

LEMMA TopFacts ==
  ASSUME RegionsBusy, tr.stack # NoFrames, NEW s \in NextSuccessors(Head(tr.stack))
  PROVE  Advances(s)
<1> DEFINE old == tr.stack
<1>1. old \in Seq(Frames) /\ old # <<>>
  BY DEF RegionsBusy, RegionsTyped, NoFrames
<1>2. \A i \in 1 .. Len(old) : Fits(old[i]) /\ old[i].node \in DOMAIN tr.visited
  BY DEF RegionsBusy, RegionsOnStack
<1> HIDE DEF old
<1>3. /\ Advanced(old, s) \in Seq(Frames)
      /\ Len(Advanced(old, s)) = Len(old) /\ Len(old) \in Nat \ {0}
      /\ \A i \in 1 .. Len(old) :
           /\ old[i] \in Frames
           /\ Fits(Advanced(old, s)[i])
           /\ Advanced(old, s)[i].node = old[i].node
           /\ Remaining(Advanced(old, s)[i]) \subseteq Remaining(old[i])
           /\ Remaining(old[i]) \subseteq Remaining(Advanced(old, s)[i]) \cup {s}
           /\ i # 1 => Advanced(old, s)[i] = old[i]
      /\ s \in Remaining(old[1])
      /\ s \in Remaining(Advanced(old, s)[1]) => s \in old[1].thr /\ s \in old[1].succ
  <2>1. s \in NextSuccessors(Head(old))
    BY DEF old
  <2> QED
    BY <1>1, <1>2, <2>1, AdvancedFits
<1>4. 1 \in 1 .. Len(old)
  BY <1>3
<1>5. Head(old) = old[1]
  BY <1>1
<1>6. Fits(old[1]) /\ old[1].node \in DOMAIN tr.visited
  BY <1>2, <1>4
<1>7. old[1].node \in cfg.nodes
  BY <1>6 DEF RegionsBusy, RegionsTyped
<1>8. s \in AllSuccessors(old[1].node)
  BY <1>3, <1>6 DEF Fits, Remaining, AllSuccessors
<1> QED
  BY <1>3, <1>4, <1>5, <1>6, <1>7, <1>8 DEF old, Advances

(* A node that has no region gets one.                                     *)
LEMMA EnterBusy ==
  ASSUME BuildInv, phase # "pta", RegionsBusy, cfg' = cfg, tr.stack # NoFrames,
         NEW s \in NextSuccessors(Head(tr.stack)), s \in cfg.nodes, ~HasRegion(s),
         NEW founding, NEW r, NEW regions,
         tr' = [founding |-> founding,
                visited |-> [m \in DOMAIN tr.visited \cup {s} |->
                               IF m \in DOMAIN tr.visited THEN tr.visited[m] ELSE r],
                examined |-> tr.examined, succ |-> regions,
                stack |-> <<Frame(s)>> \o Advanced(tr.stack, s)],
         \/ founding = Append(tr.founding, s) /\ r = Len(tr.founding) + 1
         \/ /\ founding = tr.founding /\ r = RegionOf(Head(tr.stack).node)
            /\ \A d, e \in cfg.preds[s] : d = e
  PROVE  RegionsBusy'
<1> DEFINE rest == Advanced(tr.stack, s)
           old == tr.stack
<1>0. Advances(s)
  BY TopFacts
<1>n. PICK n : n = Head(tr.stack).node
  OBVIOUS
<1>1. /\ rest \in Seq(Frames) /\ Len(rest) = Len(old) /\ Len(old) \in Nat \ {0}
      /\ \A i \in 1 .. Len(old) :
           /\ old[i] \in Frames /\ Fits(rest[i]) /\ rest[i].node = old[i].node
           /\ Remaining(rest[i]) \subseteq Remaining(old[i])
           /\ Remaining(old[i]) \subseteq Remaining(rest[i]) \cup {s}
           /\ i # 1 => rest[i] = old[i]
      /\ s \in Remaining(old[1])
      /\ s \in Remaining(rest[1]) => s \in old[1].thr /\ s \in old[1].succ
  BY <1>0 DEF Advances
<1>2. Head(old) = old[1] /\ n = old[1].node /\ n \in DOMAIN tr.visited /\ n \in cfg.nodes
  BY <1>0, <1>n DEF Advances
<1>3. s \in AllSuccessors(n)
  BY <1>0, <1>n DEF Advances
<1>4. Frame(s) \in Frames /\ Fits(Frame(s)) /\ Frame(s).node = s
      /\ Remaining(Frame(s)) = AllSuccessors(s)
  BY FrameFacts
<1>5. /\ tr'.founding = founding /\ tr'.examined = tr.examined
      /\ tr'.stack = <<Frame(s)>> \o rest
      /\ DOMAIN tr'.visited = DOMAIN tr.visited \cup {s}
      /\ \A m \in DOMAIN tr.visited : tr'.visited[m] = tr.visited[m]
      /\ s \notin DOMAIN tr.visited => tr'.visited[s] = r
  OBVIOUS
<1>6. s \notin DOMAIN tr.visited /\ s \notin DOMAIN tr.examined
  BY DEF HasRegion
<1> HIDE DEF rest
<1>7. /\ tr'.stack \in Seq(Frames) /\ Len(tr'.stack) = Len(old) + 1
      /\ tr'.stack[1] = Frame(s)
      /\ \A i \in 1 .. Len(old) : tr'.stack[i + 1] = rest[i]
      /\ \A i \in 2 .. Len(old) + 1 : i - 1 \in 1 .. Len(old) /\ tr'.stack[i] = rest[i - 1]
  <2>1. rest \in Seq(Frames) /\ Frame(s) \in Frames /\ Len(rest) = Len(old)
    BY <1>1, <1>4
  <2>2. /\ <<Frame(s)>> \o rest \in Seq(Frames)
        /\ Len(<<Frame(s)>> \o rest) = Len(rest) + 1
        /\ (<<Frame(s)>> \o rest)[1] = Frame(s)
        /\ \A i \in 1 .. Len(rest) : (<<Frame(s)>> \o rest)[i + 1] = rest[i]
        /\ \A i \in 2 .. Len(rest) + 1 :
             i - 1 \in 1 .. Len(rest) /\ (<<Frame(s)>> \o rest)[i] = rest[i - 1]
    BY <2>1, PushedFacts
  <2> QED
    BY <2>1, <2>2, <1>5
<1>8. \A i \in 1 .. Len(tr'.stack) : i = 1 \/ i \in 2 .. Len(old) + 1
  BY <1>1, <1>7
<1>9. /\ \A m : HasRegion(m)' <=> HasRegion(m) \/ m = s
      /\ \A m : HasRegion(m) => RegionOf(m)' = RegionOf(m)
      /\ RegionOf(s)' = r
  BY <1>5, <1>6 DEF HasRegion, RegionOf
<1>10. /\ AllSuccessors(s)' = AllSuccessors(s) /\ Frames' = Frames
       /\ \A m : AllSuccessors(m)' = AllSuccessors(m)
       /\ \A m : Fits(m)' = Fits(m)
       /\ \A a, b : OnlyFrom(a, b)' = OnlyFrom(a, b)
  BY DEF AllSuccessors, Frames, Ends, Fits, OnlyFrom
<1>11. HasRegion(n)
  BY <1>2 DEF HasRegion
<1>12. tr.founding \in Seq(cfg.nodes) /\ Len(tr.founding) \in Nat
       /\ DOMAIN tr.founding = 1 .. Len(tr.founding)
  BY DEF RegionsBusy, RegionsTyped
<1>13. /\ founding \in Seq(cfg.nodes) /\ DOMAIN tr.founding \subseteq DOMAIN founding
       /\ \A k \in DOMAIN tr.founding : founding[k] = tr.founding[k]
       /\ r \in DOMAIN founding
       /\ DOMAIN founding = DOMAIN tr.founding \/ DOMAIN founding = DOMAIN tr.founding \cup {r}
       /\ founding[r] = s \/ (founding = tr.founding /\ r = RegionOf(n) /\ \A d, e \in cfg.preds[s] : d = e)
       /\ r \in DOMAIN tr.founding \/ founding[r] = s
  <2>1. CASE founding = Append(tr.founding, s) /\ r = Len(tr.founding) + 1
    <3>0. PICK a : a = tr.founding
      OBVIOUS
    <3>1. /\ Append(a, s) \in Seq(cfg.nodes)
          /\ DOMAIN Append(a, s) = 1 .. Len(a) + 1
          /\ Append(a, s)[Len(a) + 1] = s
          /\ \A k \in 1 .. Len(a) : Append(a, s)[k] = a[k]
      <4>1. a \in Seq(cfg.nodes)
        BY <1>12, <3>0
      <4> QED
        BY ONLY <4>1, s \in cfg.nodes
    <3>2. /\ 1 .. Len(tr.founding) \subseteq 1 .. Len(tr.founding) + 1
          /\ Len(tr.founding) + 1 \in 1 .. Len(tr.founding) + 1
          /\ 1 .. Len(tr.founding) + 1 = (1 .. Len(tr.founding)) \cup {Len(tr.founding) + 1}
      BY <1>12
    <3> QED
      BY <1>12, <2>1, <3>0, <3>1, <3>2, Zenon
  <2>2. CASE /\ founding = tr.founding /\ r = RegionOf(Head(tr.stack).node)
             /\ \A d, e \in cfg.preds[s] : d = e
    <3>1. r \in DOMAIN tr.founding
      BY <1>n, <1>2, <1>11, <2>2 DEF RegionsBusy, RegionsFounded
    <3> QED
      BY <1>n, <1>12, <2>2, <3>1
  <2> QED
    BY <2>1, <2>2
<1>14. RegionsTyped'
  BY <1>5, <1>6, <1>7, <1>10, <1>13 DEF RegionsBusy, RegionsTyped
<1>15. RegionsOnStack'
  <2>1. ASSUME NEW i \in 1 .. Len(tr'.stack)
        PROVE  /\ tr'.stack[i].node \in DOMAIN tr'.visited /\ Fits(tr'.stack[i])
               /\ AllSuccessors(tr'.stack[i].node) \subseteq
                    Remaining(tr'.stack[i]) \cup {m \in cfg.nodes : HasRegion(m)'}
    <3>1. CASE i = 1
      BY <1>4, <1>5, <1>7, <3>1
    <3>2. CASE i # 1
      <4>1. i - 1 \in 1 .. Len(old) /\ tr'.stack[i] = rest[i - 1]
        BY <1>7, <1>8, <3>2
      <4>2. /\ old[i - 1].node \in DOMAIN tr.visited
            /\ AllSuccessors(old[i - 1].node) \subseteq
                 Remaining(old[i - 1]) \cup {m \in cfg.nodes : HasRegion(m)}
        BY <4>1 DEF RegionsBusy, RegionsOnStack
      <4>3. Remaining(old[i - 1]) \subseteq Remaining(rest[i - 1]) \cup {s}
        BY <1>1, <4>1
      <4>4. {m \in cfg.nodes : HasRegion(m)} \cup {s} \subseteq {m \in cfg.nodes : HasRegion(m)'}
        BY <1>9
      <4>5. rest[i - 1].node = old[i - 1].node /\ Fits(rest[i - 1])
        BY <1>1, <4>1
      <4> QED
        BY <1>5, <4>1, <4>2, <4>3, <4>4, <4>5
    <3> QED
      BY <3>1, <3>2
  <2>2. \A m \in DOMAIN tr'.visited : \E i \in 1 .. Len(tr'.stack) : tr'.stack[i].node = m
    <3>1. SUFFICES ASSUME NEW m \in DOMAIN tr'.visited
                   PROVE  \E i \in 1 .. Len(tr'.stack) : tr'.stack[i].node = m
      OBVIOUS
    <3>2. CASE m = s
      <4>1. 1 \in 1 .. Len(tr'.stack)
        BY <1>1, <1>7
      <4> QED
        BY <1>4, <1>7, <3>2, <4>1
    <3>3. CASE m \in DOMAIN tr.visited
      <4>1. PICK i \in 1 .. Len(old) : old[i].node = m
        BY <3>3 DEF RegionsBusy, RegionsOnStack
      <4>2. i + 1 \in 1 .. Len(tr'.stack) /\ tr'.stack[i + 1] = rest[i]
        BY <1>1, <1>7
      <4>3. rest[i].node = old[i].node
        BY <1>1
      <4> QED
        BY <4>1, <4>2, <4>3
    <3> QED
      BY <1>5, <3>2, <3>3
  <2>3. ASSUME NEW i \in 1 .. Len(tr'.stack), NEW j \in 1 .. Len(tr'.stack),
               tr'.stack[i].node = tr'.stack[j].node
        PROVE  i = j
    <3>1. \A k \in 2 .. Len(old) + 1 : /\ k - 1 \in 1 .. Len(old)
                                       /\ tr'.stack[k].node = old[k - 1].node
                                       /\ tr'.stack[k].node # s
      <4>1. \A k \in 1 .. Len(old) : old[k].node \in DOMAIN tr.visited
        BY DEF RegionsBusy, RegionsOnStack
      <4>2. ASSUME NEW k \in 2 .. Len(old) + 1
            PROVE  /\ k - 1 \in 1 .. Len(old)
                   /\ tr'.stack[k].node = old[k - 1].node
                   /\ tr'.stack[k].node # s
        <5>1. k - 1 \in 1 .. Len(old) /\ tr'.stack[k] = rest[k - 1]
          BY <1>7
        <5>2. rest[k - 1].node = old[k - 1].node
          BY <1>1, <5>1
        <5>3. old[k - 1].node \in DOMAIN tr.visited
          BY <4>1, <5>1
        <5> QED
          BY <1>6, <5>1, <5>2, <5>3
      <4> QED
        BY <4>2
    <3>2. CASE i = 1 /\ j = 1
      BY <3>2
    <3>3. CASE i = 1 /\ j # 1
      BY <1>4, <1>7, <1>8, <2>3, <3>1, <3>3
    <3>4. CASE i # 1 /\ j = 1
      BY <1>4, <1>7, <1>8, <2>3, <3>1, <3>4
    <3>5. CASE i # 1 /\ j # 1
      <4>1. /\ i - 1 \in 1 .. Len(old) /\ j - 1 \in 1 .. Len(old)
            /\ old[i - 1].node = old[j - 1].node
        BY <1>8, <2>3, <3>1, <3>5
      <4>2. i - 1 = j - 1
        BY <4>1 DEF RegionsBusy, RegionsOnStack
      <4> QED
        BY <4>2, <1>1, <1>7
    <3> QED
      BY <3>2, <3>3, <3>4, <3>5
  <2>4. \A m \in DOMAIN tr'.examined : AllSuccessors(m) \subseteq {k \in cfg.nodes : HasRegion(k)'}
    BY <1>5, <1>9 DEF RegionsBusy, RegionsOnStack
  <2> QED
    BY <1>10, <2>1, <2>2, <2>3, <2>4 DEF RegionsOnStack
<1>16. ASSUME NEW q \in cfg.nodes, HasRegion(q)'
       PROVE  /\ RegionOf(q)' \in DOMAIN founding
              /\ founding[RegionOf(q)'] = q \/ Inherited(q)'
  <2>1. CASE q = s /\ founding[r] = s
    BY <1>9, <1>13, <2>1
  <2>2. CASE q = s /\ founding[r] # s
    <3>1. r = RegionOf(n) /\ \A d, e \in cfg.preds[s] : d = e
      BY <1>13, <2>2
    <3>2. OnlyFrom(n, s) /\ ~(s \in cfg.thr[n] /\ s \in cfg.succ[n])
      BY <1>2, <1>3, <3>1, OnePredecessor
    <3>3. ASSUME NEW i \in 1 .. Len(tr'.stack), s \in Remaining(tr'.stack[i]) PROVE FALSE
      <4>1. CASE i = 1
        BY <1>4, <1>7, <1>11, <3>2, <3>3, <4>1 DEF OnlyFrom
      <4>2. CASE i = 2
        <5>1. s \in Remaining(rest[1])
          BY <1>1, <1>7, <3>3, <4>2
        <5>2. Fits(old[1])
          BY <1>1 DEF RegionsBusy, RegionsOnStack
        <5> QED
          BY <1>1, <1>2, <3>2, <5>1, <5>2 DEF Fits
      <4>3. CASE i # 1 /\ i # 2
        <5>1. /\ i - 1 \in 1 .. Len(old) /\ i - 1 # 1 /\ 1 \in 1 .. Len(old)
              /\ tr'.stack[i] = rest[i - 1]
          BY <1>1, <1>7, <1>8, <4>3
        <5>2. s \in Remaining(old[i - 1])
          BY <1>1, <3>3, <5>1
        <5>3. old[i - 1].node \in cfg.nodes /\ s \in AllSuccessors(old[i - 1].node)
          BY <5>1, <5>2 DEF RegionsBusy, RegionsTyped, RegionsOnStack, Fits, Remaining, AllSuccessors
        <5>4. old[i - 1].node = old[1].node
          BY <1>2, <3>2, <5>3 DEF OnlyFrom
        <5> QED
          BY <5>1, <5>4 DEF RegionsBusy, RegionsOnStack
      <4> QED
        BY <4>1, <4>2, <4>3
    <3>4. HasRegion(n)' /\ RegionOf(n)' = RegionOf(s)'
      <4>1. HasRegion(n)' /\ RegionOf(n)' = RegionOf(n)
        BY <1>9, <1>11
      <4>2. RegionOf(s)' = r
        BY <1>9
      <4> QED
        BY <3>1, <4>1, <4>2
    <3>5. Inherited(s)'
      <4>1. s \in AllSuccessors(n)' /\ OnlyFrom(n, s)' /\ n \in cfg'.nodes
        BY <1>2, <1>3, <1>10, <3>2
      <4> QED
        BY <3>3, <3>4, <4>1 DEF Inherited
    <3> QED
      BY <1>9, <1>13, <2>2, <3>5
  <2>3. CASE q # s
    <3>1. HasRegion(q) /\ RegionOf(q)' = RegionOf(q)
      BY <1>9, <1>16, <2>3
    <3>2. RegionOf(q) \in DOMAIN tr.founding /\ (tr.founding[RegionOf(q)] = q \/ Inherited(q))
      BY <3>1 DEF RegionsBusy, RegionsFounded
    <3>3. ASSUME Inherited(q) PROVE Inherited(q)'
      <4>1. PICK p \in cfg.nodes : /\ HasRegion(p) /\ RegionOf(p) = RegionOf(q)
                                   /\ q \in AllSuccessors(p) /\ OnlyFrom(p, q)
        BY <3>3 DEF Inherited
      <4>2. HasRegion(p)' /\ RegionOf(p)' = RegionOf(q)'
        BY <1>9, <3>1, <4>1
      <4>3. ASSUME NEW i \in 1 .. Len(tr'.stack), q \in Remaining(tr'.stack[i]) PROVE FALSE
        <5>1. CASE i = 1
          <6>1. q \in AllSuccessors(s)
            BY <1>4, <1>7, <4>3, <5>1
          <6>2. s = p
            BY <4>1, <6>1 DEF OnlyFrom
          <6> QED
            BY <4>1, <6>2
        <5>2. CASE i # 1
          <6>1. i - 1 \in 1 .. Len(old) /\ tr'.stack[i] = rest[i - 1]
            BY <1>7, <1>8, <5>2
          <6>2. q \in Remaining(old[i - 1])
            BY <1>1, <4>3, <6>1
          <6> QED
            BY <3>3, <6>1, <6>2 DEF Inherited
        <5> QED
          BY <5>1, <5>2
      <4> QED
        BY <1>10, <4>1, <4>2, <4>3 DEF Inherited
    <3> QED
      BY <1>13, <3>1, <3>2, <3>3
  <2> QED
    BY <2>1, <2>2, <2>3
<1>17. ASSUME NEW k \in DOMAIN founding
       PROVE  HasRegion(founding[k])' /\ RegionOf(founding[k])' = k
  <2>1. CASE k \in DOMAIN tr.founding
    <3>1. HasRegion(tr.founding[k]) /\ RegionOf(tr.founding[k]) = k
      BY <2>1 DEF RegionsBusy, RegionsFounded
    <3> QED
      BY <1>9, <1>13, <2>1, <3>1
  <2>2. CASE k \notin DOMAIN tr.founding
    <3>1. k = r /\ founding[r] = s
      BY <1>13, <2>2
    <3> QED
      BY <1>9, <3>1
  <2> QED
    BY <2>1, <2>2
<1>18. RegionsFounded'
  BY <1>5, <1>16, <1>17 DEF RegionsFounded
<1>19. HasRegion(EntryNode(Main))'
  BY <1>9 DEF RegionsBusy
<1> QED
  BY <1>14, <1>15, <1>18, <1>19 DEF RegionsBusy

(* A node that has a region is only taken off the frame.                   *)
LEMMA SeenBusy ==
  ASSUME RegionsBusy, cfg' = cfg, tr.stack # NoFrames,
         NEW s \in NextSuccessors(Head(tr.stack)), s \in cfg.nodes, HasRegion(s), NEW regions,
         tr' = [founding |-> tr.founding, visited |-> tr.visited, examined |-> tr.examined,
                succ |-> regions, stack |-> Advanced(tr.stack, s)]
  PROVE  RegionsBusy'
<1> DEFINE rest == Advanced(tr.stack, s)
           old == tr.stack
<1>0. Advances(s)
  BY TopFacts
<1>1. /\ rest \in Seq(Frames) /\ Len(rest) = Len(old) /\ Len(old) \in Nat \ {0}
      /\ \A i \in 1 .. Len(old) :
           /\ Fits(rest[i]) /\ rest[i].node = old[i].node
           /\ Remaining(rest[i]) \subseteq Remaining(old[i])
           /\ Remaining(old[i]) \subseteq Remaining(rest[i]) \cup {s}
  BY <1>0 DEF Advances
<1>2. /\ tr'.founding = tr.founding /\ tr'.visited = tr.visited
      /\ tr'.examined = tr.examined /\ tr'.stack = rest
  OBVIOUS
<1> HIDE DEF rest
<1>3. /\ \A m : HasRegion(m)' <=> HasRegion(m)
      /\ \A m : RegionOf(m)' = RegionOf(m)
  BY <1>2 DEF HasRegion, RegionOf
<1>4. /\ Frames' = Frames
      /\ \A m : AllSuccessors(m)' = AllSuccessors(m)
      /\ \A m : Fits(m)' = Fits(m)
      /\ \A a, b : OnlyFrom(a, b)' = OnlyFrom(a, b)
  BY DEF AllSuccessors, Frames, Ends, Fits, OnlyFrom
<1>5. RegionsTyped'
  BY <1>1, <1>2, <1>4 DEF RegionsBusy, RegionsTyped
<1>6. RegionsOnStack'
  <2>1. ASSUME NEW i \in 1 .. Len(rest)
        PROVE  /\ rest[i].node \in DOMAIN tr.visited /\ Fits(rest[i])
               /\ AllSuccessors(rest[i].node) \subseteq
                    Remaining(rest[i]) \cup {m \in cfg.nodes : HasRegion(m)}
    <3>1. i \in 1 .. Len(old)
      BY <1>1
    <3>2. /\ old[i].node \in DOMAIN tr.visited
          /\ AllSuccessors(old[i].node) \subseteq
               Remaining(old[i]) \cup {m \in cfg.nodes : HasRegion(m)}
      BY <3>1 DEF RegionsBusy, RegionsOnStack
    <3>3. Remaining(old[i]) \subseteq Remaining(rest[i]) \cup {s} /\ rest[i].node = old[i].node
          /\ Fits(rest[i])
      BY <1>1, <3>1
    <3> QED
      BY <3>2, <3>3
  <2>2. ASSUME NEW m \in DOMAIN tr.visited PROVE \E i \in 1 .. Len(rest) : rest[i].node = m
    <3>1. PICK i \in 1 .. Len(old) : old[i].node = m
      BY DEF RegionsBusy, RegionsOnStack
    <3> QED
      BY <1>1, <3>1
  <2>3. ASSUME NEW i \in 1 .. Len(rest), NEW j \in 1 .. Len(rest), rest[i].node = rest[j].node
        PROVE  i = j
    <3>1. i \in 1 .. Len(old) /\ j \in 1 .. Len(old) /\ old[i].node = old[j].node
      BY <1>1, <2>3
    <3> QED
      BY <3>1 DEF RegionsBusy, RegionsOnStack
  <2>4. \A m \in DOMAIN tr.examined : AllSuccessors(m) \subseteq {k \in cfg.nodes : HasRegion(k)}
    BY DEF RegionsBusy, RegionsOnStack
  <2> QED
    BY <1>2, <1>3, <1>4, <2>1, <2>2, <2>3, <2>4 DEF RegionsOnStack
<1>7. ASSUME NEW q, Inherited(q) PROVE Inherited(q)'
  <2>1. \A i \in 1 .. Len(rest) : q \notin Remaining(rest[i])
    BY <1>1, <1>7 DEF Inherited
  <2>2. PICK p \in cfg.nodes : /\ HasRegion(p) /\ RegionOf(p) = RegionOf(q)
                               /\ q \in AllSuccessors(p) /\ OnlyFrom(p, q)
    BY <1>7 DEF Inherited
  <2> QED
    BY <1>2, <1>3, <1>4, <2>1, <2>2 DEF Inherited
<1>8. RegionsFounded'
  BY <1>2, <1>3, <1>7 DEF RegionsBusy, RegionsFounded
<1> QED
  BY <1>3, <1>5, <1>6, <1>8 DEF RegionsBusy

(* Visit enters a node only if it has no region, and takes the region of   *)
(* the caller only where that is the one way in.                           *)
LEMMA VisitBusy ==
  ASSUME BuildInv, RegionsBusy, NEW s \in cfg.nodes, Visit(s)
  PROVE  RegionsBusy'
<1> DEFINE n == Head(tr.stack).node
           stack == Advanced(tr.stack, s)
           fresh == Len(tr.founding) + 1
           met == [tr EXCEPT !.stack = stack]
<1>1. /\ phase = "regions" /\ tr.stack # NoFrames /\ s \in NextSuccessors(Head(tr.stack))
      /\ cfg' = cfg
  BY DEF Visit
<1>2. tr' = IF s \in DOMAIN tr.visited THEN [tr EXCEPT !.stack = stack]
            ELSE IF RegionExamined(s)
            THEN [tr EXCEPT !.stack = stack,
                            !.succ = @ \cup {<<RegionOf(n), RegionOf(s)>>}]
            ELSE IF shouldCreateNewRegion(n, s)
            THEN EnterRegion([tr EXCEPT !.founding = Append(@, s),
                                        !.succ = @ \cup {<<RegionOf(n), fresh>>}],
                             stack, s, fresh)
            ELSE EnterRegion(tr, stack, s, RegionOf(n))
  BY DEF Visit
<1>3. tr = [founding |-> tr.founding, visited |-> tr.visited, examined |-> tr.examined,
            succ |-> tr.succ, stack |-> tr.stack]
  BY DEF RegionsBusy, RegionsTyped
<1> HIDE DEF stack, n, fresh
<1>4. CASE s \in DOMAIN tr.visited
  <2>1. tr' = [founding |-> tr.founding, visited |-> tr.visited, examined |-> tr.examined,
               succ |-> tr.succ, stack |-> stack]
    BY <1>2, <1>3, <1>4
  <2>2. HasRegion(s)
    BY <1>4 DEF HasRegion
  <2> QED
    BY <1>1, <2>1, <2>2, SeenBusy DEF stack
<1>5. CASE s \notin DOMAIN tr.visited /\ RegionExamined(s)
  <2>1. tr' = [founding |-> tr.founding, visited |-> tr.visited, examined |-> tr.examined,
               succ |-> tr.succ \cup {<<RegionOf(n), RegionOf(s)>>}, stack |-> stack]
    BY <1>2, <1>3, <1>5
  <2>2. HasRegion(s)
    BY <1>5 DEF RegionExamined
  <2> QED
    BY <1>1, <2>1, <2>2, SeenBusy DEF stack
<1>6. CASE s \notin DOMAIN tr.visited /\ ~RegionExamined(s)
  <2>1. ASSUME HasRegion(s) PROVE FALSE
    <3>1. s \in DOMAIN tr.examined
      BY <1>6, <2>1 DEF HasRegion
    <3>2. tr.founding[RegionOf(s)] # s
      BY <1>6, <2>1, <3>1 DEF RegionExamined
    <3>3. Inherited(s)
      BY <2>1, <3>2 DEF RegionsBusy, RegionsFounded
    <3>4. s \in Remaining(tr.stack[1]) /\ 1 \in 1 .. Len(tr.stack)
      BY <1>1, TopFacts DEF Advances
    <3> QED
      BY <3>3, <3>4 DEF Inherited
  <2>2. CASE shouldCreateNewRegion(n, s)
    <3>1. tr' = [founding |-> Append(tr.founding, s),
                 visited |-> [m \in DOMAIN tr.visited \cup {s} |->
                                IF m \in DOMAIN tr.visited THEN tr.visited[m] ELSE fresh],
                 examined |-> tr.examined, succ |-> tr.succ \cup {<<RegionOf(n), fresh>>},
                 stack |-> <<Frame(s)>> \o stack]
      BY <1>2, <1>3, <1>6, <2>2 DEF EnterRegion
    <3> QED
      BY <1>1, <2>1, <3>1, EnterBusy DEF stack, fresh
  <2>3. CASE ~shouldCreateNewRegion(n, s)
    <3>1. tr' = [founding |-> tr.founding,
                 visited |-> [m \in DOMAIN tr.visited \cup {s} |->
                                IF m \in DOMAIN tr.visited THEN tr.visited[m] ELSE RegionOf(n)],
                 examined |-> tr.examined, succ |-> tr.succ,
                 stack |-> <<Frame(s)>> \o stack]
      BY <1>2, <1>3, <1>6, <2>3 DEF EnterRegion
    <3>2. \A d, e \in cfg.preds[s] : d = e
      BY <2>3 DEF shouldCreateNewRegion
    <3> QED
      BY <1>1, <2>1, <3>1, <3>2, EnterBusy DEF stack, n
  <2> QED
    BY <2>2, <2>3
<1> QED
  BY <1>4, <1>5, <1>6

(* A node that is left keeps its region.                                   *)
LEMMA ExamineBusy ==
  ASSUME BuildInv, RegionsBusy, Examine
  PROVE  RegionsBusy'
<1> DEFINE old == tr.stack
           rest == Popped(tr.stack)
<1>n. PICK n : n = Head(tr.stack).node
  OBVIOUS
<1>1. /\ phase = "regions" /\ old # NoFrames /\ NextSuccessors(Head(old)) = {} /\ cfg' = cfg
      /\ tr' = [tr EXCEPT
              !.examined = [m \in DOMAIN @ \cup {n} |->
                              IF m \in DOMAIN @ THEN @[m] ELSE RegionOf(n)],
              !.visited = [m \in DOMAIN @ \ {n} |-> @[m]],
              !.stack = rest]
  BY <1>n DEF Examine
<1>2. old \in Seq(Frames) /\ old # <<>>
  BY <1>1 DEF RegionsBusy, RegionsTyped, NoFrames
<1>3. /\ rest \in Seq(Frames) /\ Len(old) \in Nat \ {0} /\ Len(rest) = Len(old) - 1
      /\ \A i \in 1 .. Len(old) - 1 : rest[i] = old[i + 1]
      /\ Head(old) = old[1] /\ 1 \in 1 .. Len(old)
  BY <1>2, PoppedFacts
<1>4. n = old[1].node /\ n \in DOMAIN tr.visited /\ n \notin DOMAIN tr.examined
      /\ n \in cfg.nodes
  BY <1>n, <1>3 DEF RegionsBusy, RegionsOnStack, RegionsTyped
<1>5. RegionOf(n) = tr.visited[n]
  BY <1>4 DEF RegionOf
<1>6. /\ tr'.founding = tr.founding /\ tr'.stack = rest
      /\ DOMAIN tr'.examined = DOMAIN tr.examined \cup {n}
      /\ DOMAIN tr'.visited = DOMAIN tr.visited \ {n}
      /\ \A m \in DOMAIN tr.examined : tr'.examined[m] = tr.examined[m]
      /\ tr'.examined[n] = tr.visited[n]
      /\ \A m \in DOMAIN tr.visited \ {n} : tr'.visited[m] = tr.visited[m]
      /\ tr' = [founding |-> tr'.founding, visited |-> tr'.visited, examined |-> tr'.examined,
                succ |-> tr'.succ, stack |-> tr'.stack]
  <2>1. tr = [founding |-> tr.founding, visited |-> tr.visited, examined |-> tr.examined,
              succ |-> tr.succ, stack |-> tr.stack]
    BY DEF RegionsBusy, RegionsTyped
  <2> HIDE DEF rest
  <2>2. tr' = [founding |-> tr.founding,
               visited |-> [m \in DOMAIN tr.visited \ {n} |-> tr.visited[m]],
               examined |-> [m \in DOMAIN tr.examined \cup {n} |->
                               IF m \in DOMAIN tr.examined THEN tr.examined[m] ELSE RegionOf(n)],
               succ |-> tr.succ, stack |-> rest]
    BY <1>1, <2>1
  <2> QED
    BY <1>4, <1>5, <2>2
<1> HIDE DEF rest
<1>7. /\ \A m : HasRegion(m)' <=> HasRegion(m)
      /\ \A m : HasRegion(m) => RegionOf(m)' = RegionOf(m)
  <2>1. DOMAIN tr'.visited \cup DOMAIN tr'.examined = DOMAIN tr.visited \cup DOMAIN tr.examined
    BY <1>4, <1>6
  <2>2. ASSUME NEW m, HasRegion(m) PROVE RegionOf(m)' = RegionOf(m)
    <3>1. CASE m \in DOMAIN tr.examined
      BY <1>6, <3>1 DEF RegionOf
    <3>2. CASE m = n
      BY <1>4, <1>5, <1>6, <3>2 DEF RegionOf
    <3>3. CASE m \in DOMAIN tr.visited /\ m # n /\ m \notin DOMAIN tr.examined
      BY <1>6, <3>3 DEF RegionOf
    <3> QED
      BY <2>2, <3>1, <3>2, <3>3 DEF HasRegion
  <2> QED
    BY <2>1, <2>2 DEF HasRegion
<1>8. /\ Frames' = Frames
      /\ \A m : AllSuccessors(m)' = AllSuccessors(m)
      /\ \A m : Fits(m)' = Fits(m)
      /\ \A a, b : OnlyFrom(a, b)' = OnlyFrom(a, b)
  BY <1>1 DEF AllSuccessors, Frames, Ends, Fits, OnlyFrom
<1>9. RegionsTyped'
  <2>1. /\ tr.founding \in Seq(cfg.nodes)
        /\ DOMAIN tr.visited \cup DOMAIN tr.examined \subseteq cfg.nodes
        /\ DOMAIN tr.visited \cap DOMAIN tr.examined = {}
    BY DEF RegionsBusy, RegionsTyped
  <2>2. /\ DOMAIN tr'.visited \cup DOMAIN tr'.examined \subseteq cfg.nodes
        /\ DOMAIN tr'.visited \cap DOMAIN tr'.examined = {}
    BY <1>4, <1>6, <2>1
  <2>3. tr'.stack \in Seq(Frames) /\ tr'.founding \in Seq(cfg.nodes)
    BY <1>3, <1>6, <2>1
  <2> QED
    BY <1>1, <1>6, <1>8, <2>2, <2>3 DEF RegionsTyped
<1>10. \A i \in 1 .. Len(rest) : i + 1 \in 1 .. Len(old) /\ i + 1 # 1 /\ rest[i] = old[i + 1]
  BY <1>3
<1>11. RegionsOnStack'
  <2>0. /\ \A i \in 1 .. Len(old) :
             /\ old[i].node \in DOMAIN tr.visited /\ Fits(old[i])
             /\ AllSuccessors(old[i].node) \subseteq
                  Remaining(old[i]) \cup {m \in cfg.nodes : HasRegion(m)}
        /\ \A m \in DOMAIN tr.visited : \E i \in 1 .. Len(old) : old[i].node = m
        /\ \A i, j \in 1 .. Len(old) : old[i].node = old[j].node => i = j
        /\ \A m \in DOMAIN tr.examined : AllSuccessors(m) \subseteq {k \in cfg.nodes : HasRegion(k)}
    BY DEF RegionsBusy, RegionsOnStack
  <2>1. ASSUME NEW i \in 1 .. Len(rest)
        PROVE  /\ rest[i].node \in DOMAIN tr.visited \ {n} /\ Fits(rest[i])
               /\ AllSuccessors(rest[i].node) \subseteq
                    Remaining(rest[i]) \cup {m \in cfg.nodes : HasRegion(m)}
    <3>1. old[i + 1].node # old[1].node
      BY <1>3, <1>10, <2>0
    <3> QED
      BY <1>4, <1>10, <2>0, <3>1
  <2>2. ASSUME NEW m \in DOMAIN tr.visited \ {n} PROVE \E i \in 1 .. Len(rest) : rest[i].node = m
    <3>1. PICK i \in 1 .. Len(old) : old[i].node = m
      BY <2>0
    <3>2. i # 1
      BY <1>4, <3>1
    <3>3. i - 1 \in 1 .. Len(rest) /\ rest[i - 1] = old[i - 1 + 1] /\ i - 1 + 1 = i
      BY <1>3, <3>2
    <3> QED
      BY <3>1, <3>3
  <2>3. ASSUME NEW i \in 1 .. Len(rest), NEW j \in 1 .. Len(rest), rest[i].node = rest[j].node
        PROVE  i = j
    <3>0. /\ i + 1 \in 1 .. Len(old) /\ j + 1 \in 1 .. Len(old)
          /\ old[i + 1].node = old[j + 1].node
      BY <1>10, <2>3
    <3>1. i + 1 = j + 1
      BY <2>0, <3>0, Zenon
    <3> QED
      BY <3>1, <1>3
  <2>4. AllSuccessors(n) \subseteq {m \in cfg.nodes : HasRegion(m)}
    BY <1>1, <1>3, <1>4, <2>0, NothingLeft
  <2> QED
    BY <1>1, <1>6, <1>7, <1>8, <2>0, <2>1, <2>2, <2>3, <2>4 DEF RegionsOnStack
<1>12. ASSUME NEW q \in cfg.nodes, HasRegion(q), Inherited(q) PROVE Inherited(q)'
  <2>1. \A i \in 1 .. Len(rest) : q \notin Remaining(rest[i])
    BY <1>10, <1>12 DEF Inherited
  <2>2. PICK p \in cfg.nodes : /\ HasRegion(p) /\ RegionOf(p) = RegionOf(q)
                               /\ q \in AllSuccessors(p) /\ OnlyFrom(p, q)
    BY <1>12 DEF Inherited
  <2>3. HasRegion(p)' /\ RegionOf(p)' = RegionOf(q)'
    BY <1>7, <1>12, <2>2
  <2> QED
    BY <1>1, <1>6, <1>8, <2>1, <2>2, <2>3 DEF Inherited
<1>13. RegionsFounded'
  <2>1. ASSUME NEW q \in cfg.nodes, HasRegion(q)'
        PROVE  RegionOf(q)' \in DOMAIN tr.founding /\ (tr.founding[RegionOf(q)'] = q \/ Inherited(q)')
    <3>1. HasRegion(q) /\ RegionOf(q)' = RegionOf(q)
      BY <1>7, <2>1
    <3> QED
      BY <1>12, <3>1 DEF RegionsBusy, RegionsFounded
  <2>2. \A r \in DOMAIN tr.founding : HasRegion(tr.founding[r])' /\ RegionOf(tr.founding[r])' = r
    BY <1>6, <1>7 DEF RegionsBusy, RegionsFounded
  <2> QED
    BY <1>1, <1>6, <2>1, <2>2 DEF RegionsFounded
<1>14. HasRegion(EntryNode(Main))'
  BY <1>7 DEF RegionsBusy
<1> QED
  BY <1>9, <1>11, <1>13, <1>14 DEF RegionsBusy

(* The first region starts with the entry of main.                         *)
LEMMA BuildBusy ==
  ASSUME BuildInv, RegionsIdle, build
  PROVE  RegionsBusy'
<1> DEFINE e == EntryNode(Main)
<1>1. phase = "locks" /\ cfg' = cfg
      /\ tr' = EnterRegion([tr EXCEPT !.founding = <<e>>], NoFrames, e, 1)
  BY DEF build
<1>2. tr' = [founding |-> <<e>>, visited |-> [m \in {e} |-> 1], examined |-> NoMap, succ |-> {},
             stack |-> <<Frame(e)>>]
  <2>1. DOMAIN NoMap = {}
    BY DEF NoMap
  <2>2. <<Frame(e)>> \o NoFrames = <<Frame(e)>>
    BY DEF NoFrames
  <2> QED
    BY <1>1, <2>1, <2>2 DEF RegionsIdle, EnterRegion
<1>3. e \in cfg.nodes
  <2>1. WellFormed(prog)
    BY ProgramsAssumption DEF BuildInv
  <2>2. Main \in BuiltFunctions(prog)
    BY <2>1, FunctionsClosed
  <2>3. <<e, FirstNode(prog, <<Main, 1, 1>>)>> \in Edges(prog)
    BY <2>1, <2>2, EntryBuilt
  <2> QED
    BY <1>1, <2>3, GraphFacts
<1>4. Frame(e) \in Frames /\ Fits(Frame(e)) /\ Frame(e).node = e
      /\ Remaining(Frame(e)) = AllSuccessors(e)
  BY <1>3, FrameFacts
<1>5. /\ tr'.founding = <<e>> /\ tr'.stack = <<Frame(e)>> /\ DOMAIN tr'.visited = {e}
      /\ DOMAIN tr'.examined = {} /\ tr'.visited[e] = 1
  BY <1>2 DEF NoMap
<1>6. /\ \A m : HasRegion(m)' <=> m = e
      /\ RegionOf(e)' = 1
  BY <1>5 DEF HasRegion, RegionOf, EntryNode
<1>7. /\ Frames' = Frames
      /\ \A m : AllSuccessors(m)' = AllSuccessors(m)
      /\ \A m : Fits(m)' = Fits(m)
  BY <1>1 DEF AllSuccessors, Frames, Ends, Fits
<1> HIDE DEF e
<1>8. /\ <<Frame(e)>> \in Seq(Frames) /\ Len(<<Frame(e)>>) = 1 /\ <<Frame(e)>>[1] = Frame(e)
      /\ <<e>> \in Seq(cfg.nodes) /\ DOMAIN <<e>> = {1} /\ <<e>>[1] = e
  <2>1. Frame(e) \in Frames
    BY <1>4
  <2> QED
    BY <1>3, <2>1, OneFacts
<1>9. \A i \in 1 .. Len(tr'.stack) : i = 1
  BY <1>5, <1>8
<1>10. RegionsTyped'
  BY <1>1, <1>2, <1>3, <1>5, <1>7, <1>8 DEF RegionsTyped
<1>11. RegionsOnStack'
  <2>1. 1 \in 1 .. Len(tr'.stack) /\ tr'.stack[1] = Frame(e)
    BY <1>5, <1>8
  <2> QED
    BY <1>4, <1>5, <1>7, <1>9, <2>1 DEF RegionsOnStack
<1>12. RegionsFounded'
  BY <1>5, <1>6, <1>8 DEF RegionsFounded
<1> QED
  BY <1>6, <1>10, <1>11, <1>12 DEF RegionsBusy, e

(* What a step may change of the regions.                                  *)
LEMMA RegionSteps ==
  ASSUME [Next]_<<vars, execVars>>
  PROVE  \/ build
         \/ \E s \in cfg.nodes : Visit(s)
         \/ Examine
         \/ tr' = tr /\ phase = "pta" /\ phase' \in {"pta", "locks"}
         \/ tr' = tr /\ cfg' = cfg /\ phase' = phase
         \/ tr' = tr /\ cfg' = cfg /\ phase = "regions" /\ phase' = "run" /\ tr.stack = NoFrames
<1>1. CASE BuilderNext
  <2>1. CASE \E f \in Forks : Learn(f)
    BY <2>1 DEF Learn
  <2>2. CASE \E j \in Joins : matchJoinToRightCreate(j)
    BY <2>2 DEF matchJoinToRightCreate
  <2>3. CASE BuildGraph
    BY <2>3 DEF BuildGraph
  <2>4. CASE \E l \in Locks : buildCriticalSection(l)
    BY <2>4 DEF buildCriticalSection
  <2>5. CASE \E s \in cfg.nodes : VisitSuccessor(s)
    BY <2>5 DEF VisitSuccessor
  <2>6. CASE PostVisit
    BY <2>6 DEF PostVisit
  <2>7. CASE ComputeDependencies
    BY <2>7 DEF ComputeDependencies
  <2> QED
    BY <1>1, <2>1, <2>2, <2>3, <2>4, <2>5, <2>6, <2>7 DEF BuilderNext
<1>2. CASE Step
  BY <1>2 DEF Step, vars
<1>3. CASE UNCHANGED <<vars, execVars>>
  BY <1>3 DEF vars
<1> QED
  BY <1>1, <1>2, <1>3 DEF Next

LEMMA InitRegionsInv == Init => RegionsInv
  BY DEF Init, BuilderInit, RegionsInv, RegionsIdle

LEMMA NextRegionsInv ==
  ASSUME BuildInv, RegionsInv, [Next]_<<vars, execVars>>
  PROVE  RegionsInv'
<1>1. CASE build
  <2>1. phase = "locks" /\ phase' = "regions"
    BY <1>1 DEF build
  <2> QED
    BY <1>1, <2>1, BuildBusy DEF RegionsInv
<1>2. CASE \E s \in cfg.nodes : Visit(s)
  <2>1. phase = "regions" /\ phase' = "regions"
    BY <1>2 DEF Visit
  <2> QED
    BY <1>2, <2>1, VisitBusy DEF RegionsInv
<1>3. CASE Examine
  <2>1. phase = "regions" /\ phase' = "regions"
    BY <1>3 DEF Examine
  <2> QED
    BY <1>3, <2>1, ExamineBusy DEF RegionsInv
<1>4. CASE tr' = tr /\ phase = "pta" /\ phase' \in {"pta", "locks"}
  BY <1>4 DEF RegionsInv, RegionsIdle
<1>5. ASSUME tr' = tr, cfg' = cfg, RegionsBusy PROVE RegionsBusy'
  <2>1. /\ \A m : HasRegion(m)' <=> HasRegion(m)
        /\ \A m : RegionOf(m)' = RegionOf(m)
        /\ Frames' = Frames
        /\ \A m : AllSuccessors(m)' = AllSuccessors(m)
        /\ \A m : Fits(m)' = Fits(m)
        /\ \A a, b : OnlyFrom(a, b)' = OnlyFrom(a, b)
    BY <1>5 DEF HasRegion, RegionOf, AllSuccessors, Frames, Ends, Fits, OnlyFrom
  <2>2. \A m : Inherited(m)' = Inherited(m)
    BY <1>5, <2>1 DEF Inherited
  <2>3. RegionsTyped'
    BY <1>5, <2>1 DEF RegionsBusy, RegionsTyped
  <2>4. RegionsOnStack'
    BY <1>5, <2>1 DEF RegionsBusy, RegionsOnStack
  <2>5. RegionsFounded'
    BY <1>5, <2>1, <2>2 DEF RegionsBusy, RegionsFounded
  <2> QED
    BY <1>5, <2>1, <2>3, <2>4, <2>5 DEF RegionsBusy
<1>6. CASE tr' = tr /\ cfg' = cfg /\ phase' = phase
  BY <1>5, <1>6 DEF RegionsInv, RegionsIdle
<1>7. CASE /\ tr' = tr /\ cfg' = cfg /\ phase = "regions" /\ phase' = "run"
           /\ tr.stack = NoFrames
  BY <1>5, <1>7 DEF RegionsInv
<1> QED
  BY <1>1, <1>2, <1>3, <1>4, <1>6, <1>7, RegionSteps

(* Once the search has ended nothing is left unexamined.                   *)
LEMMA RegionsDone ==
  ASSUME RegionsBusy, tr.stack = NoFrames
  PROVE  /\ DOMAIN tr.visited = {} /\ EntryNode(Main) \in DOMAIN tr.examined
         /\ DOMAIN tr.examined \subseteq cfg.nodes
         /\ \A n \in DOMAIN tr.examined :
              AllSuccessors(n) \subseteq DOMAIN tr.examined /\ RegionOf(n) = tr.examined[n]
<1>1. Len(tr.stack) = 0
  BY DEF NoFrames
<1>2. DOMAIN tr.visited = {}
  BY <1>1 DEF RegionsBusy, RegionsOnStack
<1>3. \A m : HasRegion(m) <=> m \in DOMAIN tr.examined
  BY <1>2 DEF HasRegion
<1> QED
  BY <1>2, <1>3 DEF RegionsBusy, RegionsTyped, RegionsOnStack, RegionOf

LEMMA RegionsInvSingleEntry ==
  ASSUME RegionsInv
  PROVE  RegionsSingleEntry
<1> SUFFICES ASSUME phase = "run" PROVE RegionsSingleEntry
  BY DEF RegionsSingleEntry
<1>0. RegionsBusy /\ tr.stack = NoFrames
  BY DEF RegionsInv
<1>1. RegionsFounded
  BY <1>0 DEF RegionsBusy
<1>2. ASSUME NEW n \in DOMAIN tr.examined, NEW s \in AllSuccessors(n)
      PROVE  /\ s \in DOMAIN tr.examined
             /\ tr.examined[s] = tr.examined[n] \/ tr.founding[tr.examined[s]] = s
  <2>1. /\ s \in DOMAIN tr.examined /\ s \in cfg.nodes /\ n \in cfg.nodes /\ HasRegion(s)
        /\ RegionOf(s) = tr.examined[s] /\ RegionOf(n) = tr.examined[n]
    BY <1>0, RegionsDone DEF HasRegion
  <2>2. CASE Inherited(s)
    <3>1. PICK m \in cfg.nodes : RegionOf(m) = RegionOf(s) /\ OnlyFrom(m, s)
      BY <2>2 DEF Inherited
    <3>2. n = m
      BY <2>1, <3>1 DEF OnlyFrom
    <3> QED
      BY <2>1, <3>1, <3>2
  <2> QED
    BY <1>1, <2>1, <2>2 DEF RegionsFounded
<1>3. ASSUME NEW r \in DOMAIN tr.founding
      PROVE  tr.examined[tr.founding[r]] = r
  <2>1. HasRegion(tr.founding[r]) /\ RegionOf(tr.founding[r]) = r
    BY <1>1 DEF RegionsFounded
  <2> QED
    BY <1>0, <2>1, RegionsDone DEF HasRegion
<1> QED
  BY <1>0, <1>2, <1>3, RegionsDone DEF RegionsSingleEntry

(* ThreadRegionsBuilder: the search ends with every node it can reach in   *)
(* one region, and control enters a region at its founding node only.      *)
THEOREM RegionsSingleEntryHolds == Spec => []RegionsSingleEntry
<1>1. Init => BuildInv /\ RegionsInv
  BY InitBuildInv, InitRegionsInv
<1>2. BuildInv /\ RegionsInv /\ [Next]_<<vars, execVars>> => (BuildInv /\ RegionsInv)'
  BY NextBuildInv, NextRegionsInv
<1>3. BuildInv /\ RegionsInv => RegionsSingleEntry
  BY RegionsInvSingleEntry
<1> QED
  BY <1>1, <1>2, <1>3, PTL DEF Spec

-----------------------------------------------------------------------------
(* Executions.  A stack of points: what is below the top are the calls of  *)
(* the functions above them.                                               *)
Fine(stk) ==
  /\ stk \in Seq(Instrs(prog)) /\ stk # <<>>
  /\ \A i \in 2 .. Len(stk) : CallsFun(prog, stk[i], stk[i - 1][1])

LEMMA StackMoved ==
  ASSUME NEW stk, Fine(stk), NEW y \in Instrs(prog), y[1] = Head(stk)[1]
  PROVE  Fine(<<y>> \o Tail(stk)) /\ Head(<<y>> \o Tail(stk)) = y
<1> DEFINE new == <<y>> \o Tail(stk)
<1>1. stk \in Seq(Instrs(prog)) /\ stk # <<>> /\ Len(stk) \in Nat \ {0} /\ Head(stk) = stk[1]
  BY DEF Fine
<1>2. /\ new \in Seq(Instrs(prog)) /\ Len(new) = Len(stk) /\ new # <<>>
      /\ new[1] = y /\ Head(new) = y
  BY <1>1
<1>3. \A i \in 2 .. Len(stk) : new[i] = stk[i]
  BY <1>1
<1> HIDE DEF new
<1>4. ASSUME NEW i \in 2 .. Len(new) PROVE CallsFun(prog, new[i], new[i - 1][1])
  <2>1. CallsFun(prog, stk[i], stk[i - 1][1]) /\ new[i] = stk[i]
    BY <1>2, <1>3 DEF Fine
  <2>2. i = 2 \/ (i - 1 \in 2 .. Len(stk) /\ new[i - 1] = stk[i - 1])
    BY <1>1, <1>2, <1>3
  <2>3. i = 2 => new[i - 1][1] = stk[i - 1][1]
    BY <1>1, <1>2
  <2> QED
    BY <2>1, <2>2, <2>3
<1>5. Fine(new)
  BY <1>2, <1>4 DEF Fine
<1> QED
  BY <1>2, <1>5 DEF new

LEMMA StackPushed ==
  ASSUME NEW stk, Fine(stk), NEW y \in Instrs(prog), CallsFun(prog, Head(stk), y[1])
  PROVE  Fine(<<y>> \o stk) /\ Head(<<y>> \o stk) = y
<1> DEFINE new == <<y>> \o stk
<1>1. stk \in Seq(Instrs(prog)) /\ stk # <<>> /\ Len(stk) \in Nat \ {0} /\ Head(stk) = stk[1]
  BY DEF Fine
<1>2. /\ new \in Seq(Instrs(prog)) /\ Len(new) = Len(stk) + 1 /\ new # <<>>
      /\ new[1] = y /\ Head(new) = y
  BY <1>1
<1>3. \A i \in 2 .. Len(stk) + 1 : i - 1 \in 1 .. Len(stk) /\ new[i] = stk[i - 1]
  BY <1>1
<1> HIDE DEF new
<1>4. ASSUME NEW i \in 2 .. Len(new) PROVE CallsFun(prog, new[i], new[i - 1][1])
  <2>1. new[i] = stk[i - 1]
    BY <1>2, <1>3
  <2>2. CASE i = 2
    BY <1>1, <1>2, <2>1, <2>2
  <2>3. CASE i # 2
    <3>1. i - 1 \in 2 .. Len(stk) /\ i - 1 \in 2 .. Len(stk) + 1
      BY <1>1, <1>2, <2>3
    <3>2. CallsFun(prog, stk[i - 1], stk[(i - 1) - 1][1]) /\ new[i - 1] = stk[(i - 1) - 1]
      BY <1>3, <3>1 DEF Fine
    <3> QED
      BY <2>1, <3>2
  <2> QED
    BY <2>2, <2>3
<1>5. Fine(new)
  BY <1>2, <1>4 DEF Fine
<1> QED
  BY <1>2, <1>5 DEF new

LEMMA StackPopped ==
  ASSUME NEW stk, Fine(stk), Len(stk) > 1
  PROVE  /\ stk[1] \in Instrs(prog) /\ Head(stk) = stk[1] /\ stk[2] \in Instrs(prog)
         /\ CallsFun(prog, stk[2], stk[1][1])
         /\ Fine(Tail(stk)) /\ Head(Tail(stk)) = stk[2]
<1> DEFINE new == Tail(stk)
<1>1. stk \in Seq(Instrs(prog)) /\ stk # <<>> /\ Len(stk) \in Nat \ {0} /\ Head(stk) = stk[1]
  BY DEF Fine
<1>2. /\ new \in Seq(Instrs(prog)) /\ Len(new) = Len(stk) - 1 /\ new # <<>>
      /\ Head(new) = new[1] /\ 2 \in 2 .. Len(stk) /\ stk[1] \in Instrs(prog)
      /\ stk[2] \in Instrs(prog)
  BY <1>1
<1>3. \A i \in 1 .. Len(new) : i + 1 \in 2 .. Len(stk) /\ new[i] = stk[i + 1]
  BY <1>1, <1>2
<1> HIDE DEF new
<1>4. ASSUME NEW i \in 2 .. Len(new) PROVE CallsFun(prog, new[i], new[i - 1][1])
  <2>1. i \in 1 .. Len(new) /\ i - 1 \in 1 .. Len(new) /\ (i + 1) - 1 = i /\ (i - 1) + 1 = i
    BY <1>1, <1>2
  <2>2. new[i] = stk[i + 1] /\ new[i - 1] = stk[i] /\ i + 1 \in 2 .. Len(stk)
    BY <1>3, <2>1
  <2>3. CallsFun(prog, stk[i + 1], stk[(i + 1) - 1][1])
    BY <2>2 DEF Fine
  <2> QED
    BY <2>1, <2>2, <2>3
<1>5. Fine(new)
  BY <1>2, <1>4 DEF Fine
<1>6. CallsFun(prog, stk[2], stk[2 - 1][1]) /\ 2 - 1 = 1
  BY <1>2 DEF Fine
<1>7. Head(new) = stk[2]
  BY <1>1, <1>2, <1>3
<1> QED
  BY <1>1, <1>2, <1>5, <1>6, <1>7 DEF new

ThreadState ==
  [st : {"off", "run", "done", "stopped"}, stk : Seq(Instrs(prog)),
   fork : {NoNode} \cup Forks, held : SUBSET Locks]

(* The state b of a thread comes from its state a by a step along the edges*)
(* of the graph, through the unlock u if there is one.                     *)
Goes(a, b, u) ==
  /\ b \in ThreadState /\ Fine(b.stk) /\ b.st = "run" /\ b.fork = a.fork
  /\ \A X, S : Keeps(prog, X, S) /\ FirstNode(prog, Head(a.stk)) \in X /\ u \notin S =>
       FirstNode(prog, Head(b.stk)) \in X

(* A move within a function.                                               *)
LEMMA MovedGoes ==
  ASSUME NEW a \in ThreadState, Fine(a.stk), a.st = "run", NEW y \in Instrs(prog),
         y[1] = Head(a.stk)[1], NEW u, NEW held \in SUBSET Locks, NEW b,
         b.st = a.st, b.fork = a.fork, b.held = held,
         b.stk = <<y>> \o Tail(a.stk),
         b = [st |-> b.st, stk |-> b.stk, fork |-> b.fork, held |-> b.held],
         \A X, S : Keeps(prog, X, S) /\ FirstNode(prog, Head(a.stk)) \in X /\ u \notin S =>
           FirstNode(prog, y) \in X
  PROVE  Goes(a, b, u)
<1>1. Fine(b.stk) /\ Head(b.stk) = y
  BY StackMoved
<1>2. b.stk \in Seq(Instrs(prog))
  BY <1>1 DEF Fine
<1>3. b \in ThreadState
  BY <1>2 DEF ThreadState
<1> QED
  BY <1>1, <1>3 DEF Goes

HandleNames == UNION {CalleeOfNode(prog, n).h : n \in Forks \cup Joins}

ExecTyped ==
  /\ thr \in [Threads -> ThreadState] /\ \A t \in Threads : Fine(thr[t].stk)
  /\ last \in [Objects -> {<<>>} \cup (Instrs(prog) \X Threads)]
  /\ hnd \in [HandleNames -> Threads \cup {0}]

(* What a step does to the thread that takes it.                           *)
Plain(t) ==
  \E b : /\ thr' = [thr EXCEPT ![t] = b] /\ hnd' = hnd
         /\ Goes(thr[t], b, NoNode) /\ b.held = thr[t].held

Ends1(t) ==
  /\ thr' = [thr EXCEPT ![t] = Ended(t)] \/ thr' = AllEnded
  /\ hnd' = hnd

Creates(t) ==
  \E b, u, n, f, h :
    /\ u \in Threads /\ thr[u].st = "off" /\ u # t
    /\ thr' = [thr EXCEPT ![t] = b, ![u] = NewThread(f, n)] /\ hnd' = [hnd EXCEPT ![h] = u]
    /\ Goes(thr[t], b, NoNode) /\ b.held = thr[t].held
    /\ n \in Forks /\ f \in CalleeOfNode(prog, n).fns /\ h \in CalleeOfNode(prog, n).h
    /\ f \in BuiltFunctions(prog)
    /\ \A X : Keeps(prog, X, {}) /\ FirstNode(prog, ThreadAt(t)) \in X => n \in X

Locks1(t) ==
  \E b, n :
    /\ thr' = [thr EXCEPT ![t] = b] /\ hnd' = hnd
    /\ Goes(thr[t], b, NoNode) /\ b.held = thr[t].held \cup {n} /\ n \in Locks
    /\ \A X, S : Keeps(prog, X, S) /\ n \in X \ S => FirstNode(prog, Head(b.stk)) \in X

Unlocks(t) ==
  \E b, n :
    /\ thr' = [thr EXCEPT ![t] = b] /\ hnd' = hnd
    /\ Goes(thr[t], b, n)
    /\ \A l \in b.held : l \in thr[t].held /\ CalleeOfNode(prog, l).h # CalleeOfNode(prog, n).h

(* A thread that may take a step.                                          *)
Active(t) ==
  /\ WellFormed(prog) /\ ExecTyped /\ t \in Threads /\ Runs(t)

LEMMA StackChanged ==
  ASSUME NEW a \in ThreadState, NEW stk
  PROVE  [a EXCEPT !.stk = stk] = [st |-> a.st, stk |-> stk, fork |-> a.fork, held |-> a.held]
  BY DEF ThreadState

LEMMA HeldChanged ==
  ASSUME NEW st, NEW stk, NEW fork, NEW old, NEW held
  PROVE  [[st |-> st, stk |-> stk, fork |-> fork, held |-> old] EXCEPT !.held = held]
           = [st |-> st, stk |-> stk, fork |-> fork, held |-> held]
  OBVIOUS

LEMMA ActiveFacts ==
  ASSUME NEW t, Active(t)
  PROVE  /\ thr[t] \in ThreadState /\ Fine(thr[t].stk) /\ thr[t].st = "run"
         /\ ThreadAt(t) \in Instrs(prog) /\ ThreadAt(t) = Head(thr[t].stk)
         /\ NextPoint(ThreadAt(t))[1] = ThreadAt(t)[1]
         /\ thr[t].held \subseteq Locks
         /\ \A y : /\ Moved(t, y).st = thr[t].st /\ Moved(t, y).fork = thr[t].fork
                   /\ Moved(t, y).held = thr[t].held
                   /\ Moved(t, y).stk = <<y>> \o Tail(thr[t].stk)
                   /\ Moved(t, y) = [st |-> thr[t].st, stk |-> <<y>> \o Tail(thr[t].stk),
                                     fork |-> thr[t].fork, held |-> thr[t].held]
<1>1. thr[t] \in ThreadState /\ Fine(thr[t].stk) /\ thr[t].st = "run"
  BY DEF Active, ExecTyped, Runs
<1>2. Head(thr[t].stk) \in Instrs(prog)
  BY <1>1 DEF Fine
<1>3. ASSUME NEW y
      PROVE  Moved(t, y) = [st |-> thr[t].st, stk |-> <<y>> \o Tail(thr[t].stk),
                            fork |-> thr[t].fork, held |-> thr[t].held]
  BY <1>1, StackChanged DEF Moved
<1>4. thr[t].held \subseteq Locks
  BY <1>1 DEF ThreadState
<1> QED
  BY <1>1, <1>2, <1>3, <1>4 DEF ThreadAt, NextPoint

LEMMA ActiveGoes ==
  ASSUME NEW t, Active(t), NEW y \in Instrs(prog), y[1] = ThreadAt(t)[1], NEW u,
         \A X, S : Keeps(prog, X, S) /\ FirstNode(prog, ThreadAt(t)) \in X /\ u \notin S =>
           FirstNode(prog, y) \in X
  PROVE  Goes(thr[t], Moved(t, y), u) /\ Moved(t, y).held = thr[t].held
<1>1. PICK a, b : a = thr[t] /\ b = Moved(t, y)
  OBVIOUS
<1>2. /\ a \in ThreadState /\ Fine(a.stk) /\ a.st = "run" /\ ThreadAt(t) = Head(a.stk)
      /\ a.held \subseteq Locks
  BY <1>1, ActiveFacts
<1>3. /\ b.st = a.st /\ b.fork = a.fork /\ b.held = a.held /\ b.stk = <<y>> \o Tail(a.stk)
      /\ b = [st |-> a.st, stk |-> <<y>> \o Tail(a.stk), fork |-> a.fork, held |-> a.held]
  BY <1>1, ActiveFacts
<1>4. b = [st |-> b.st, stk |-> b.stk, fork |-> b.fork, held |-> b.held]
  BY <1>3, Zenon
<1>5. a.held \in SUBSET Locks
  BY <1>2
<1>6. y[1] = Head(a.stk)[1]
  BY <1>2
<1>7. \A X, S : Keeps(prog, X, S) /\ FirstNode(prog, Head(a.stk)) \in X /\ u \notin S =>
        FirstNode(prog, y) \in X
  BY <1>2
<1>8. PICK held : held = a.held
  OBVIOUS
<1>9. Goes(a, b, u)
  <2>1. held \in SUBSET Locks /\ b.held = held
    BY <1>3, <1>5, <1>8
  <2> QED
    BY <1>2, <1>3, <1>4, <1>6, <1>7, <2>1, MovedGoes
<1> QED
  BY <1>1, <1>3, <1>9

(* The next instruction, unless an unlock ends the way to it.              *)
LEMMA AdvancePlain ==
  ASSUME NEW t, Active(t), thr' = [thr EXCEPT ![t] = Advance(t)], hnd' = hnd,
         NextPoint(ThreadAt(t)) \in Instrs(prog),
         \A X, S : Keeps(prog, X, S) /\ FirstNode(prog, ThreadAt(t)) \in X /\ NoNode \notin S =>
           FirstNode(prog, NextPoint(ThreadAt(t))) \in X
  PROVE  Plain(t)
<1> DEFINE y == NextPoint(ThreadAt(t))
           b == Moved(t, y)
<1>1. y \in Instrs(prog) /\ y[1] = ThreadAt(t)[1]
  BY ActiveFacts
<1>2. \A X, S : Keeps(prog, X, S) /\ FirstNode(prog, ThreadAt(t)) \in X /\ NoNode \notin S =>
        FirstNode(prog, y) \in X
  OBVIOUS
<1>3. hnd' = hnd /\ thr' = [thr EXCEPT ![t] = b]
  BY DEF Advance
<1> HIDE DEF y
<1>4. Goes(thr[t], b, NoNode) /\ b.held = thr[t].held
  BY <1>1, <1>2, ActiveGoes
<1> HIDE DEF b
<1> QED
  BY <1>3, <1>4 DEF Plain

LEMMA AccessPlain ==
  ASSUME NEW t, Active(t), InstrAt(prog, ThreadAt(t)).op \in {"load", "store"},
         thr' = [thr EXCEPT ![t] = Advance(t)], hnd' = hnd
  PROVE  Plain(t)
<1>1. ThreadAt(t) \in Instrs(prog) /\ WellFormed(prog)
  BY ActiveFacts DEF Active
<1>2. NextPoint(ThreadAt(t)) \in Instrs(prog)
  <2>1. LastNode(prog, ThreadAt(t)) = FirstNode(prog, ThreadAt(t))
        /\ NodeType(FirstNode(prog, ThreadAt(t))) = "GENERAL"
    BY DEF LastNode, FirstNode, NodeType, Node
  <2> QED
    BY <1>1, <2>1, NextBuilt
<1>3. ASSUME NEW X, NEW S, Keeps(prog, X, S), FirstNode(prog, ThreadAt(t)) \in X
      PROVE  FirstNode(prog, NextPoint(ThreadAt(t))) \in X
  BY <1>1, <1>3, AccessStays
<1> QED
  BY <1>2, <1>3, AdvancePlain

LEMMA BranchPlain ==
  ASSUME NEW t, Active(t), Branch(t)
  PROVE  Plain(t)
<1>1. PICK k \in prog[ThreadAt(t)[1]][ThreadAt(t)[2]].succ :
        thr' = [thr EXCEPT ![t] = Moved(t, <<ThreadAt(t)[1], k, 1>>)]
  BY DEF Branch
<1>2. ThreadAt(t) \in Instrs(prog) /\ WellFormed(prog)
      /\ InstrAt(prog, ThreadAt(t)).op = "br"
  BY ActiveFacts DEF Active, Branch
<1> DEFINE y == <<ThreadAt(t)[1], k, 1>>
           b == Moved(t, y)
<1>3. y \in Instrs(prog) /\ y[1] = ThreadAt(t)[1]
  BY <1>2, BranchBuilt
<1>4. ASSUME NEW X, NEW S, Keeps(prog, X, S), FirstNode(prog, ThreadAt(t)) \in X
      PROVE  FirstNode(prog, y) \in X
  BY <1>2, <1>4, BranchStays
<1> HIDE DEF y
<1>5. Goes(thr[t], b, NoNode) /\ b.held = thr[t].held
  BY <1>3, <1>4, ActiveGoes
<1>6. hnd' = hnd /\ thr' = [thr EXCEPT ![t] = b]
  BY <1>1 DEF Branch, y
<1> HIDE DEF b
<1> QED
  BY <1>5, <1>6 DEF Plain

LEMMA ReturnSteps ==
  ASSUME NEW t, Active(t), Return(t)
  PROVE  Plain(t) \/ Ends1(t)
<1>1. CASE Len(thr[t].stk) > 1
  <2> DEFINE stk == thr[t].stk
             x == stk[1]
             y == stk[2]
             b == [thr[t] EXCEPT !.stk = <<NextPoint(y)>> \o Tail(Tail(stk))]
  <2>1. /\ Fine(stk) /\ WellFormed(prog) /\ thr[t] \in ThreadState /\ thr[t].st = "run"
        /\ ThreadAt(t) = Head(stk)
        /\ InstrAt(prog, ThreadAt(t)).op = "ret"
    BY ActiveFacts DEF Active, Return
  <2>2. thr' = [thr EXCEPT ![t] = b] /\ hnd' = hnd
    <3>1. thr' = [thr EXCEPT ![t].stk = <<NextPoint(@[2])>> \o Tail(Tail(@))]
      BY <1>1 DEF Return
    <3>2. hnd' = hnd
      BY DEF Return
    <3> QED
      BY <3>1, <3>2
  <2>3. /\ x \in Instrs(prog) /\ Head(stk) = x /\ y \in Instrs(prog)
        /\ CallsFun(prog, y, x[1]) /\ Fine(Tail(stk)) /\ Head(Tail(stk)) = y
    BY <1>1, <2>1, StackPopped
  <2>4. NextPoint(y)[1] = y[1]
    BY DEF NextPoint
  <2>5. b = [st |-> thr[t].st, stk |-> <<NextPoint(y)>> \o Tail(Tail(stk)),
             fork |-> thr[t].fork, held |-> thr[t].held]
    BY <2>1, StackChanged
  <2>6. b.st = "run" /\ b.fork = thr[t].fork /\ b.held = thr[t].held
        /\ b.stk = <<NextPoint(y)>> \o Tail(Tail(stk))
    BY <2>1, <2>5
  <2> HIDE DEF b, x, y, stk
  <2>7. ASSUME NEW X, NEW S, Keeps(prog, X, S), FirstNode(prog, x) \in X
        PROVE  FirstNode(prog, NextPoint(y)) \in X
    BY <2>1, <2>3, <2>7, ReturnStays
  <2>8. NextPoint(y) \in Instrs(prog)
    <3>1. PICK c \in DOMAIN InstrAt(prog, y).to :
            InstrAt(prog, y).to[c].k = "fun" /\ InstrAt(prog, y).to[c].fns = {x[1]}
      BY <2>3 DEF CallsFun
    <3>2. IsCallInst(prog, y)
      BY <2>3 DEF CallsFun
    <3>3. NodeType(LastNode(prog, y)) # "RETURN"
      <4>1. NodeType(ExitNode(x[1])) = "EXIT"
        BY DEF ExitNode, NodeType
      <4> QED
        BY <2>1, <2>3, <3>1, <3>2, <4>1, CallLastFacts
    <3> QED
      BY <2>1, <2>3, <3>2, <3>3, NextBuilt DEF IsCallInst
  <2>9. Fine(b.stk) /\ Head(b.stk) = NextPoint(y)
    BY <2>3, <2>4, <2>6, <2>8, StackMoved
  <2>10. b \in ThreadState
    <3>1. b.stk \in Seq(Instrs(prog))
      BY <2>9 DEF Fine
    <3> QED
      BY <2>1, <2>5, <2>6, <3>1 DEF ThreadState
  <2>11. Goes(thr[t], b, NoNode)
    BY <2>1, <2>3, <2>6, <2>7, <2>9, <2>10 DEF Goes, stk
  <2> QED
    BY <2>2, <2>6, <2>11 DEF Plain
<1>2. CASE ~(Len(thr[t].stk) > 1)
  BY <1>2 DEF Return, Ends1
<1> QED
  BY <1>1, <1>2

LEMMA NodeOfCall ==
  ASSUME NEW P, WellFormed(P), NEW x \in Instrs(P), NEW c \in DOMAIN InstrAt(P, x).to,
         IsCallInst(P, x), NEW n, n = CallNode(P, x, c)
  PROVE  /\ CalleeOfNode(P, n) = InstrAt(P, x).to[c] /\ NodeInstr(n) = x
         /\ NodeType(n) = CalleeType(InstrAt(P, x).to[c].k)
         /\ n \in CalleeNodes(P, InstrAt(P, x).to[c].k)
  BY CallNodeFacts

(* A call that control comes back from at once: n is its node.             *)
LEMMA PassFacts ==
  ASSUME NEW t, Active(t), IsCallInst(prog, ThreadAt(t)),
         NEW c \in DOMAIN InstrAt(prog, ThreadAt(t)).to,
         InstrAt(prog, ThreadAt(t)).to[c].k \notin {"fun", "exit"},
         NEW n, n = CallNode(prog, ThreadAt(t), c)
  PROVE  /\ NextPoint(ThreadAt(t)) \in Instrs(prog)
         /\ \A X, S : Keeps(prog, X, S) /\ FirstNode(prog, ThreadAt(t)) \in X => n \in X
         /\ \A X, S : Keeps(prog, X, S) /\ n \in X \ S =>
              FirstNode(prog, NextPoint(ThreadAt(t))) \in X
         /\ InstrAt(prog, ThreadAt(t)).to[c].k # "unlock" =>
              \A X, S : Keeps(prog, X, S) => n \notin S
         /\ CalleeOfNode(prog, n) = InstrAt(prog, ThreadAt(t)).to[c]
         /\ n \in CalleeNodes(prog, InstrAt(prog, ThreadAt(t)).to[c].k)
<1>1. ThreadAt(t) \in Instrs(prog) /\ WellFormed(prog)
  BY ActiveFacts DEF Active
<1>2. NextPoint(ThreadAt(t)) \in Instrs(prog)
  BY <1>1, CallLastFacts, NextBuilt DEF IsCallInst
<1>3. ASSUME NEW X, NEW S, Keeps(prog, X, S), FirstNode(prog, ThreadAt(t)) \in X PROVE n \in X
  BY <1>1, <1>3, CallNodeStays
<1>4. ASSUME NEW X, NEW S, Keeps(prog, X, S), n \in X \ S
      PROVE  FirstNode(prog, NextPoint(ThreadAt(t))) \in X
  BY <1>1, <1>4, PassStays
<1>5. /\ NodeType(n) = CalleeType(InstrAt(prog, ThreadAt(t)).to[c].k)
      /\ CalleeOfNode(prog, n) = InstrAt(prog, ThreadAt(t)).to[c]
      /\ n \in CalleeNodes(prog, InstrAt(prog, ThreadAt(t)).to[c].k)
  BY <1>1, NodeOfCall
<1>6. ASSUME InstrAt(prog, ThreadAt(t)).to[c].k # "unlock", NEW X, NEW S, Keeps(prog, X, S)
      PROVE  n \notin S
  BY <1>5, <1>6 DEF CalleeType, Keeps
<1> QED
  BY <1>2, <1>3, <1>4, <1>5, <1>6

(* The next point after a call, with the mutexes held then.                *)
LEMMA PassGoes ==
  ASSUME NEW t, Active(t), IsCallInst(prog, ThreadAt(t)),
         NEW c \in DOMAIN InstrAt(prog, ThreadAt(t)).to,
         InstrAt(prog, ThreadAt(t)).to[c].k \notin {"fun", "exit"},
         NEW u, u = CallNode(prog, ThreadAt(t), c) \/ InstrAt(prog, ThreadAt(t)).to[c].k # "unlock",
         NEW held \in SUBSET Locks
  PROVE  /\ Goes(thr[t], [Advance(t) EXCEPT !.held = held], u)
         /\ [Advance(t) EXCEPT !.held = held].held = held
         /\ Head([Advance(t) EXCEPT !.held = held].stk) = NextPoint(ThreadAt(t))
<1>n. PICK n : n = CallNode(prog, ThreadAt(t), c)
  OBVIOUS
<1> DEFINE y == NextPoint(ThreadAt(t))
           a == thr[t]
           b == [Advance(t) EXCEPT !.held = held]
<1>1. /\ a \in ThreadState /\ Fine(a.stk) /\ a.st = "run"
      /\ ThreadAt(t) = Head(a.stk) /\ y[1] = ThreadAt(t)[1]
      /\ Moved(t, y) = [st |-> a.st, stk |-> <<y>> \o Tail(a.stk), fork |-> a.fork, held |-> a.held]
  BY ActiveFacts
<1>2. y \in Instrs(prog)
  BY <1>n, PassFacts
<1>3. ASSUME NEW X, NEW S, Keeps(prog, X, S), FirstNode(prog, ThreadAt(t)) \in X, u \notin S
      PROVE  FirstNode(prog, y) \in X
  <2>1. n \in X
    BY <1>n, <1>3, PassFacts
  <2>2. n \notin S
    BY <1>n, <1>3, PassFacts
  <2> QED
    BY <1>n, <1>3, <2>1, <2>2, PassFacts
<1>4. Advance(t) = Moved(t, y)
  BY DEF Advance
<1> HIDE DEF y, a
<1>5. b = [st |-> a.st, stk |-> <<y>> \o Tail(a.stk), fork |-> a.fork, held |-> held]
  <2>1. PICK m : m = Advance(t)
    OBVIOUS
  <2>2. m = [st |-> a.st, stk |-> <<y>> \o Tail(a.stk), fork |-> a.fork, held |-> a.held]
    BY <1>1, <1>4, <2>1
  <2>3. [m EXCEPT !.held = held] =
          [st |-> a.st, stk |-> <<y>> \o Tail(a.stk), fork |-> a.fork, held |-> held]
    <3>1. [[st |-> a.st, stk |-> <<y>> \o Tail(a.stk), fork |-> a.fork, held |-> a.held]
             EXCEPT !.held = held] =
            [st |-> a.st, stk |-> <<y>> \o Tail(a.stk), fork |-> a.fork, held |-> held]
      BY HeldChanged
    <3> QED
      BY <2>2, <3>1, Zenon
  <2> QED
    BY <2>1, <2>3
<1>6. /\ b.st = a.st /\ b.fork = a.fork /\ b.held = held /\ b.stk = <<y>> \o Tail(a.stk)
      /\ b = [st |-> b.st, stk |-> b.stk, fork |-> b.fork, held |-> b.held]
  BY <1>5
<1> HIDE DEF b
<1>7. Goes(a, b, u)
  BY <1>1, <1>2, <1>3, <1>6, MovedGoes
<1>8. Head(b.stk) = y
  BY <1>1, <1>2, <1>6, StackMoved
<1> QED
  BY <1>6, <1>7, <1>8 DEF y, a, b

(* pthread_join and calls without an effect.                               *)
LEMMA OtherPlain ==
  ASSUME NEW t, Active(t), IsCallInst(prog, ThreadAt(t)),
         NEW c \in DOMAIN InstrAt(prog, ThreadAt(t)).to,
         InstrAt(prog, ThreadAt(t)).to[c].k \in {"join", "other"},
         thr' = [thr EXCEPT ![t] = Advance(t)], hnd' = hnd
  PROVE  Plain(t)
<1>n. PICK n : n = CallNode(prog, ThreadAt(t), c)
  OBVIOUS
<1>1. NextPoint(ThreadAt(t)) \in Instrs(prog)
  BY <1>n, PassFacts
<1>2. ASSUME NEW X, NEW S, Keeps(prog, X, S), FirstNode(prog, ThreadAt(t)) \in X
      PROVE  FirstNode(prog, NextPoint(ThreadAt(t))) \in X
  <2>1. n \in X
    BY <1>n, <1>2, PassFacts
  <2>2. n \notin S
    BY <1>n, <1>2, PassFacts
  <2> QED
    BY <1>n, <1>2, <2>1, <2>2, PassFacts
<1> QED
  BY <1>1, <1>2, AdvancePlain

LEMMA LockSteps ==
  ASSUME NEW t, Active(t), IsCallInst(prog, ThreadAt(t)),
         NEW c \in DOMAIN InstrAt(prog, ThreadAt(t)).to,
         Lock(t, InstrAt(prog, ThreadAt(t)).to[c], CallNode(prog, ThreadAt(t), c))
  PROVE  Locks1(t)
<1>n. PICK n : n = CallNode(prog, ThreadAt(t), c)
  OBVIOUS
<1>1. /\ InstrAt(prog, ThreadAt(t)).to[c].k = "lock" /\ hnd' = hnd
      /\ thr' = [thr EXCEPT ![t] = [Advance(t) EXCEPT !.held = @ \cup {n}]]
  BY <1>n DEF Lock
<1>2. n \in Locks
  BY <1>n, <1>1, PassFacts DEF Locks
<1>3. Advance(t).held = thr[t].held /\ thr[t].held \subseteq Locks
  BY ActiveFacts DEF Advance
<1> DEFINE held == thr[t].held \cup {n}
           b == [Advance(t) EXCEPT !.held = held]
<1>4. thr' = [thr EXCEPT ![t] = b]
  BY <1>1, <1>3
<1>5. Goes(thr[t], b, NoNode) /\ b.held = held /\ Head(b.stk) = NextPoint(ThreadAt(t))
  <2>1. held \in SUBSET Locks
    BY <1>2, <1>3
  <2> HIDE DEF held
  <2> QED
    BY <1>1, <2>1, PassGoes
<1>6. \A X, S : Keeps(prog, X, S) /\ n \in X \ S => FirstNode(prog, NextPoint(ThreadAt(t))) \in X
  BY <1>n, <1>1, PassFacts
<1> HIDE DEF b
<1> QED
  BY <1>1, <1>2, <1>4, <1>5, <1>6 DEF Locks1

LEMMA UnlockSteps ==
  ASSUME NEW t, Active(t), IsCallInst(prog, ThreadAt(t)),
         NEW c \in DOMAIN InstrAt(prog, ThreadAt(t)).to,
         Unlock(t, InstrAt(prog, ThreadAt(t)).to[c])
  PROVE  Unlocks(t)
<1>n. PICK n : n = CallNode(prog, ThreadAt(t), c)
  OBVIOUS
<1> DEFINE h == InstrAt(prog, ThreadAt(t)).to[c].h
           held == thr[t].held \ Held(h)
           b == [Advance(t) EXCEPT !.held = held]
<1>1. /\ InstrAt(prog, ThreadAt(t)).to[c].k = "unlock" /\ hnd' = hnd
      /\ thr' = [thr EXCEPT ![t] = [Advance(t) EXCEPT !.held = @ \ Held(h)]]
  BY DEF Unlock
<1>2. CalleeOfNode(prog, n).h = h
  BY <1>n, <1>1, PassFacts
<1>3. Advance(t).held = thr[t].held /\ thr[t].held \subseteq Locks
  BY ActiveFacts DEF Advance
<1>4. thr' = [thr EXCEPT ![t] = b]
  BY <1>1, <1>3
<1>5. Goes(thr[t], b, n) /\ b.held = held
  <2>1. held \in SUBSET Locks
    BY <1>3
  <2> HIDE DEF held
  <2> QED
    BY <1>n, <1>1, <2>1, PassGoes
<1>6. \A l \in held : l \in thr[t].held /\ CalleeOfNode(prog, l).h # h
  BY DEF Held, Active
<1> HIDE DEF b, held, h
<1> QED
  BY <1>1, <1>2, <1>4, <1>5, <1>6 DEF Unlocks

LEMMA CreateSteps ==
  ASSUME NEW t, Active(t), IsCallInst(prog, ThreadAt(t)),
         NEW c \in DOMAIN InstrAt(prog, ThreadAt(t)).to,
         Create(t, InstrAt(prog, ThreadAt(t)).to[c], CallNode(prog, ThreadAt(t), c))
  PROVE  Creates(t)
<1>n. PICK n : n = CallNode(prog, ThreadAt(t), c)
  OBVIOUS
<1>1. InstrAt(prog, ThreadAt(t)).to[c].k = "create"
  BY DEF Create
<1>2. PICK u \in Threads : thr[u].st = "off" /\
        \E f \in InstrAt(prog, ThreadAt(t)).to[c].fns :
          \E h \in InstrAt(prog, ThreadAt(t)).to[c].h :
            /\ thr' = [thr EXCEPT ![t] = Advance(t), ![u] = NewThread(f, n)]
            /\ hnd' = [hnd EXCEPT ![h] = u]
  BY <1>n DEF Create
<1>3. PICK f \in InstrAt(prog, ThreadAt(t)).to[c].fns :
        \E h \in InstrAt(prog, ThreadAt(t)).to[c].h :
          /\ thr' = [thr EXCEPT ![t] = Advance(t), ![u] = NewThread(f, n)]
          /\ hnd' = [hnd EXCEPT ![h] = u]
  BY <1>2
<1>4. PICK h \in InstrAt(prog, ThreadAt(t)).to[c].h :
        /\ thr' = [thr EXCEPT ![t] = Advance(t), ![u] = NewThread(f, n)]
        /\ hnd' = [hnd EXCEPT ![h] = u]
  BY <1>3
<1>5. u # t
  BY <1>2, ActiveFacts
<1> DEFINE b == Advance(t)
<1>6. Goes(thr[t], b, NoNode) /\ b.held = thr[t].held
  <2>1. Advance(t).held = thr[t].held /\ thr[t].held \subseteq Locks
    BY ActiveFacts DEF Advance
  <2>2. Advance(t) = [Advance(t) EXCEPT !.held = thr[t].held]
    <3>1. PICK y : Advance(t) = Moved(t, y)
      BY DEF Advance
    <3>2. PICK q : q = thr[t]
      OBVIOUS
    <3>3. PICK stk : stk = <<y>> \o Tail(q.stk)
      OBVIOUS
    <3>4. Advance(t) = [st |-> q.st, stk |-> stk, fork |-> q.fork, held |-> q.held]
      BY <3>1, <3>2, <3>3, ActiveFacts
    <3>5. [[st |-> q.st, stk |-> stk, fork |-> q.fork, held |-> q.held] EXCEPT !.held = q.held]
            = [st |-> q.st, stk |-> stk, fork |-> q.fork, held |-> q.held]
      BY HeldChanged
    <3> QED
      BY <3>2, <3>4, <3>5, Zenon
  <2>3. Goes(thr[t], [Advance(t) EXCEPT !.held = thr[t].held], NoNode)
    BY <1>1, <2>1, PassGoes
  <2> QED
    BY <2>1, <2>2, <2>3
<1>7. /\ CalleeOfNode(prog, n) = InstrAt(prog, ThreadAt(t)).to[c] /\ n \in Forks
      /\ \A X : Keeps(prog, X, {}) /\ FirstNode(prog, ThreadAt(t)) \in X => n \in X
  BY <1>n, <1>1, PassFacts DEF Forks
<1>8. f \in BuiltFunctions(prog)
  BY <1>1, <1>3, ActiveFacts, FunctionsClosed DEF Active
<1> HIDE DEF b
<1>9. /\ thr' = [thr EXCEPT ![t] = b, ![u] = NewThread(f, n)] /\ hnd' = [hnd EXCEPT ![h] = u]
      /\ f \in CalleeOfNode(prog, n).fns /\ h \in CalleeOfNode(prog, n).h
  BY <1>3, <1>4, <1>7 DEF b
<1> QED
  BY <1>2, <1>5, <1>6, <1>7, <1>8, <1>9 DEF Creates

LEMMA CallFunctionPlain ==
  ASSUME NEW t, Active(t), IsCallInst(prog, ThreadAt(t)),
         NEW c \in DOMAIN InstrAt(prog, ThreadAt(t)).to,
         CallFunction(t, InstrAt(prog, ThreadAt(t)).to[c])
  PROVE  Plain(t)
<1> DEFINE x == ThreadAt(t)
           callee == InstrAt(prog, x).to[c]
<1>1. PICK f \in callee.fns : thr' = [thr EXCEPT ![t].stk = <<<<f, 1, 1>>>> \o @]
  BY DEF CallFunction
<1> DEFINE a == thr[t]
           y == <<f, 1, 1>>
           b == [a EXCEPT !.stk = <<y>> \o a.stk]
<1>2. /\ a \in ThreadState /\ Fine(a.stk) /\ a.st = "run" /\ x \in Instrs(prog)
      /\ x = Head(a.stk) /\ WellFormed(prog)
  BY ActiveFacts DEF Active
<1>3. callee.k = "fun" /\ hnd' = hnd
  BY DEF CallFunction
<1>4. thr' = [thr EXCEPT ![t] = b]
  BY <1>1
<1>5. callee.fns = {f}
  <2>1. LegalCallee(prog, callee)
    BY <1>2, CallFacts
  <2> QED
    BY <1>3, <2>1 DEF LegalCallee
<1>6. y[1] = f /\ CallsFun(prog, x, f)
  BY <1>3, <1>5 DEF CallsFun
<1>7. y \in Instrs(prog)
  <2>1. f \in BuiltFunctions(prog)
    BY <1>2, <1>3, FunctionsClosed
  <2> QED
    BY <1>2, <2>1, EntryBuilt
<1>8. ASSUME NEW X, NEW S, Keeps(prog, X, S), FirstNode(prog, x) \in X
      PROVE  FirstNode(prog, y) \in X
  BY <1>2, <1>3, <1>8, EnterStays
<1>9. b = [st |-> a.st, stk |-> <<y>> \o a.stk, fork |-> a.fork, held |-> a.held]
  BY <1>2, StackChanged
<1> HIDE DEF y, a, x, callee
<1>10. b.st = a.st /\ b.fork = a.fork /\ b.held = a.held /\ b.stk = <<y>> \o a.stk
  BY <1>9
<1> HIDE DEF b
<1>11. Fine(b.stk) /\ Head(b.stk) = y
  BY <1>2, <1>6, <1>7, <1>10, StackPushed
<1>12. b \in ThreadState
  <2>1. b.stk \in Seq(Instrs(prog))
    BY <1>11 DEF Fine
  <2> QED
    BY <1>2, <1>9, <1>10, <2>1 DEF ThreadState
<1>13. Goes(a, b, NoNode)
  BY <1>2, <1>8, <1>10, <1>11, <1>12 DEF Goes
<1> QED
  BY <1>3, <1>4, <1>10, <1>13 DEF Plain, a

(* What becomes of a thread v in a step: nothing, its end, a move along    *)
(* the edges, its creation.                                                *)
Halts(v) ==
  /\ thr'[v] \in ThreadState /\ thr'[v].st # "run" /\ thr'[v].stk = thr[v].stk
  /\ thr'[v].fork = thr[v].fork /\ (thr[v].st # "off" => thr'[v].st # "off")

Moves(v) ==
  \E u :
    /\ Goes(thr[v], thr'[v], u) /\ thr[v].st = "run"
    /\ \A l \in thr'[v].held :
         \/ l \in thr[v].held /\ (u = NoNode \/ CalleeOfNode(prog, l).h # CalleeOfNode(prog, u).h)
         \/ \A X, S : Keeps(prog, X, S) /\ l \in X \ S => FirstNode(prog, Head(thr'[v].stk)) \in X

Starts(v) ==
  \E t, n, f :
    /\ thr[v].st = "off" /\ thr'[v] = NewThread(f, n)
    /\ n \in Forks /\ f \in CalleeOfNode(prog, n).fns /\ f \in BuiltFunctions(prog)
    /\ t \in Threads /\ Runs(t)
    /\ \A X : Keeps(prog, X, {}) /\ FirstNode(prog, ThreadAt(t)) \in X => n \in X

Changes ==
  /\ thr' = [v \in Threads |-> thr'[v]]
  /\ \A v \in Threads : thr'[v] = thr[v] \/ Halts(v) \/ Moves(v) \/ Starts(v)

LEMMA OneChanged ==
  ASSUME ExecTyped, NEW t \in Threads, NEW b, thr' = [thr EXCEPT ![t] = b]
  PROVE  /\ thr' = [v \in Threads |-> thr'[v]] /\ thr'[t] = b
         /\ \A v \in Threads \ {t} : thr'[v] = thr[v]
  BY DEF ExecTyped

LEMMA MoveChanges ==
  ASSUME NEW t, Active(t), Plain(t) \/ Locks1(t) \/ Unlocks(t)
  PROVE  Changes /\ hnd' = hnd
<1>1. ExecTyped /\ t \in Threads /\ thr[t].st = "run"
  BY DEF Active, Runs
<1>2. CASE Plain(t)
  <2>1. PICK b : /\ thr' = [thr EXCEPT ![t] = b] /\ hnd' = hnd
                 /\ Goes(thr[t], b, NoNode) /\ b.held = thr[t].held
    BY <1>2 DEF Plain
  <2>2. /\ thr' = [v \in Threads |-> thr'[v]] /\ thr'[t] = b
        /\ \A v \in Threads \ {t} : thr'[v] = thr[v]
    BY <1>1, <2>1, OneChanged
  <2>3. Moves(t)
    BY <1>1, <2>1, <2>2 DEF Moves
  <2> QED
    BY <2>1, <2>2, <2>3 DEF Changes
<1>3. CASE Locks1(t)
  <2>1. PICK b, n :
          /\ thr' = [thr EXCEPT ![t] = b] /\ hnd' = hnd
          /\ Goes(thr[t], b, NoNode) /\ b.held = thr[t].held \cup {n}
          /\ \A X, S : Keeps(prog, X, S) /\ n \in X \ S => FirstNode(prog, Head(b.stk)) \in X
    BY <1>3 DEF Locks1
  <2>2. /\ thr' = [v \in Threads |-> thr'[v]] /\ thr'[t] = b
        /\ \A v \in Threads \ {t} : thr'[v] = thr[v]
    BY <1>1, <2>1, OneChanged
  <2>3. Moves(t)
    BY <1>1, <2>1, <2>2 DEF Moves
  <2> QED
    BY <2>1, <2>2, <2>3 DEF Changes
<1>4. CASE Unlocks(t)
  <2>1. PICK b, n :
          /\ thr' = [thr EXCEPT ![t] = b] /\ hnd' = hnd
          /\ Goes(thr[t], b, n)
          /\ \A l \in b.held : l \in thr[t].held /\
                               CalleeOfNode(prog, l).h # CalleeOfNode(prog, n).h
    BY <1>4 DEF Unlocks
  <2>2. /\ thr' = [v \in Threads |-> thr'[v]] /\ thr'[t] = b
        /\ \A v \in Threads \ {t} : thr'[v] = thr[v]
    BY <1>1, <2>1, OneChanged
  <2>3. Moves(t)
    BY <1>1, <2>1, <2>2 DEF Moves
  <2> QED
    BY <2>1, <2>2, <2>3 DEF Changes
<1> QED
  BY <1>2, <1>3, <1>4

LEMMA EndChanges ==
  ASSUME NEW t, Active(t), Ends1(t)
  PROVE  Changes /\ hnd' = hnd
<1>1. ExecTyped /\ t \in Threads /\ thr[t].st = "run"
  BY DEF Active, Runs
<1>2. ASSUME NEW v \in Threads, NEW st \in {"off", "done", "stopped"}, thr[v].st # "off" => st # "off",
             thr'[v] = [thr[v] EXCEPT !.st = st]
      PROVE  Halts(v)
  <2>1. thr[v] \in ThreadState
    BY <1>1 DEF ExecTyped
  <2>2. /\ [thr[v] EXCEPT !.st = st] \in ThreadState /\ [thr[v] EXCEPT !.st = st].st = st
        /\ [thr[v] EXCEPT !.st = st].stk = thr[v].stk /\ [thr[v] EXCEPT !.st = st].fork = thr[v].fork
    BY <2>1 DEF ThreadState
  <2> QED
    BY <1>2, <2>2 DEF Halts
<1>3. CASE thr' = [thr EXCEPT ![t] = Ended(t)]
  <2>1. /\ thr' = [v \in Threads |-> thr'[v]] /\ thr'[t] = [thr[t] EXCEPT !.st = "done"]
        /\ \A v \in Threads \ {t} : thr'[v] = thr[v]
    BY <1>1, <1>3, OneChanged DEF Ended
  <2> QED
    BY <1>1, <1>2, <2>1 DEF Changes, Ends1
<1>4. CASE thr' = AllEnded
  <2>1. thr' = [v \in Threads |-> thr'[v]]
    BY <1>4 DEF AllEnded
  <2>2. ASSUME NEW v \in Threads PROVE Halts(v)
    <3>1. thr'[v] = [thr[v] EXCEPT !.st = IF thr[v].st = "run" THEN "stopped" ELSE thr[v].st]
      BY <1>4 DEF AllEnded
    <3>2. thr[v].st \in {"off", "run", "done", "stopped"}
      BY <1>1 DEF ExecTyped, ThreadState
    <3>3. CASE thr[v].st = "run"
      BY <1>2, <3>1, <3>3
    <3>4. CASE thr[v].st # "run"
      BY <1>2, <3>1, <3>2, <3>4
    <3> QED
      BY <3>3, <3>4
  <2> QED
    BY <2>1, <2>2 DEF Changes, Ends1
<1> QED
  BY <1>3, <1>4 DEF Ends1

LEMMA CreateChanges ==
  ASSUME NEW t, Active(t), Creates(t)
  PROVE  /\ Changes
         /\ \E u, n, f, h : /\ hnd' = [hnd EXCEPT ![h] = u]
                            /\ u \in Threads /\ thr[u].st = "off" /\ thr'[u] = NewThread(f, n)
                            /\ n \in Forks /\ f \in CalleeOfNode(prog, n).fns
                            /\ h \in CalleeOfNode(prog, n).h
<1>1. ExecTyped /\ t \in Threads /\ thr[t].st = "run"
  BY DEF Active, Runs
<1>2. PICK b, u, n, f, h :
        /\ u \in Threads /\ thr[u].st = "off" /\ u # t
        /\ thr' = [thr EXCEPT ![t] = b, ![u] = NewThread(f, n)] /\ hnd' = [hnd EXCEPT ![h] = u]
        /\ Goes(thr[t], b, NoNode) /\ b.held = thr[t].held
        /\ n \in Forks /\ f \in CalleeOfNode(prog, n).fns /\ h \in CalleeOfNode(prog, n).h
        /\ f \in BuiltFunctions(prog)
        /\ \A X : Keeps(prog, X, {}) /\ FirstNode(prog, ThreadAt(t)) \in X => n \in X
  BY DEF Creates
<1>3. /\ thr' = [v \in Threads |-> thr'[v]] /\ thr'[t] = b /\ thr'[u] = NewThread(f, n)
      /\ \A v \in Threads \ {t, u} : thr'[v] = thr[v]
  BY <1>1, <1>2 DEF ExecTyped
<1>4. Moves(t)
  BY <1>1, <1>2, <1>3 DEF Moves
<1>5. Starts(u)
  BY <1>1, <1>2, <1>3 DEF Starts, Runs
<1>6. Changes
  BY <1>3, <1>4, <1>5 DEF Changes
<1> QED
  BY <1>2, <1>3, <1>6

Writes(t) ==
  \/ last' = last
  \/ /\ InstrAt(prog, ThreadAt(t)).op = "store"
     /\ \E o \in PointedTo(ThreadAt(t)) : last' = [last EXCEPT ![o] = <<ThreadAt(t), t>>]

LEMMA CallSteps ==
  ASSUME NEW t, Active(t), Call(t)
  PROVE  /\ Plain(t) \/ Ends1(t) \/ Locks1(t) \/ Unlocks(t) \/ Creates(t)
         /\ last' = last
<1>1. IsCallInst(prog, ThreadAt(t))
  BY DEF Call
<1>2. PICK c \in DOMAIN InstrAt(prog, ThreadAt(t)).to :
        \/ CallFunction(t, InstrAt(prog, ThreadAt(t)).to[c])
        \/ Create(t, InstrAt(prog, ThreadAt(t)).to[c], CallNode(prog, ThreadAt(t), c))
        \/ Join(t, InstrAt(prog, ThreadAt(t)).to[c])
        \/ ThreadExit(t, InstrAt(prog, ThreadAt(t)).to[c])
        \/ Lock(t, InstrAt(prog, ThreadAt(t)).to[c], CallNode(prog, ThreadAt(t), c))
        \/ Unlock(t, InstrAt(prog, ThreadAt(t)).to[c])
        \/ OtherCall(t, InstrAt(prog, ThreadAt(t)).to[c])
  BY DEF Call, CallNode, CalleeNumber
<1> DEFINE callee == InstrAt(prog, ThreadAt(t)).to[c]
<1>3. CASE CallFunction(t, callee)
  BY <1>1, <1>3, CallFunctionPlain DEF CallFunction
<1>4. CASE Create(t, callee, CallNode(prog, ThreadAt(t), c))
  BY <1>1, <1>4, CreateSteps DEF Create
<1>5. CASE Join(t, callee)
  BY <1>1, <1>5, OtherPlain DEF Join
<1>6. CASE ThreadExit(t, callee)
  BY <1>6 DEF ThreadExit, Ends1
<1>7. CASE Lock(t, callee, CallNode(prog, ThreadAt(t), c))
  BY <1>1, <1>7, LockSteps DEF Lock
<1>8. CASE Unlock(t, callee)
  BY <1>1, <1>8, UnlockSteps DEF Unlock
<1>9. CASE OtherCall(t, callee)
  BY <1>1, <1>9, OtherPlain DEF OtherCall
<1> QED
  BY <1>2, <1>3, <1>4, <1>5, <1>6, <1>7, <1>8, <1>9

LEMMA ThreadSteps ==
  ASSUME WellFormed(prog), ExecTyped, Step
  PROVE  \E t : /\ Active(t) /\ Writes(t)
                /\ Plain(t) \/ Ends1(t) \/ Locks1(t) \/ Unlocks(t) \/ Creates(t)
<1>1. PICK t \in Threads : Runs(t) /\ (Load(t) \/ Store(t) \/ Branch(t) \/ Return(t) \/ Call(t))
  BY DEF Step
<1>2. Active(t)
  BY <1>1 DEF Active
<1>3. CASE Load(t)
  BY <1>2, <1>3, AccessPlain DEF Load, Writes
<1>4. CASE Store(t)
  BY <1>2, <1>4, AccessPlain DEF Store, Writes
<1>5. CASE Branch(t)
  BY <1>2, <1>5, BranchPlain DEF Branch, Writes
<1>6. CASE Return(t)
  BY <1>2, <1>6, ReturnSteps DEF Return, Writes
<1>7. CASE Call(t)
  BY <1>2, <1>7, CallSteps DEF Writes
<1> QED
  BY <1>1, <1>2, <1>3, <1>4, <1>5, <1>6, <1>7

(* What an execution keeps.  A handle has the thread that was created with *)
(* it last.                                                                *)
HandlesOwned ==
  \A h \in HandleNames : hnd[h] # 0 =>
    /\ thr[hnd[h]].st # "off" /\ thr[hnd[h]].fork \in Forks
    /\ h \in Handles(thr[hnd[h]].fork) /\ CalleeOfNode(prog, thr[hnd[h]].fork).fns # {}

(* A set of nodes around the lock l that only unlocks of its mutex, S,     *)
(* lead out of; a thread that holds l is in every such set.                *)
Confines(X, S, l) ==
  /\ l \in X /\ Keeps(prog, X, S)
  /\ \A n \in S : CalleeOfNode(prog, n).h = CalleeOfNode(prog, l).h

HeldConfined ==
  \A t \in Threads : Runs(t) => \A l \in thr[t].held :
    \A X, S : Confines(X, S, l) => FirstNode(prog, ThreadAt(t)) \in X

ExecIdle ==
  /\ thr = [t \in Threads |->
              IF t = 1 THEN NewThread(Main, NoNode)
              ELSE [NewThread(Main, NoNode) EXCEPT !.st = "off"]]
  /\ last = [o \in Objects |-> <<>>]
  /\ hnd = [h \in HandleNames |-> 0]

(* Threads and the writes they leave are in regions.                       *)
ExecLocated ==
  /\ \A t \in Threads : Runs(t) => FirstNode(prog, ThreadAt(t)) \in DOMAIN tr.examined
  /\ \A o \in Objects : last[o] # <<>> =>
       /\ InstrAt(prog, last[o][1]).op = "store" /\ o \in PointedTo(last[o][1])
       /\ FirstNode(prog, last[o][1]) \in DOMAIN tr.examined

ExecInv ==
  /\ ExecTyped /\ HandlesOwned /\ HeldConfined
  /\ phase # "run" => ExecIdle
  /\ phase = "run" => ExecLocated

LEMMA NewThreadFacts ==
  ASSUME WellFormed(prog), NEW f \in BuiltFunctions(prog), NEW n \in Forks \cup {NoNode}
  PROVE  /\ NewThread(f, n) \in ThreadState /\ NewThread(f, n).stk = <<<<f, 1, 1>>>>
         /\ [NewThread(f, n) EXCEPT !.st = "off"] \in ThreadState
         /\ [NewThread(f, n) EXCEPT !.st = "off"].stk = <<<<f, 1, 1>>>>
         /\ [NewThread(f, n) EXCEPT !.st = "off"].st = "off"
         /\ [NewThread(f, n) EXCEPT !.st = "off"].held = {}
         /\ NewThread(f, n).st = "run" /\ NewThread(f, n).fork = n /\ NewThread(f, n).held = {}
         /\ Fine(<<<<f, 1, 1>>>>) /\ Head(<<<<f, 1, 1>>>>) = <<f, 1, 1>>
<1>1. <<f, 1, 1>> \in Instrs(prog)
  BY EntryBuilt
<1>2. PICK x : x = <<f, 1, 1>>
  OBVIOUS
<1>3. /\ <<x>> \in Seq(Instrs(prog)) /\ <<x>> # <<>> /\ Len(<<x>>) = 1 /\ Head(<<x>>) = x
  BY <1>1, <1>2
<1>4. Fine(<<x>>)
  BY <1>3 DEF Fine
<1>5. NewThread(f, n) = [st |-> "run", stk |-> <<x>>, fork |-> n, held |-> {}]
  BY <1>2 DEF NewThread
<1>6. [NewThread(f, n) EXCEPT !.st = "off"] =
        [st |-> "off", stk |-> <<x>>, fork |-> n, held |-> {}]
  BY <1>5
<1>7. /\ [st |-> "run", stk |-> <<x>>, fork |-> n, held |-> {}] \in ThreadState
      /\ [st |-> "off", stk |-> <<x>>, fork |-> n, held |-> {}] \in ThreadState
  BY <1>3 DEF ThreadState
<1> QED
  BY <1>2, <1>3, <1>4, <1>5, <1>6, <1>7

LEMMA ChangesTyped ==
  ASSUME WellFormed(prog), ExecTyped, Changes
  PROVE  /\ thr' \in [Threads -> ThreadState] /\ \A v \in Threads : Fine(thr'[v].stk)
         /\ \A v \in Threads : thr[v].st # "off" => thr'[v].st # "off" /\ thr'[v].fork = thr[v].fork
<1>1. ASSUME NEW v \in Threads
      PROVE  /\ thr'[v] \in ThreadState /\ Fine(thr'[v].stk)
             /\ thr[v].st # "off" => thr'[v].st # "off" /\ thr'[v].fork = thr[v].fork
  <2>1. thr[v] \in ThreadState /\ Fine(thr[v].stk)
    BY DEF ExecTyped
  <2>2. CASE thr'[v] = thr[v]
    BY <2>1, <2>2
  <2>3. CASE Halts(v)
    BY <2>1, <2>3 DEF Halts
  <2>4. CASE Moves(v)
    BY <2>4 DEF Moves, Goes
  <2>5. CASE Starts(v)
    <3>1. PICK n \in Forks, f \in BuiltFunctions(prog) : thr[v].st = "off" /\ thr'[v] = NewThread(f, n)
      BY <2>5 DEF Starts
    <3>2. n \in Forks \cup {NoNode}
      BY <3>1
    <3>3. /\ NewThread(f, n) \in ThreadState /\ NewThread(f, n).stk = <<<<f, 1, 1>>>>
          /\ Fine(<<<<f, 1, 1>>>>)
      BY <3>2, NewThreadFacts
    <3> QED
      BY <3>1, <3>3
  <2> QED
    BY <2>2, <2>3, <2>4, <2>5 DEF Changes
<1>2. thr' = [v \in Threads |-> thr'[v]]
  BY DEF Changes
<1> QED
  BY <1>1, <1>2

(* Whoever holds a lock stays in the sets that confine it.                 *)
LEMMA ChangesConfined ==
  ASSUME WellFormed(prog), ExecTyped, HeldConfined, Changes, prog' = prog
  PROVE  HeldConfined'
<1>1. SUFFICES ASSUME NEW v \in Threads, thr'[v].st = "run", NEW l \in thr'[v].held,
                      NEW X, NEW S, Confines(X, S, l)
               PROVE  FirstNode(prog, Head(thr'[v].stk)) \in X
  BY DEF HeldConfined, Runs, ThreadAt, Confines
<1>2. CASE thr'[v] = thr[v]
  BY <1>1, <1>2 DEF HeldConfined, Runs, ThreadAt
<1>3. CASE Halts(v)
  BY <1>1, <1>3 DEF Halts
<1>4. CASE Moves(v)
  <2>1. PICK u :
          /\ Goes(thr[v], thr'[v], u) /\ thr[v].st = "run"
          /\ \A k \in thr'[v].held :
               \/ k \in thr[v].held /\ (u = NoNode \/ CalleeOfNode(prog, k).h # CalleeOfNode(prog, u).h)
               \/ \A Y, R : Keeps(prog, Y, R) /\ k \in Y \ R =>
                    FirstNode(prog, Head(thr'[v].stk)) \in Y
    BY <1>4 DEF Moves
  <2>2. \/ l \in thr[v].held /\ (u = NoNode \/ CalleeOfNode(prog, l).h # CalleeOfNode(prog, u).h)
        \/ \A Y, R : Keeps(prog, Y, R) /\ l \in Y \ R =>
             FirstNode(prog, Head(thr'[v].stk)) \in Y
    BY <1>1, <2>1
  <2>3. CASE l \in thr[v].held /\ (u = NoNode \/ CalleeOfNode(prog, l).h # CalleeOfNode(prog, u).h)
    <3>1. FirstNode(prog, Head(thr[v].stk)) \in X
      BY <1>1, <2>1, <2>3 DEF HeldConfined, Runs, ThreadAt
    <3>2. Keeps(prog, X, S)
      BY <1>1 DEF Confines
    <3>3. u \notin S
      <4>1. NodeType(NoNode) = "ENTRY"
        BY DEF NoNode, EntryNode, NodeType
      <4>2. NoNode \notin S
        BY <3>2, <4>1 DEF Keeps
      <4> QED
        BY <1>1, <2>3, <4>2 DEF Confines
    <3> QED
      BY <2>1, <3>1, <3>2, <3>3 DEF Goes
  <2>4. CASE \A Y, R : Keeps(prog, Y, R) /\ l \in Y \ R =>
               FirstNode(prog, Head(thr'[v].stk)) \in Y
    <3>1. Keeps(prog, X, S) /\ l \in X
      BY <1>1 DEF Confines
    <3>2. l \notin S
      <4>1. l \in Locks
        <5>1. thr'[v] \in ThreadState
          BY <2>1 DEF Goes
        <5> QED
          BY <1>1, <5>1 DEF ThreadState
      <4>2. NodeType(l) = "LOCK"
        BY <4>1, CalleeNodeFacts DEF Locks, CalleeType
      <4> QED
        BY <3>1, <4>2 DEF Keeps
    <3> QED
      BY <2>4, <3>1, <3>2
  <2> QED
    BY <2>2, <2>3, <2>4
<1>5. CASE Starts(v)
  <2>1. thr'[v].held = {}
    <3>1. PICK n \in Forks, f \in BuiltFunctions(prog) : thr'[v] = NewThread(f, n)
      BY <1>5 DEF Starts
    <3>2. n \in Forks \cup {NoNode}
      BY <3>1
    <3>3. NewThread(f, n).held = {}
      BY <3>2, NewThreadFacts
    <3> QED
      BY <3>1, <3>3
  <2> QED
    BY <1>1, <2>1
<1> QED
  BY <1>2, <1>3, <1>4, <1>5 DEF Changes

(* The nodes that have a region are not left, by new threads neither.      *)
LEMMA ChangesLocated ==
  ASSUME BuildInv, phase # "pta", RegionsBusy, tr.stack = NoFrames, ExecTyped, ExecLocated, Changes
  PROVE  \A v \in Threads : thr'[v].st = "run" =>
           FirstNode(prog, Head(thr'[v].stk)) \in DOMAIN tr.examined
<1> DEFINE X == DOMAIN tr.examined
<1>0. WellFormed(prog)
  BY ProgramsAssumption DEF BuildInv
<1>1. X \subseteq cfg.nodes /\ \A n \in X : AllSuccessors(n) \subseteq X
  BY RegionsDone
<1>2. Keeps(prog, X, {})
  <2>1. ASSUME NEW e \in Edges(prog), e[1] \in X PROVE e[2] \in X
    <3>1. e[2] \in AllSuccessors(e[1])
      BY <1>1, <2>1, GraphFacts DEF AllSuccessors, Outgoing
    <3> QED
      BY <1>1, <2>1, <3>1
  <2> QED
    BY <2>1 DEF Keeps
<1>3. ASSUME NEW n \in X \cap Forks, NEW f \in CalleeOfNode(prog, n).fns,
             f \in BuiltFunctions(prog)
      PROVE  FirstNode(prog, <<f, 1, 1>>) \in X
  <2>1. <<n, EntryNode(f)>> \in ThreadEdges
    BY <1>3 DEF ThreadEdges, ForkEdges, Forks
  <2>2. EntryNode(f) \in AllSuccessors(n)
    BY <1>1, <1>3, <2>1, GraphFacts DEF AllSuccessors, Outgoing
  <2>3. EntryNode(f) \in X
    BY <1>1, <1>3, <2>2
  <2>4. NodeType(EntryNode(f)) = "ENTRY"
    BY DEF EntryNode, NodeType
  <2> QED
    BY <1>0, <1>2, <1>3, <2>3, <2>4, EntryBuilt, EdgeStays
<1> HIDE DEF X
<1>4. SUFFICES ASSUME NEW v \in Threads, thr'[v].st = "run"
               PROVE  FirstNode(prog, Head(thr'[v].stk)) \in X
  BY DEF X
<1>5. \A w \in Threads : Runs(w) => FirstNode(prog, Head(thr[w].stk)) \in X
  BY DEF ExecLocated, ThreadAt, X
<1>6. CASE thr'[v] = thr[v]
  BY <1>4, <1>5, <1>6 DEF Runs
<1>7. CASE Halts(v)
  BY <1>4, <1>7 DEF Halts
<1>8. CASE Moves(v)
  BY <1>2, <1>5, <1>8 DEF Moves, Goes, Runs
<1>9. CASE Starts(v)
  <2>1. PICK t, n, f :
          /\ thr'[v] = NewThread(f, n)
          /\ n \in Forks /\ f \in CalleeOfNode(prog, n).fns /\ f \in BuiltFunctions(prog)
          /\ t \in Threads /\ Runs(t)
          /\ \A Y : Keeps(prog, Y, {}) /\ FirstNode(prog, ThreadAt(t)) \in Y => n \in Y
    BY <1>9 DEF Starts
  <2>2. n \in X
    BY <1>2, <1>5, <2>1 DEF ThreadAt
  <2>3. FirstNode(prog, <<f, 1, 1>>) \in X
    BY <1>3, <2>1, <2>2
  <2>4. NewThread(f, n).stk = <<<<f, 1, 1>>>> /\ Head(<<<<f, 1, 1>>>>) = <<f, 1, 1>>
    BY <1>0, <2>1, NewThreadFacts
  <2> QED
    BY <2>1, <2>3, <2>4
<1> QED
  BY <1>6, <1>7, <1>8, <1>9 DEF Changes

LEMMA IdleFacts ==
  ASSUME WellFormed(prog), ExecIdle
  PROVE  /\ ExecTyped /\ HandlesOwned /\ HeldConfined
         /\ \A t \in Threads : Runs(t) => ThreadAt(t) = <<Main, 1, 1>>
         /\ \A o \in Objects : last[o] = <<>>
<1> DEFINE on == NewThread(Main, NoNode)
           off == [NewThread(Main, NoNode) EXCEPT !.st = "off"]
<1>1. /\ on \in ThreadState /\ on.stk = <<<<Main, 1, 1>>>> /\ off \in ThreadState
      /\ off.stk = <<<<Main, 1, 1>>>> /\ on.held = {} /\ off.held = {}
      /\ Fine(<<<<Main, 1, 1>>>>) /\ Head(<<<<Main, 1, 1>>>>) = <<Main, 1, 1>>
  <2>1. Main \in BuiltFunctions(prog) /\ NoNode \in Forks \cup {NoNode}
    BY FunctionsClosed
  <2> QED
    BY <2>1, NewThreadFacts
<1> HIDE DEF on, off
<1>2. /\ thr = [t \in Threads |-> IF t = 1 THEN on ELSE off]
      /\ last = [o \in Objects |-> <<>>] /\ hnd = [h \in HandleNames |-> 0]
  BY DEF ExecIdle, on, off
<1>3. \A t \in Threads : thr[t] = on \/ thr[t] = off
  BY <1>2
<1>4. thr \in [Threads -> ThreadState] /\ \A t \in Threads : Fine(thr[t].stk)
  BY <1>1, <1>2
<1>5. ExecTyped
  BY <1>2, <1>4 DEF ExecTyped
<1>6. HandlesOwned
  BY <1>2 DEF HandlesOwned
<1>7. HeldConfined
  BY <1>1, <1>3 DEF HeldConfined
<1>8. \A t \in Threads : ThreadAt(t) = <<Main, 1, 1>>
  BY <1>1, <1>3 DEF ThreadAt
<1> QED
  BY <1>2, <1>5, <1>6, <1>7, <1>8

LEMMA InitExecInv == Init => ExecInv
<1> SUFFICES ASSUME Init PROVE ExecInv
  OBVIOUS
<1>1. prog \in Programs /\ phase = "pta"
  BY DEF Init, BuilderInit
<1>2. ExecIdle
  BY DEF Init, ExecIdle, HandleNames
<1> QED
  BY <1>1, <1>2, IdleFacts, ProgramsAssumption DEF ExecInv

(* While the program is analysed no thread takes a step, and the first one *)
(* starts in the first region.                                             *)
LEMMA IdleExecInv ==
  ASSUME BuildInv, RegionsInv, ExecInv, phase # "run", [Next]_<<vars, execVars>>
  PROVE  ExecInv'
<1>1. WellFormed(prog) /\ ExecIdle /\ prog' = prog
  BY ProgramsAssumption, NextBuildInv DEF BuildInv, ExecInv
<1>2. UNCHANGED execVars
  BY DEF Next, Step
<1>3. thr' = thr /\ last' = last /\ hnd' = hnd
  BY <1>2 DEF execVars
<1>4. Forks' = Forks /\ Joins' = Joins /\ Locks' = Locks /\ HandleNames' = HandleNames
      /\ ThreadState' = ThreadState
  BY <1>1 DEF Forks, Joins, Locks, HandleNames, ThreadState
<1>5. ExecIdle'
  BY <1>1, <1>3, <1>4 DEF ExecIdle
<1>6. /\ ExecTyped /\ HandlesOwned /\ HeldConfined
      /\ \A t \in Threads : Runs(t) => ThreadAt(t) = <<Main, 1, 1>>
      /\ \A o \in Objects : last[o] = <<>>
  BY <1>1, IdleFacts
<1>7. ExecTyped'
  BY <1>1, <1>3, <1>4, <1>6 DEF ExecTyped, Fine
<1>8. HandlesOwned'
  BY <1>1, <1>3, <1>4, <1>6 DEF HandlesOwned, Handles
<1>9. HeldConfined'
  BY <1>1, <1>3, <1>6 DEF HeldConfined, Runs, ThreadAt, Confines
<1>10. ASSUME phase' = "run" PROVE ExecLocated'
  <2>1. tr' = tr /\ cfg' = cfg /\ phase = "regions" /\ tr.stack = NoFrames
    <3>1. ~build /\ ~Examine /\ ~(\E s \in cfg.nodes : Visit(s))
      BY <1>10 DEF build, Examine, Visit
    <3> QED
      BY <1>10, <3>1, RegionSteps
  <2>2. EntryNode(Main) \in DOMAIN tr.examined /\ DOMAIN tr.examined \subseteq cfg.nodes
        /\ \A n \in DOMAIN tr.examined : AllSuccessors(n) \subseteq DOMAIN tr.examined
    BY <2>1, RegionsDone DEF RegionsInv
  <2>3. FirstNode(prog, <<Main, 1, 1>>) \in DOMAIN tr.examined
    <3>1. <<EntryNode(Main), FirstNode(prog, <<Main, 1, 1>>)>> \in Edges(prog)
      BY <1>1, FunctionsClosed, EntryBuilt
    <3>2. FirstNode(prog, <<Main, 1, 1>>) \in AllSuccessors(EntryNode(Main))
      BY <2>1, <2>2, <3>1, GraphFacts DEF AllSuccessors, Outgoing
    <3> QED
      BY <2>2, <3>2
  <2> QED
    BY <1>1, <1>3, <1>6, <2>1, <2>3 DEF ExecLocated, Runs, ThreadAt
<1> QED
  BY <1>5, <1>7, <1>8, <1>9, <1>10 DEF ExecInv

LEMMA PointedToFacts ==
  ASSUME prog \in Programs, NEW x \in Instrs(prog)
  PROVE  PointedTo(x) \subseteq Objects
<1>1. WellFormed(prog)
  BY ProgramsAssumption
<1>2. x[1] \in DOMAIN prog /\ x[2] \in DOMAIN prog[x[1]]
      /\ x[3] \in DOMAIN prog[x[1]][x[2]].ins
  BY <1>1, InstrsFacts, BuiltLengthFacts
<1>3. InstrAt(prog, x).v \subseteq Objects \cup {0}
  BY <1>2, ObjectsAssumption DEF InstrAt
<1> QED
  BY <1>3 DEF PointedTo

LEMMA WritesFacts ==
  ASSUME prog \in Programs, WellFormed(prog), NEW t, Active(t), Writes(t)
  PROVE  /\ last' \in [Objects -> {<<>>} \cup (Instrs(prog) \X Threads)]
         /\ \A o \in Objects :
              \/ last'[o] = last[o]
              \/ /\ last'[o] = <<ThreadAt(t), t>>
                 /\ InstrAt(prog, ThreadAt(t)).op = "store" /\ o \in PointedTo(ThreadAt(t))
<1>1. /\ ThreadAt(t) \in Instrs(prog) /\ t \in Threads
      /\ last \in [Objects -> {<<>>} \cup (Instrs(prog) \X Threads)]
  BY ActiveFacts DEF Active, ExecTyped
<1>2. CASE last' = last
  BY <1>1, <1>2
<1>3. CASE \E o \in PointedTo(ThreadAt(t)) : last' = [last EXCEPT ![o] = <<ThreadAt(t), t>>]
  <2>1. PICK o \in PointedTo(ThreadAt(t)) : last' = [last EXCEPT ![o] = <<ThreadAt(t), t>>]
    BY <1>3
  <2>2. <<ThreadAt(t), t>> \in Instrs(prog) \X Threads
    BY <1>1
  <2>3. o \in Objects
    BY <1>1, <2>1, PointedToFacts
  <2>4. last' \in [Objects -> {<<>>} \cup (Instrs(prog) \X Threads)]
    BY <1>1, <2>1, <2>2
  <2>5. \A p \in Objects : last'[p] = IF p = o THEN <<ThreadAt(t), t>> ELSE last[p]
    BY <1>1, <2>1, <2>3
  <2>6. last' = last \/ InstrAt(prog, ThreadAt(t)).op = "store"
    BY DEF Writes
  <2> QED
    BY <2>1, <2>4, <2>5, <2>6
<1> QED
  BY <1>2, <1>3 DEF Writes

(* The thread of a handle was created by a call with this handle.          *)
LEMMA HandlesStay ==
  ASSUME ExecTyped, WellFormed(prog), HandlesOwned, Changes, prog' = prog,
         \/ hnd' = hnd
         \/ \E u, n, f, h : /\ hnd' = [hnd EXCEPT ![h] = u]
                            /\ u \in Threads /\ thr[u].st = "off" /\ thr'[u] = NewThread(f, n)
                            /\ n \in Forks /\ f \in CalleeOfNode(prog, n).fns
                            /\ h \in CalleeOfNode(prog, n).h
  PROVE  HandlesOwned' /\ hnd' \in [HandleNames -> Threads \cup {0}]
<1>1. Forks' = Forks /\ HandleNames' = HandleNames /\ \A n : Handles(n)' = Handles(n)
  BY DEF Forks, HandleNames, Joins, Handles
<1>2. hnd \in [HandleNames -> Threads \cup {0}]
  BY DEF ExecTyped
<1>3. ASSUME NEW h \in HandleNames, hnd[h] # 0
      PROVE  /\ thr'[hnd[h]].st # "off" /\ thr'[hnd[h]].fork \in Forks
             /\ h \in Handles(thr'[hnd[h]].fork)
             /\ CalleeOfNode(prog, thr'[hnd[h]].fork).fns # {}
  <2>1. /\ thr[hnd[h]].st # "off" /\ thr[hnd[h]].fork \in Forks
        /\ h \in Handles(thr[hnd[h]].fork) /\ CalleeOfNode(prog, thr[hnd[h]].fork).fns # {}
    BY <1>3 DEF HandlesOwned
  <2>2. hnd[h] \in Threads
    BY <1>2, <1>3
  <2>3. thr'[hnd[h]].st # "off" /\ thr'[hnd[h]].fork = thr[hnd[h]].fork
    BY <2>1, <2>2, ChangesTyped
  <2> QED
    BY <2>1, <2>3
<1>4. CASE hnd' = hnd
  BY <1>1, <1>2, <1>3, <1>4 DEF HandlesOwned
<1>5. ASSUME NEW u, NEW n, NEW f, NEW h, hnd' = [hnd EXCEPT ![h] = u],
             u \in Threads, thr[u].st = "off", thr'[u] = NewThread(f, n),
             n \in Forks, f \in CalleeOfNode(prog, n).fns, h \in CalleeOfNode(prog, n).h
      PROVE  HandlesOwned' /\ hnd' \in [HandleNames -> Threads \cup {0}]
  <2>1. h \in HandleNames
    BY <1>5 DEF HandleNames
  <2>2. hnd' \in [HandleNames -> Threads \cup {0}]
    BY <1>2, <1>5
  <2>3. hnd'[h] = u /\ \A k \in HandleNames \ {h} : hnd'[k] = hnd[k]
    BY <1>2, <1>5, <2>1
  <2>4. thr'[u].st = "run" /\ thr'[u].fork = n
    BY <1>5 DEF NewThread
  <2>5. ASSUME NEW k \in HandleNames, hnd'[k] # 0
        PROVE  /\ thr'[hnd'[k]].st # "off" /\ thr'[hnd'[k]].fork \in Forks
               /\ k \in Handles(thr'[hnd'[k]].fork)
               /\ CalleeOfNode(prog, thr'[hnd'[k]].fork).fns # {}
    <3>1. CASE k = h
      BY <1>5, <2>3, <2>4, <3>1 DEF Handles
    <3>2. CASE k # h
      BY <1>3, <2>3, <2>5, <3>2
    <3> QED
      BY <3>1, <3>2
  <2> QED
    BY <1>1, <2>2, <2>5 DEF HandlesOwned
<1> QED
  BY <1>4, <1>5

LEMMA RunExecInv ==
  ASSUME BuildInv, RegionsInv, ExecInv, phase = "run", [Next]_<<vars, execVars>>
  PROVE  ExecInv' /\ UNCHANGED vars
<1>1. UNCHANGED vars /\ (Step \/ UNCHANGED execVars)
  <2>1. ~BuilderNext
    BY DEF BuilderNext, Learn, matchJoinToRightCreate, BuildGraph, buildCriticalSection,
           VisitSuccessor, PostVisit, build, Visit, Examine, ComputeDependencies
  <2> QED
    BY <2>1 DEF Next, Step
<1>2. /\ prog' = prog /\ phase' = phase /\ tr' = tr /\ cfg' = cfg
  BY <1>1 DEF vars
<1>3. WellFormed(prog) /\ prog \in Programs
  BY ProgramsAssumption DEF BuildInv
<1>4. ExecTyped /\ HandlesOwned /\ HeldConfined /\ ExecLocated
  BY DEF ExecInv
<1>5. Forks' = Forks /\ Joins' = Joins /\ Locks' = Locks /\ HandleNames' = HandleNames
      /\ ThreadState' = ThreadState /\ (\A s : Fine(s)' = Fine(s))
  BY <1>2 DEF Forks, Joins, Locks, HandleNames, ThreadState, Fine
<1>6. CASE UNCHANGED execVars
  <2>1. thr' = thr /\ last' = last /\ hnd' = hnd
    BY <1>6 DEF execVars
  <2>2. ExecTyped'
    BY <1>2, <1>4, <1>5, <2>1 DEF ExecTyped
  <2>3. HandlesOwned'
    BY <1>2, <1>4, <1>5, <2>1 DEF HandlesOwned, Handles
  <2>4. HeldConfined'
    BY <1>2, <1>4, <2>1 DEF HeldConfined, Runs, ThreadAt, Confines
  <2>5. ExecLocated'
    BY <1>2, <1>4, <2>1 DEF ExecLocated, Runs, ThreadAt, PointedTo
  <2> QED
    BY <1>1, <1>2, <2>2, <2>3, <2>4, <2>5 DEF ExecInv
<1>7. CASE Step
  <2>1. PICK t : /\ Active(t) /\ Writes(t)
                 /\ Plain(t) \/ Ends1(t) \/ Locks1(t) \/ Unlocks(t) \/ Creates(t)
    BY <1>3, <1>4, <1>7, ThreadSteps
  <2>2. /\ Changes
        /\ \/ hnd' = hnd
           \/ \E u, n, f, h : /\ hnd' = [hnd EXCEPT ![h] = u]
                              /\ u \in Threads /\ thr[u].st = "off" /\ thr'[u] = NewThread(f, n)
                              /\ n \in Forks /\ f \in CalleeOfNode(prog, n).fns
                              /\ h \in CalleeOfNode(prog, n).h
    <3>1. CASE Plain(t) \/ Locks1(t) \/ Unlocks(t)
      BY <2>1, <3>1, MoveChanges
    <3>2. CASE Ends1(t)
      BY <2>1, <3>2, EndChanges
    <3>3. CASE Creates(t)
      BY <2>1, <3>3, CreateChanges
    <3> QED
      BY <2>1, <3>1, <3>2, <3>3
  <2>3. /\ last' \in [Objects -> {<<>>} \cup (Instrs(prog) \X Threads)]
        /\ \A o \in Objects :
             \/ last'[o] = last[o]
             \/ /\ last'[o] = <<ThreadAt(t), t>>
                /\ InstrAt(prog, ThreadAt(t)).op = "store" /\ o \in PointedTo(ThreadAt(t))
    BY <1>3, <2>1, WritesFacts
  <2>4. HandlesOwned' /\ hnd' \in [HandleNames -> Threads \cup {0}]
    BY <1>2, <1>3, <1>4, <2>2, HandlesStay
  <2>5. ExecTyped'
    BY <1>2, <1>3, <1>4, <1>5, <2>2, <2>3, <2>4, ChangesTyped DEF ExecTyped
  <2>6. HeldConfined'
    BY <1>2, <1>3, <1>4, <2>2, ChangesConfined
  <2>7. ExecLocated'
    <3>1. \A v \in Threads : thr'[v].st = "run" =>
            FirstNode(prog, Head(thr'[v].stk)) \in DOMAIN tr.examined
      BY <1>4, <2>2, ChangesLocated DEF RegionsInv
    <3>2. FirstNode(prog, ThreadAt(t)) \in DOMAIN tr.examined
      BY <1>4, <2>1 DEF Active, ExecLocated
    <3>3. ASSUME NEW o \in Objects, last'[o] # <<>>
          PROVE  /\ InstrAt(prog, last'[o][1]).op = "store" /\ o \in PointedTo(last'[o][1])
                 /\ FirstNode(prog, last'[o][1]) \in DOMAIN tr.examined
      <4>1. CASE last'[o] = last[o]
        BY <1>4, <3>3, <4>1 DEF ExecLocated
      <4>2. CASE /\ last'[o] = <<ThreadAt(t), t>>
                 /\ InstrAt(prog, ThreadAt(t)).op = "store" /\ o \in PointedTo(ThreadAt(t))
        <5>1. last'[o][1] = ThreadAt(t)
          BY <4>2
        <5> QED
          BY <3>2, <4>2, <5>1
      <4> QED
        BY <2>3, <4>1, <4>2
    <3>4. \A x : PointedTo(x)' = PointedTo(x)
      BY <1>2 DEF PointedTo
    <3> QED
      BY <1>2, <3>1, <3>3, <3>4 DEF ExecLocated, Runs, ThreadAt
  <2> QED
    BY <1>1, <1>2, <2>4, <2>5, <2>6, <2>7 DEF ExecInv
<1> QED
  BY <1>1, <1>6, <1>7

LEMMA NextExecInv ==
  ASSUME BuildInv, RegionsInv, ExecInv, [Next]_<<vars, execVars>>
  PROVE  ExecInv'
  BY IdleExecInv, RunExecInv

-----------------------------------------------------------------------------
(* The dependencies are the ones computed at the end.                      *)
DepsInv ==
  phase = "run" =>
    deps = [interference |-> computeInterferenceDependentEdges,
            forkjoin |-> computeForkJoinDependencies,
            sections |-> computeCriticalSections]

LEMMA SameDependencies ==
  ASSUME UNCHANGED <<prog, pta, cs, tr>>
  PROVE  /\ computeInterferenceDependentEdges' = computeInterferenceDependentEdges
         /\ computeForkJoinDependencies' = computeForkJoinDependencies
         /\ computeCriticalSections' = computeCriticalSections
<1>1. prog' = prog /\ pta' = pta /\ cs' = cs /\ tr' = tr
  OBVIOUS
<1>2. computeInterferenceDependentEdges' = computeInterferenceDependentEdges
  BY <1>1 DEF computeInterferenceDependentEdges, OfType, llvmInstructions, RegionNodes,
              MayAlias, parallelRegions
<1>3. computeForkJoinDependencies' = computeForkJoinDependencies
  BY <1>1 DEF computeForkJoinDependencies, correspondingForks, Joins
<1>4. computeCriticalSections' = computeCriticalSections
  BY <1>1 DEF computeCriticalSections, llvmInstructions, Locks
<1> QED
  BY <1>2, <1>3, <1>4

LEMMA NextDepsInv ==
  ASSUME DepsInv, [Next]_<<vars, execVars>>
  PROVE  DepsInv'
<1>1. SUFFICES ASSUME phase' = "run" PROVE DepsInv'
  BY DEF DepsInv
<1>2. ComputeDependencies \/ (phase = "run" /\ UNCHANGED vars)
  BY <1>1 DEF Next, BuilderNext, Learn, matchJoinToRightCreate, BuildGraph,
     buildCriticalSection, VisitSuccessor, PostVisit, build, Visit, Examine, Step, vars
<1>3. CASE ComputeDependencies
  BY <1>3, SameDependencies DEF ComputeDependencies, DepsInv
<1>4. CASE phase = "run" /\ UNCHANGED vars
  BY <1>4, SameDependencies DEF vars, DepsInv
<1> QED
  BY <1>2, <1>3, <1>4

-----------------------------------------------------------------------------
(* Nodes that stand for an instruction.                                    *)
LEMMA FirstNodeFacts ==
  ASSUME NEW P, WellFormed(P), NEW x \in Instrs(P)
  PROVE  NodeInstr(FirstNode(P, x)) = x /\ ~isArtificial(P, FirstNode(P, x))
<1>1. PICK type : /\ FirstNode(P, x) = <<x[1], x[2], x[3], 0, type>>
                  /\ type \in {"RETURN", "GENERAL", "CALL_FUNCPTR", "FORK", "JOIN", "LOCK",
                               "UNLOCK", "CALL"}
                  /\ type = "RETURN" => ~IsCallInst(P, x)
  BY DEF FirstNode, CalleeFirst, CalleeType, Node, IsCallInst
<1>2. x = <<x[1], x[2], x[3]>>
  BY InstrsFacts
<1>3. NodeInstr(FirstNode(P, x)) = x /\ NodeType(FirstNode(P, x)) = type
      /\ FirstNode(P, x)[4] = 0
  BY <1>1, <1>2 DEF NodeInstr, NodeType
<1> QED
  BY <1>1, <1>3 DEF isArtificial

LEMMA InvInterferenceFound ==
  ASSUME BuildInv, RegionsInv, ExecInv, DepsInv
  PROVE  InterferenceFound
<1> SUFFICES ASSUME phase = "run", NEW t \in Threads, Runs(t),
                    InstrAt(prog, ThreadAt(t)).op = "load",
                    NEW o \in PointedTo(ThreadAt(t)), last[o] # <<>>
             PROVE  <<last[o][1], ThreadAt(t)>> \in deps.interference
  BY DEF InterferenceFound
<1>n. PICK x, y, m, n : /\ x = last[o][1] /\ y = ThreadAt(t)
                        /\ m = FirstNode(prog, x) /\ n = FirstNode(prog, y)
  OBVIOUS
<1>1. WellFormed(prog) /\ prog \in Programs
  BY ProgramsAssumption DEF BuildInv
<1>2. y \in Instrs(prog) /\ o \in Objects /\ n \in DOMAIN tr.examined
  <2>1. Active(t)
    BY <1>1 DEF Active, ExecInv
  <2> QED
    BY <1>n, <1>1, <2>1, ActiveFacts, PointedToFacts DEF ExecInv, ExecLocated
<1>3. /\ x \in Instrs(prog) /\ InstrAt(prog, x).op = "store" /\ o \in PointedTo(x)
      /\ m \in DOMAIN tr.examined
  <2>1. last[o] \in Instrs(prog) \X Threads
    BY <1>2 DEF ExecInv, ExecTyped
  <2> QED
    BY <1>n, <1>2, <2>1 DEF ExecInv, ExecLocated
<1>4. /\ NodeInstr(m) = x /\ ~isArtificial(prog, m)
      /\ NodeInstr(n) = y /\ ~isArtificial(prog, n)
  BY <1>n, <1>1, <1>2, <1>3, FirstNodeFacts
<1>5. PICK r, p : r = tr.examined[m] /\ p = tr.examined[n]
  OBVIOUS
<1>6. r \in DOMAIN tr.founding /\ p \in DOMAIN tr.founding
  <2>1. \A k \in DOMAIN tr.examined : k \in cfg.nodes /\ HasRegion(k) /\ RegionOf(k) = tr.examined[k]
    BY DEF RegionsInv, RegionsBusy, RegionsTyped, HasRegion, RegionOf
  <2> QED
    BY <1>2, <1>3, <1>5, <2>1 DEF RegionsInv, RegionsBusy, RegionsFounded
<1>7. x \in OfType(llvmInstructions(RegionNodes(r)), "store")
  BY <1>3, <1>4, <1>5 DEF OfType, llvmInstructions, RegionNodes
<1>8. y \in OfType(llvmInstructions(RegionNodes(p)), "load")
  BY <1>n, <1>2, <1>4, <1>5 DEF OfType, llvmInstructions, RegionNodes
<1>9. MayAlias(y, x)
  BY <1>n, <1>3 DEF MayAlias, PointedTo
<1>10. <<x, y>> \in computeInterferenceDependentEdges
  <2>1. PICK a : a = <<r, p>>
    OBVIOUS
  <2>2. a \in UNION {{<<r, q>>, <<q, r>>} : q \in parallelRegions(r)}
    BY <1>6, <2>1 DEF parallelRegions
  <2>3. <<x, y>> \in {e \in OfType(llvmInstructions(RegionNodes(a[1])), "store") \X
                            OfType(llvmInstructions(RegionNodes(a[2])), "load") :
                        MayAlias(e[2], e[1])}
    <3>1. a[1] = r /\ a[2] = p
      BY <2>1
    <3>2. <<x, y>>[1] = x /\ <<x, y>>[2] = y
      OBVIOUS
    <3> QED
      BY <1>7, <1>8, <1>9, <3>1, <3>2
  <2> QED
    BY <1>6, <2>2, <2>3 DEF computeInterferenceDependentEdges
<1>11. deps.interference = computeInterferenceDependentEdges
  BY DEF DepsInv
<1> QED
  BY <1>n, <1>10, <1>11

LEMMA InvForksMatched ==
  ASSUME BuildInv, ExecInv, DepsInv
  PROVE  ForksMatchedWhereDistinct
<1> SUFFICES ASSUME phase = "run", NEW t \in Threads, Runs(t), NEW u \in Joined(t),
                    thr[u].fork[4] = 0,
                    \A f \in Forks \ {thr[u].fork} :
                      CalleeOfNode(prog, f).fns \cap CalleeOfNode(prog, thr[u].fork).fns = {}
             PROVE  ForkOfFound(t, u)
  BY DEF ForksMatchedWhereDistinct
<1>1. WellFormed(prog)
  BY ProgramsAssumption DEF BuildInv
<1>2. ThreadAt(t) \in Instrs(prog)
  BY <1>1, ActiveFacts DEF Active, ExecInv
<1>3. PICK c \in DOMAIN InstrAt(prog, ThreadAt(t)).to :
        /\ u \in Threads /\ InstrAt(prog, ThreadAt(t)).to[c].k = "join"
        /\ \E h \in InstrAt(prog, ThreadAt(t)).to[c].h : hnd[h] = u
  BY DEF Joined
<1>4. PICK h \in InstrAt(prog, ThreadAt(t)).to[c].h : hnd[h] = u
  BY <1>3
<1>5. IsCallInst(prog, ThreadAt(t))
  <2>1. LegalInstr(prog, InstrAt(prog, ThreadAt(t)))
    BY <1>1, <1>2, InstrsFacts
  <2>2. InstrAt(prog, ThreadAt(t)).to # <<>>
    BY <1>3
  <2> QED
    BY <2>1, <2>2 DEF LegalInstr, IsCallInst
<1>6. PICK j : j = CallNode(prog, ThreadAt(t), c)
  OBVIOUS
<1>7. /\ j \in Joins /\ CalleeOfNode(prog, j) = InstrAt(prog, ThreadAt(t)).to[c]
      /\ NodeInstr(j) = ThreadAt(t)
  <2>1. /\ CalleeOfNode(prog, j) = InstrAt(prog, ThreadAt(t)).to[c]
        /\ j \in CalleeNodes(prog, InstrAt(prog, ThreadAt(t)).to[c].k)
        /\ NodeInstr(j) = ThreadAt(t)
    BY <1>1, <1>2, <1>5, <1>6, NodeOfCall
  <2> QED
    BY <1>3, <2>1 DEF Joins
<1>8. PICK f : f = thr[u].fork
  OBVIOUS
<1>9. f \in Forks /\ h \in Handles(f) /\ CalleeOfNode(prog, f).fns # {}
  <2>1. h \in HandleNames
    BY <1>4, <1>7 DEF HandleNames
  <2>2. u # 0
    BY <1>3, ThreadsAssumption DEF Threads
  <2> QED
    BY <1>4, <1>8, <2>1, <2>2 DEF ExecInv, HandlesOwned
<1>10. f \in MatchedForks(j)
  BY <1>4, <1>7, <1>9 DEF BuildInv, Built, MatchedForks, Handles
<1>11. PICK g \in CalleeOfNode(prog, f).fns : g \in pta.functions[j]
  BY <1>7, <1>9, <1>10 DEF BuildInv, Built, JoinsMatched
<1>12. PICK e \in pta.forks[j] : g \in CalleeOfNode(prog, e).fns
  BY <1>7, <1>11 DEF BuildInv, JoinsMatched
<1>13. e \in Forks
  BY <1>7, <1>12 DEF BuildInv, PtaTyped
<1>14. e = f
  BY <1>8, <1>11, <1>12, <1>13
<1>15. <<NodeInstr(j), NodeInstr(f)>> \in computeForkJoinDependencies
  <2>1. f \in correspondingForks(j)
    BY <1>8, <1>12, <1>14 DEF correspondingForks
  <2> QED
    BY <1>7, <2>1 DEF computeForkJoinDependencies
<1>16. deps.forkjoin = computeForkJoinDependencies
  BY DEF DepsInv
<1> QED
  BY <1>7, <1>8, <1>15, <1>16 DEF ForkOfFound

(* computeInterferenceDependentEdges: when a thread reads a variable that  *)
(* another thread wrote last, the read depends on the write.               *)
THEOREM InterferenceFoundHolds == Spec => []InterferenceFound
<1>1. Init => BuildInv /\ RegionsInv /\ ExecInv /\ DepsInv
  <2>1. Init => DepsInv
    BY DEF Init, BuilderInit, DepsInv
  <2> QED
    BY <2>1, InitBuildInv, InitRegionsInv, InitExecInv
<1>2. BuildInv /\ RegionsInv /\ ExecInv /\ DepsInv /\ [Next]_<<vars, execVars>>
        => (BuildInv /\ RegionsInv /\ ExecInv /\ DepsInv)'
  BY NextBuildInv, NextRegionsInv, NextExecInv, NextDepsInv
<1>3. BuildInv /\ RegionsInv /\ ExecInv /\ DepsInv => InterferenceFound
  BY InvInterferenceFound
<1> QED
  BY <1>1, <1>2, <1>3, PTL DEF Spec

(* ForkJoinAnalysis::matchJoin finds the call that created the thread a    *)
(* join waits for, where that call names pthread_create and no other call  *)
(* may spawn the same function.                                            *)
THEOREM ForksMatchedWhereDistinctHolds == Spec => []ForksMatchedWhereDistinct
<1>1. Init => BuildInv /\ RegionsInv /\ ExecInv /\ DepsInv
  <2>1. Init => DepsInv
    BY DEF Init, BuilderInit, DepsInv
  <2> QED
    BY <2>1, InitBuildInv, InitRegionsInv, InitExecInv
<1>2. BuildInv /\ RegionsInv /\ ExecInv /\ DepsInv /\ [Next]_<<vars, execVars>>
        => (BuildInv /\ RegionsInv /\ ExecInv /\ DepsInv)'
  BY NextBuildInv, NextRegionsInv, NextExecInv, NextDepsInv
<1>3. BuildInv /\ RegionsInv /\ ExecInv /\ DepsInv => ForksMatchedWhereDistinct
  BY InvForksMatched
<1> QED
  BY <1>1, <1>2, <1>3, PTL DEF Spec

-----------------------------------------------------------------------------
(* Critical sections.                                                      *)
Seen == cs.visited \cup cs.examined

(* Nothing branches between nodes of V.                                    *)
Single(V) == \A n \in V : \A a, b \in AllSuccessors(n) : a = b

(* A set around l that only u leads out of.                                *)
ConfinesUpTo(X, l, u) == l \in X /\ \A n \in X : n = u \/ AllSuccessors(n) \subseteq X

SearchStack ==
  /\ cs.stack \in Seq(Frames) /\ cs.currentLock \in Locks \ DOMAIN cs.sections
  /\ cs.stack[Len(cs.stack)].node = cs.currentLock
  /\ \A i \in 1 .. Len(cs.stack) : cs.stack[i].node \in Seen /\ Fits(cs.stack[i])
  /\ \A n \in cs.visited : \E i \in 1 .. Len(cs.stack) : cs.stack[i].node = n

(* As long as there are unlocks to be seen nothing is left out.            *)
SearchClosed ==
  cs.currentUnlocks # {} =>
    /\ \A n \in cs.examined : AllSuccessors(n) \subseteq Seen
    /\ \A i \in 1 .. Len(cs.stack) :
         AllSuccessors(cs.stack[i].node) \subseteq Seen \cup Remaining(cs.stack[i])

(* Without branches the stack is a path, and the search ends once it turns *)
(* back.                                                                   *)
SearchStraight ==
  Single(Seen) =>
    /\ \A i \in 2 .. Len(cs.stack) :
         AllSuccessors(cs.stack[i].node) \subseteq {cs.stack[i - 1].node}
    /\ cs.examined # {} \/ cs.currentUnlocks = {} =>
         \A i \in 1 .. Len(cs.stack) : Remaining(cs.stack[i]) \subseteq Seen

SearchConfined ==
  Single(Seen) /\ cs.currentUnlocks = {} =>
    \A u \in Seen : \E X \in SUBSET Seen : ConfinesUpTo(X, cs.currentLock, u)

SearchInv == SearchStack /\ SearchClosed /\ SearchStraight /\ SearchConfined

Section(l) == cs.sections[l] \cup {l}

SectionsConfined ==
  \A l \in DOMAIN cs.sections :
    /\ l \notin cs.ranOut => \A n \in Section(l) : AllSuccessors(n) \subseteq Section(l)
    /\ l \in cs.ranOut /\ Single(Section(l)) =>
         \A u \in Section(l) : \E X \in SUBSET Section(l) : ConfinesUpTo(X, l, u)

(* CriticalSectionsBuilder, by its fields.                                 *)
Search(start, unlocks, visited, examined, sections, ranOut, stack) ==
  [currentLock |-> start, currentUnlocks |-> unlocks, visited |-> visited,
   examined |-> examined, sections |-> sections, ranOut |-> ranOut, stack |-> stack]

SectionsTyped ==
  /\ cs = Search(cs.currentLock, cs.currentUnlocks, cs.visited, cs.examined, cs.sections,
                 cs.ranOut, cs.stack)
  /\ cs.ranOut \subseteq DOMAIN cs.sections /\ DOMAIN cs.sections \subseteq Locks

SectionsInv ==
  /\ SectionsTyped /\ SectionsConfined
  /\ cs.stack # NoFrames => phase = "locks" /\ SearchInv
  /\ cs.stack = NoFrames => Seen = {}
  /\ phase = "pta" => DOMAIN cs.sections = {}
  /\ phase \in {"regions", "run"} => Locks \subseteq DOMAIN cs.sections

LEMMA LocksBuilt ==
  ASSUME BuildInv, phase # "pta"
  PROVE  Locks \subseteq cfg.nodes
<1>0. WellFormed(prog)
  BY ProgramsAssumption DEF BuildInv
<1> SUFFICES ASSUME NEW l \in Locks PROVE l \in cfg.nodes
  OBVIOUS
<1>1. PICK x \in Instrs(prog) : \E c \in DOMAIN InstrAt(prog, x).to :
        IsCallInst(prog, x) /\ InstrAt(prog, x).to[c].k = "lock" /\ l = CallNode(prog, x, c)
  BY <1>0, CalleeNodeFacts DEF Locks
<1>2. PICK c \in DOMAIN InstrAt(prog, x).to :
        IsCallInst(prog, x) /\ InstrAt(prog, x).to[c].k = "lock" /\ l = CallNode(prog, x, c)
  BY <1>1
<1>3. /\ CallLast(prog, x, c) = l
      /\ LastNode(prog, x) = l \/ <<l, LastNode(prog, x)>> \in Edges(prog)
      /\ NodeType(LastNode(prog, x)) # "RETURN"
  BY <1>0, <1>2, CallLastFacts
<1>4. <<LastNode(prog, x), FirstNode(prog, NextPoint(x))>> \in Edges(prog)
  BY <1>0, <1>2, <1>3, NextBuilt DEF IsCallInst
<1>5. PICK m : <<l, m>> \in Edges(prog)
  BY <1>3, <1>4
<1> QED
  BY <1>5, GraphFacts

(* Parts of the invariant in a step that leaves the graph and the sections *)
(* that are done alone.                                                    *)
LEMMA SearchSame ==
  ASSUME cfg' = cfg, prog' = prog
  PROVE  /\ Frames' = Frames /\ Locks' = Locks
         /\ \A m : AllSuccessors(m)' = AllSuccessors(m)
         /\ \A m : Fits(m)' = Fits(m)
         /\ \A V : Single(V)' = Single(V)
         /\ \A X, l, u : ConfinesUpTo(X, l, u)' = ConfinesUpTo(X, l, u)
  BY DEF AllSuccessors, Frames, Ends, Fits, Single, ConfinesUpTo, Locks

LEMMA SectionsSame ==
  ASSUME SectionsTyped, SectionsConfined, cfg' = cfg, prog' = prog,
         cs'.sections = cs.sections, cs'.ranOut = cs.ranOut,
         cs' = Search(cs'.currentLock, cs'.currentUnlocks, cs'.visited, cs'.examined,
                      cs'.sections, cs'.ranOut, cs'.stack)
  PROVE  SectionsTyped' /\ SectionsConfined'
<1>1. \A l : Section(l)' = Section(l)
  BY DEF Section
<1>2. SectionsTyped'
  BY SearchSame DEF SectionsTyped
<1>3. SectionsConfined'
  BY <1>1, SearchSame DEF SectionsConfined
<1> QED
  BY <1>2, <1>3

LEMMA SearchFields ==
  ASSUME NEW start, NEW unlocks, NEW visited, NEW examined, NEW sections, NEW ranOut, NEW stack,
         NEW st, st = Search(start, unlocks, visited, examined, sections, ranOut, stack)
  PROVE  /\ st.currentLock = start /\ st.currentUnlocks = unlocks /\ st.visited = visited
         /\ st.examined = examined /\ st.sections = sections /\ st.ranOut = ranOut
         /\ st.stack = stack
  BY DEF Search

LEMMA VisitRecord ==
  ASSUME NEW start, NEW unlocks, NEW visited, NEW examined, NEW sections, NEW ranOut, NEW stack,
         NEW st, st = Search(start, unlocks, visited, examined, sections, ranOut, stack),
         NEW rest, NEW n
  PROVE  VisitNode(st, rest, n) =
           Search(start, unlocks \ {n}, visited \cup {n}, examined, sections, ranOut,
                  <<IF unlocks \ {n} = {} THEN LastFrame(n) ELSE Frame(n)>> \o rest)
<1>1. PICK all, met, pushed :
        /\ all = unlocks \ {n} /\ met = visited \cup {n}
        /\ pushed = <<IF unlocks \ {n} = {} THEN LastFrame(n) ELSE Frame(n)>> \o rest
  OBVIOUS
<1>2. [st EXCEPT !.visited = met, !.currentUnlocks = all, !.stack = pushed]
        = [[[st EXCEPT !.visited = met] EXCEPT !.currentUnlocks = all] EXCEPT !.stack = pushed]
  OBVIOUS
<1>3. PICK one : one = [st EXCEPT !.visited = met]
  OBVIOUS
<1>4. PICK two : two = [one EXCEPT !.currentUnlocks = all]
  OBVIOUS
<1>5. one = Search(start, unlocks, met, examined, sections, ranOut, stack)
  BY <1>3 DEF Search
<1>6. two = Search(start, all, met, examined, sections, ranOut, stack)
  BY <1>4, <1>5 DEF Search
<1>7. [two EXCEPT !.stack = pushed] = Search(start, all, met, examined, sections, ranOut, pushed)
  BY <1>6 DEF Search
<1>8. st.currentUnlocks = unlocks /\ st.visited = visited
  BY SearchFields
<1>9. VisitNode(st, rest, n)
        = [st EXCEPT !.visited = met, !.currentUnlocks = all, !.stack = pushed]
  BY ONLY <1>1, <1>8 DEF VisitNode
<1> QED
  BY ONLY <1>1, <1>2, <1>3, <1>4, <1>7, <1>9

LEMMA StartSearch ==
  ASSUME BuildInv, SectionsInv, NEW start \in Locks, buildCriticalSection(start), prog' = prog
  PROVE  SectionsInv'
<1> DEFINE unlocks == correspondingUnlocks(prog, start) \ {start}
           fr == IF unlocks = {} THEN LastFrame(start) ELSE Frame(start)
<1>1. /\ phase = "locks" /\ phase' = "locks" /\ cfg' = cfg /\ cs.stack = NoFrames
      /\ start \notin DOMAIN cs.sections
      /\ cs' = VisitNode([cs EXCEPT !.currentLock = start,
                                    !.currentUnlocks = correspondingUnlocks(prog, start)],
                         NoFrames, start)
  BY DEF buildCriticalSection
<1>2. Seen = {} /\ SectionsTyped /\ SectionsConfined
  BY <1>1 DEF SectionsInv
<1>3. cs.visited = {} /\ cs.examined = {}
  BY <1>2 DEF Seen
<1>4. <<fr>> \o NoFrames = <<fr>>
  BY DEF NoFrames
<1> HIDE DEF fr
<1>5. cs' = Search(start, unlocks, {start}, {}, cs.sections, cs.ranOut, <<fr>>)
  <2>1. PICK st, all : st = cs /\ all = correspondingUnlocks(prog, start)
    OBVIOUS
  <2>2. st = Search(st.currentLock, st.currentUnlocks, {}, {}, st.sections, st.ranOut, st.stack)
    BY <1>2, <1>3, <2>1 DEF SectionsTyped
  <2>3. PICK one : one = [st EXCEPT !.currentLock = start]
    OBVIOUS
  <2>4. PICK new : new = [one EXCEPT !.currentUnlocks = all]
    OBVIOUS
  <2>5. one = Search(start, st.currentUnlocks, {}, {}, st.sections, st.ranOut, st.stack)
    BY ONLY <2>2, <2>3 DEF Search
  <2>6. new = Search(start, all, {}, {}, st.sections, st.ranOut, st.stack)
    BY ONLY <2>4, <2>5 DEF Search
  <2>7. [st EXCEPT !.currentLock = start, !.currentUnlocks = all] = new
    BY ONLY <2>3, <2>4
  <2>8. VisitNode(new, NoFrames, start) =
          Search(start, all \ {start}, {} \cup {start}, {}, st.sections, st.ranOut,
                 <<IF all \ {start} = {} THEN LastFrame(start) ELSE Frame(start)>> \o NoFrames)
    BY <2>6, VisitRecord
  <2>9. {} \cup {start} = {start}
    OBVIOUS
  <2>10. <<IF all \ {start} = {} THEN LastFrame(start) ELSE Frame(start)>> = <<fr>>
    BY <2>1 DEF fr
  <2> QED
    BY ONLY <1>1, <1>4, <2>1, <2>7, <2>8, <2>9, <2>10
<1> HIDE DEF unlocks
<1>6. /\ cs'.currentLock = start /\ cs'.currentUnlocks = unlocks /\ cs'.visited = {start}
      /\ cs'.examined = {} /\ cs'.sections = cs.sections /\ cs'.ranOut = cs.ranOut
      /\ cs'.stack = <<fr>>
      /\ cs' = Search(cs'.currentLock, cs'.currentUnlocks, cs'.visited, cs'.examined,
                      cs'.sections, cs'.ranOut, cs'.stack)
  BY <1>5, SearchFields
<1>7. SectionsTyped' /\ SectionsConfined'
  BY <1>1, <1>2, <1>6, SectionsSame
<1>8. /\ fr \in Frames /\ Fits(fr) /\ fr.node = start
      /\ unlocks # {} => Remaining(fr) = AllSuccessors(start)
      /\ unlocks = {} => Remaining(fr) = {}
  <2>1. start \in cfg.nodes
    BY <1>1, LocksBuilt
  <2> QED
    BY <2>1, FrameFacts DEF fr, unlocks
<1>9. /\ <<fr>> \in Seq(Frames) /\ Len(<<fr>>) = 1 /\ <<fr>>[1] = fr /\ <<fr>> # NoFrames
  BY <1>8, OneFacts DEF NoFrames
<1>10. /\ cs'.stack \in Seq(Frames) /\ Len(cs'.stack) = 1 /\ cs'.stack[1] = fr
       /\ cs'.stack # NoFrames /\ 1 \in 1 .. Len(cs'.stack)
       /\ \A i \in 1 .. Len(cs'.stack) : i = 1
       /\ \A i \in 2 .. Len(cs'.stack) : FALSE
  BY <1>6, <1>9
<1>11. Seen' = {start}
  BY <1>6 DEF Seen
<1>12. SearchStack'
  BY <1>1, <1>6, <1>8, <1>10, <1>11, SearchSame DEF SearchStack
<1>13. SearchClosed'
  BY <1>1, <1>6, <1>8, <1>10, <1>11, SearchSame DEF SearchClosed
<1>14. SearchStraight'
  BY <1>6, <1>8, <1>10, <1>11 DEF SearchStraight
<1>15. SearchConfined'
  BY <1>1, <1>6, <1>11, SearchSame DEF SearchConfined, ConfinesUpTo
<1> QED
  BY <1>1, <1>7, <1>10, <1>12, <1>13, <1>14, <1>15 DEF SectionsInv, SearchInv

(* postVisit of a node above the lock, and of the lock.                    *)
Left(st, n) == [st EXCEPT !.stack = Popped(@), !.visited = @ \ {n}, !.examined = @ \cup {n}]
Finished(st, all, out) ==
  [st EXCEPT !.sections = all, !.ranOut = out, !.stack = NoFrames, !.visited = {},
             !.examined = {}]

LEMMA LeaveRecord ==
  ASSUME NEW start, NEW unlocks, NEW visited, NEW examined, NEW sections, NEW ranOut, NEW stack,
         NEW st, st = Search(start, unlocks, visited, examined, sections, ranOut, stack), NEW n
  PROVE  Left(st, n)
           = Search(start, unlocks, visited \ {n}, examined \cup {n}, sections, ranOut, Popped(stack))
<1>1. PICK rest, left, done :
        rest = Popped(stack) /\ left = visited \ {n} /\ done = examined \cup {n}
  OBVIOUS
<1>2. PICK one : one = [st EXCEPT !.stack = rest]
  OBVIOUS
<1>3. PICK two : two = [one EXCEPT !.visited = left]
  OBVIOUS
<1>4. [st EXCEPT !.stack = rest, !.visited = left, !.examined = done]
        = [two EXCEPT !.examined = done]
  BY ONLY <1>2, <1>3
<1>5. one = Search(start, unlocks, visited, examined, sections, ranOut, rest)
  BY <1>2 DEF Search
<1>6. two = Search(start, unlocks, left, examined, sections, ranOut, rest)
  BY <1>3, <1>5 DEF Search
<1>7. [two EXCEPT !.examined = done] = Search(start, unlocks, left, done, sections, ranOut, rest)
  BY <1>6 DEF Search
<1>8. st.stack = stack /\ st.visited = visited /\ st.examined = examined
  BY SearchFields
<1>9. Left(st, n) = [st EXCEPT !.stack = rest, !.visited = left, !.examined = done]
  BY ONLY <1>1, <1>8 DEF Left
<1> QED
  BY ONLY <1>1, <1>4, <1>7, <1>9

LEMMA EndRecord ==
  ASSUME NEW start, NEW unlocks, NEW visited, NEW examined, NEW sections, NEW ranOut, NEW stack,
         NEW st, st = Search(start, unlocks, visited, examined, sections, ranOut, stack),
         NEW all, NEW out
  PROVE  Finished(st, all, out)
           = Search(start, unlocks, {}, {}, all, out, NoFrames)
<1>1. PICK one : one = [st EXCEPT !.sections = all]
  OBVIOUS
<1>2. PICK two : two = [one EXCEPT !.ranOut = out]
  OBVIOUS
<1>3. PICK three : three = [two EXCEPT !.stack = NoFrames]
  OBVIOUS
<1>4. PICK four : four = [three EXCEPT !.visited = {}]
  OBVIOUS
<1>5. Finished(st, all, out) = [four EXCEPT !.examined = {}]
  BY ONLY <1>1, <1>2, <1>3, <1>4 DEF Finished
<1>6. one = Search(start, unlocks, visited, examined, all, ranOut, stack)
  BY <1>1 DEF Search
<1>7. two = Search(start, unlocks, visited, examined, all, out, stack)
  BY <1>2, <1>6 DEF Search
<1>8. three = Search(start, unlocks, visited, examined, all, out, NoFrames)
  BY <1>3, <1>7 DEF Search
<1>9. four = Search(start, unlocks, {}, examined, all, out, NoFrames)
  BY <1>4, <1>8 DEF Search
<1>10. [four EXCEPT !.examined = {}] = Search(start, unlocks, {}, {}, all, out, NoFrames)
  BY <1>9 DEF Search
<1> QED
  BY ONLY <1>5, <1>10

(* A successor s of the node on top of the stack.                          *)
TopLeft(s) ==
  /\ Advanced(cs.stack, s) \in Seq(Frames)
  /\ Len(Advanced(cs.stack, s)) = Len(cs.stack) /\ Len(cs.stack) \in Nat \ {0}
  /\ \A i \in 1 .. Len(cs.stack) :
       /\ Fits(Advanced(cs.stack, s)[i])
       /\ Advanced(cs.stack, s)[i].node = cs.stack[i].node
       /\ Remaining(Advanced(cs.stack, s)[i]) \subseteq Remaining(cs.stack[i])
       /\ Remaining(cs.stack[i]) \subseteq Remaining(Advanced(cs.stack, s)[i]) \cup {s}
  /\ 1 \in 1 .. Len(cs.stack) /\ Len(cs.stack) \in 1 .. Len(cs.stack)
  /\ s \in Remaining(cs.stack[1]) /\ s \in AllSuccessors(cs.stack[1].node)

LEMMA SearchTop ==
  ASSUME SearchStack, cs.stack # NoFrames, NEW s \in NextSuccessors(Head(cs.stack))
  PROVE  TopLeft(s)
<1>1. PICK old : old = cs.stack
  OBVIOUS
<1>2. /\ old \in Seq(Frames) /\ old # <<>> /\ s \in NextSuccessors(Head(old))
      /\ \A i \in 1 .. Len(old) : Fits(old[i])
  BY <1>1 DEF SearchStack, NoFrames
<1>3. /\ Advanced(old, s) \in Seq(Frames)
      /\ Len(Advanced(old, s)) = Len(old) /\ Len(old) \in Nat \ {0}
      /\ \A i \in 1 .. Len(old) :
           /\ old[i] \in Frames
           /\ Fits(Advanced(old, s)[i])
           /\ Advanced(old, s)[i].node = old[i].node
           /\ Remaining(Advanced(old, s)[i]) \subseteq Remaining(old[i])
           /\ Remaining(old[i]) \subseteq Remaining(Advanced(old, s)[i]) \cup {s}
           /\ i # 1 => Advanced(old, s)[i] = old[i]
      /\ s \in Remaining(old[1])
      /\ s \in Remaining(Advanced(old, s)[1]) => s \in old[1].thr /\ s \in old[1].succ
  BY <1>2, AdvancedFits
<1>4. 1 \in 1 .. Len(old) /\ Len(old) \in 1 .. Len(old)
  BY <1>3
<1>5. s \in AllSuccessors(old[1].node)
  BY <1>2, <1>3, <1>4 DEF Fits, Remaining, AllSuccessors
<1> QED
  BY <1>1, <1>3, <1>4, <1>5 DEF TopLeft

LEMMA SeenSearch ==
  ASSUME BuildInv, SectionsInv, NEW s \in cfg.nodes, VisitSuccessor(s), s \in Seen, prog' = prog
  PROVE  SectionsInv'
<1>1. /\ phase = "locks" /\ phase' = "locks" /\ cfg' = cfg /\ cs.stack # NoFrames
      /\ s \in NextSuccessors(Head(cs.stack))
      /\ cs' = [cs EXCEPT !.stack = Advanced(@, s)]
  BY DEF VisitSuccessor, Seen
<1>2. SearchInv /\ SectionsTyped /\ SectionsConfined
  BY <1>1 DEF SectionsInv
<1>3. TopLeft(s)
  BY <1>1, <1>2, SearchTop DEF SearchInv
<1>4. PICK rest : rest = Advanced(cs.stack, s)
  OBVIOUS
<1>5. cs' = Search(cs.currentLock, cs.currentUnlocks, cs.visited, cs.examined, cs.sections,
                   cs.ranOut, rest)
  <2>1. PICK st : st = cs
    OBVIOUS
  <2>2. st = Search(st.currentLock, st.currentUnlocks, st.visited, st.examined, st.sections,
                    st.ranOut, st.stack)
    BY <1>2, <2>1 DEF SectionsTyped
  <2>3. [st EXCEPT !.stack = rest] =
          Search(st.currentLock, st.currentUnlocks, st.visited, st.examined, st.sections,
                 st.ranOut, rest)
    BY ONLY <2>2 DEF Search
  <2> QED
    BY ONLY <1>1, <1>4, <2>1, <2>3
<1>6. /\ cs'.currentLock = cs.currentLock /\ cs'.currentUnlocks = cs.currentUnlocks
      /\ cs'.visited = cs.visited /\ cs'.examined = cs.examined /\ cs'.sections = cs.sections
      /\ cs'.ranOut = cs.ranOut /\ cs'.stack = rest
      /\ cs' = Search(cs'.currentLock, cs'.currentUnlocks, cs'.visited, cs'.examined,
                      cs'.sections, cs'.ranOut, cs'.stack)
  BY <1>5, SearchFields
<1>7. SectionsTyped' /\ SectionsConfined'
  BY <1>1, <1>2, <1>6, SectionsSame
<1>8. /\ rest \in Seq(Frames) /\ Len(rest) = Len(cs.stack) /\ Len(cs.stack) \in Nat \ {0}
      /\ \A i \in 1 .. Len(cs.stack) :
           /\ Fits(rest[i]) /\ rest[i].node = cs.stack[i].node
           /\ Remaining(rest[i]) \subseteq Remaining(cs.stack[i])
           /\ Remaining(cs.stack[i]) \subseteq Remaining(rest[i]) \cup {s}
      /\ Len(cs.stack) \in 1 .. Len(cs.stack)
  BY <1>3, <1>4 DEF TopLeft
<1>9. Seen' = Seen
  BY <1>6 DEF Seen
<1>10. SearchStack'
  BY <1>1, <1>2, <1>6, <1>8, <1>9, SearchSame DEF SearchInv, SearchStack
<1>11. SearchClosed'
  <2>1. SUFFICES ASSUME cs.currentUnlocks # {}
                 PROVE  /\ \A n \in cs.examined : AllSuccessors(n) \subseteq Seen
                        /\ \A i \in 1 .. Len(cs.stack) :
                             AllSuccessors(cs.stack[i].node) \subseteq Seen \cup Remaining(rest[i])
    BY <1>1, <1>6, <1>8, <1>9, SearchSame DEF SearchClosed, Remaining
  <2> QED
    BY <1>2, <1>8, <2>1 DEF SearchInv, SearchClosed
<1>12. SearchStraight'
  <2>1. Single(Seen)' <=> Single(Seen)
    BY <1>1, <1>9 DEF Single, AllSuccessors
  <2>2. ASSUME Single(Seen), NEW i \in 2 .. Len(rest)
        PROVE  AllSuccessors(rest[i].node) \subseteq {rest[i - 1].node}
    <3>1. i \in 1 .. Len(cs.stack) /\ i - 1 \in 1 .. Len(cs.stack) /\ i \in 2 .. Len(cs.stack)
      BY <1>8
    <3> QED
      BY <1>2, <1>8, <2>2, <3>1 DEF SearchInv, SearchStraight
  <2>3. ASSUME Single(Seen), cs.examined # {} \/ cs.currentUnlocks = {}, NEW i \in 1 .. Len(rest)
        PROVE  Remaining(rest[i]) \subseteq Seen
    BY <1>2, <1>8, <2>3 DEF SearchInv, SearchStraight
  <2>4. \A m : AllSuccessors(m)' = AllSuccessors(m)
    BY <1>1, SearchSame
  <2> QED
    BY <1>6, <1>9, <2>1, <2>2, <2>3, <2>4 DEF SearchStraight, Remaining
<1>13. SearchConfined'
  BY <1>1, <1>2, <1>6, <1>9, SearchSame DEF SearchInv, SearchConfined
<1>14. rest # NoFrames
  BY <1>8 DEF NoFrames
<1> QED
  BY <1>1, <1>6, <1>7, <1>10, <1>11, <1>12, <1>13, <1>14 DEF SectionsInv, SearchInv

LEMMA EnterSearch ==
  ASSUME BuildInv, SectionsInv, NEW s \in cfg.nodes, VisitSuccessor(s), s \notin Seen, prog' = prog
  PROVE  SectionsInv'
<1> DEFINE unlocks == cs.currentUnlocks \ {s}
           fr == IF unlocks = {} THEN LastFrame(s) ELSE Frame(s)
<1>1. /\ phase = "locks" /\ phase' = "locks" /\ cfg' = cfg /\ cs.stack # NoFrames
      /\ s \in NextSuccessors(Head(cs.stack))
      /\ cs' = VisitNode(cs, Advanced(cs.stack, s), s)
  BY DEF VisitSuccessor, Seen
<1>2. SearchInv /\ SectionsTyped /\ SectionsConfined
  BY <1>1 DEF SectionsInv
<1>3. TopLeft(s)
  BY <1>1, <1>2, SearchTop DEF SearchInv
<1>4. PICK rest, pushed : rest = Advanced(cs.stack, s) /\ pushed = <<fr>> \o rest
  OBVIOUS
<1>5. cs' = Search(cs.currentLock, unlocks, cs.visited \cup {s}, cs.examined, cs.sections,
                   cs.ranOut, pushed)
  <2>1. PICK st : st = cs
    OBVIOUS
  <2>2. st = Search(st.currentLock, st.currentUnlocks, st.visited, st.examined, st.sections,
                    st.ranOut, st.stack)
    BY <1>2, <2>1 DEF SectionsTyped
  <2>3. VisitNode(st, rest, s) =
          Search(st.currentLock, st.currentUnlocks \ {s}, st.visited \cup {s}, st.examined,
                 st.sections, st.ranOut,
                 <<IF st.currentUnlocks \ {s} = {} THEN LastFrame(s) ELSE Frame(s)>> \o rest)
    BY <2>2, VisitRecord
  <2>4. pushed = <<IF st.currentUnlocks \ {s} = {} THEN LastFrame(s) ELSE Frame(s)>> \o rest
    BY <1>4, <2>1
  <2> QED
    BY ONLY <1>1, <1>4, <2>1, <2>3, <2>4
<1>6. /\ fr \in Frames /\ Fits(fr) /\ fr.node = s
      /\ unlocks # {} => Remaining(fr) = AllSuccessors(s)
      /\ unlocks = {} => Remaining(fr) = {}
  BY FrameFacts
<1>7. unlocks \subseteq cs.currentUnlocks
  OBVIOUS
<1> HIDE DEF unlocks, fr
<1>8. /\ cs'.currentLock = cs.currentLock /\ cs'.currentUnlocks = unlocks
      /\ cs'.visited = cs.visited \cup {s} /\ cs'.examined = cs.examined
      /\ cs'.sections = cs.sections /\ cs'.ranOut = cs.ranOut /\ cs'.stack = pushed
      /\ cs' = Search(cs'.currentLock, cs'.currentUnlocks, cs'.visited, cs'.examined,
                      cs'.sections, cs'.ranOut, cs'.stack)
  BY <1>5, SearchFields
<1>9. SectionsTyped' /\ SectionsConfined'
  BY <1>1, <1>2, <1>8, SectionsSame
<1>10. PICK len : len = Len(cs.stack)
  OBVIOUS
<1>11. /\ rest \in Seq(Frames) /\ Len(rest) = len /\ len \in Nat \ {0}
       /\ \A i \in 1 .. len :
            /\ Fits(rest[i]) /\ rest[i].node = cs.stack[i].node
            /\ Remaining(rest[i]) \subseteq Remaining(cs.stack[i])
            /\ Remaining(cs.stack[i]) \subseteq Remaining(rest[i]) \cup {s}
       /\ 1 \in 1 .. len /\ len \in 1 .. len
       /\ s \in Remaining(cs.stack[1]) /\ s \in AllSuccessors(cs.stack[1].node)
  BY <1>3, <1>4, <1>10 DEF TopLeft
<1>12. /\ pushed \in Seq(Frames) /\ pushed # <<>> /\ Len(pushed) = len + 1 /\ pushed[1] = fr
       /\ \A i \in 1 .. len : pushed[i + 1] = rest[i]
       /\ \A i \in 2 .. len + 1 : i - 1 \in 1 .. len /\ pushed[i] = rest[i - 1]
  BY <1>4, <1>6, <1>11, PushedFacts
<1>13. /\ \A i \in 1 .. len + 1 : i = 1 \/ i \in 2 .. len + 1
       /\ 1 \in 1 .. len + 1 /\ len + 1 \in 1 .. len + 1
       /\ \A i \in 1 .. len : i + 1 \in 1 .. len + 1
  BY <1>11
<1>14. Seen' = Seen \cup {s}
  BY <1>8 DEF Seen
<1>15. /\ Frames' = Frames /\ Locks' = Locks
       /\ \A m : AllSuccessors(m)' = AllSuccessors(m)
       /\ \A m : Fits(m)' = Fits(m) /\ Remaining(m)' = Remaining(m)
       /\ \A X, l, u : ConfinesUpTo(X, l, u)' = ConfinesUpTo(X, l, u)
       /\ Single(Seen)' => Single(Seen) /\ \A a, b \in AllSuccessors(cs.stack[1].node) : a = b
  <2>1. cs.stack[1].node \in Seen
    BY <1>2, <1>10, <1>11 DEF SearchInv, SearchStack
  <2>2. \A m : AllSuccessors(m)' = AllSuccessors(m)
    BY <1>1, SearchSame
  <2>3. Single(Seen)' <=> \A n \in Seen \cup {s} : \A a, b \in AllSuccessors(n) : a = b
    BY <1>14, <2>2 DEF Single
  <2> QED
    BY <1>1, <2>1, <2>3, SearchSame DEF Remaining, Single
<1>16. \A i \in 1 .. len + 1 : pushed[i].node \in Seen \cup {s} /\ Fits(pushed[i])
  <2> SUFFICES ASSUME NEW i \in 1 .. len + 1
               PROVE  pushed[i].node \in Seen \cup {s} /\ Fits(pushed[i])
    OBVIOUS
  <2>1. CASE i = 1
    BY <1>6, <1>12, <2>1
  <2>2. CASE i \in 2 .. len + 1
    BY <1>2, <1>10, <1>11, <1>12, <2>2 DEF SearchInv, SearchStack
  <2> QED
    BY <1>13, <2>1, <2>2
<1>17. \A m \in cs.visited \cup {s} : \E i \in 1 .. len + 1 : pushed[i].node = m
  <2> SUFFICES ASSUME NEW m \in cs.visited \cup {s}
               PROVE  \E i \in 1 .. len + 1 : pushed[i].node = m
    OBVIOUS
  <2>1. CASE m = s
    BY <1>6, <1>12, <1>13, <2>1
  <2>2. CASE m \in cs.visited
    <3>1. PICK i \in 1 .. len : cs.stack[i].node = m
      BY <1>2, <1>10, <2>2 DEF SearchInv, SearchStack
    <3> QED
      BY <1>11, <1>12, <1>13, <3>1
  <2> QED
    BY <2>1, <2>2
<1>18. pushed[len + 1].node = cs.currentLock
  <2>1. cs.stack[len].node = cs.currentLock
    BY <1>2, <1>10 DEF SearchInv, SearchStack
  <2> QED
    BY <1>11, <1>12, <2>1
<1>19. SearchStack'
  <2>1. cs.currentLock \in Locks \ DOMAIN cs.sections
    BY <1>2 DEF SearchInv, SearchStack
  <2> QED
    BY <1>8, <1>12, <1>14, <1>15, <1>16, <1>17, <1>18, <2>1 DEF SearchStack
<1>20. SearchClosed'
  <2>1. SUFFICES ASSUME unlocks # {}
                 PROVE  /\ \A n \in cs.examined : AllSuccessors(n) \subseteq Seen \cup {s}
                        /\ \A i \in 1 .. len + 1 : AllSuccessors(pushed[i].node)
                             \subseteq Seen \cup {s} \cup Remaining(pushed[i])
    BY <1>8, <1>12, <1>14, <1>15 DEF SearchClosed
  <2>2. /\ \A n \in cs.examined : AllSuccessors(n) \subseteq Seen
        /\ \A i \in 1 .. len :
             AllSuccessors(cs.stack[i].node) \subseteq Seen \cup Remaining(cs.stack[i])
    BY <1>2, <1>7, <1>10, <2>1 DEF SearchInv, SearchClosed
  <2>3. ASSUME NEW i \in 2 .. len + 1
        PROVE  AllSuccessors(pushed[i].node) \subseteq Seen \cup {s} \cup Remaining(pushed[i])
    BY <1>11, <1>12, <2>2
  <2> QED
    BY <1>6, <1>12, <1>13, <2>1, <2>2, <2>3
<1>21. ASSUME Single(Seen)', NEW i \in 2 .. len + 1
       PROVE  AllSuccessors(pushed[i].node) \subseteq {pushed[i - 1].node}
  <2>1. i - 1 \in 1 .. len /\ pushed[i].node = cs.stack[i - 1].node
    BY <1>11, <1>12
  <2>2. CASE i = 2
    BY <1>6, <1>11, <1>12, <1>15, <1>21, <2>1, <2>2
  <2>3. CASE i # 2
    <3>1. i - 1 \in 2 .. len /\ i - 2 \in 1 .. len /\ i - 1 \in 2 .. len + 1
          /\ (i - 1) - 1 = i - 2
      BY <1>11, <2>3
    <3>2. pushed[i - 1].node = cs.stack[i - 2].node
      BY <1>11, <1>12, <3>1
    <3>3. AllSuccessors(cs.stack[i - 1].node) \subseteq {cs.stack[(i - 1) - 1].node}
      BY <1>2, <1>10, <1>15, <1>21, <3>1 DEF SearchInv, SearchStraight
    <3> QED
      BY <2>1, <3>1, <3>2, <3>3
  <2> QED
    BY <2>2, <2>3
<1>22. ASSUME Single(Seen)'
       PROVE  cs.examined = {} /\ cs.currentUnlocks # {}
  BY <1>2, <1>10, <1>11, <1>15, <1>22 DEF SearchInv, SearchStraight
<1>23. SearchStraight'
  <2>1. ASSUME Single(Seen)', unlocks = {}, NEW i \in 1 .. len + 1
        PROVE  Remaining(pushed[i]) \subseteq Seen \cup {s}
    <3>1. CASE i = 1
      BY <1>6, <1>12, <2>1, <3>1
    <3>2. CASE i \in 2 .. len + 1
      <4>1. AllSuccessors(pushed[i].node) \subseteq {pushed[i - 1].node}
        BY <1>21, <2>1, <3>2
      <4>2. pushed[i - 1].node \in Seen \cup {s}
        BY <1>11, <1>12, <1>13, <1>16, <3>2
      <4>3. Remaining(pushed[i]) \subseteq AllSuccessors(pushed[i].node)
        BY <1>16, <2>1 DEF Fits, Remaining, AllSuccessors
      <4> QED
        BY <4>1, <4>2, <4>3
    <3> QED
      BY <1>13, <3>1, <3>2
  <2> QED
    BY <1>8, <1>12, <1>14, <1>15, <1>21, <1>22, <2>1 DEF SearchStraight
<1>24. SearchConfined'
  <2>1. SUFFICES ASSUME Single(Seen)', NEW u \in Seen \cup {s}
                 PROVE  \E X \in SUBSET (Seen \cup {s}) : ConfinesUpTo(X, cs.currentLock, u)
    BY <1>8, <1>14, <1>15 DEF SearchConfined
  <2>2. u \in cs.visited \cup {s}
    BY <1>22, <2>1 DEF Seen
  <2>3. PICK j \in 1 .. len + 1 : pushed[j].node = u
    BY <1>17, <2>2
  <2>4. PICK X : X = {pushed[i].node : i \in j .. len + 1}
    OBVIOUS
  <2>5. X \subseteq Seen \cup {s}
    BY <1>11, <1>16, <2>4
  <2>6. cs.currentLock \in X
    BY <1>11, <1>18, <2>4
  <2>7. ASSUME NEW m \in X PROVE m = u \/ AllSuccessors(m) \subseteq X
    <3>1. PICK i \in j .. len + 1 : m = pushed[i].node
      BY <2>4
    <3>2. CASE i = j
      BY <2>3, <3>1, <3>2
    <3>3. CASE i # j
      <4>1. i \in 2 .. len + 1 /\ i - 1 \in j .. len + 1
        BY <1>11, <3>3
      <4> QED
        BY <1>21, <2>1, <2>4, <3>1, <4>1
    <3> QED
      BY <3>2, <3>3
  <2> QED
    BY <2>5, <2>6, <2>7 DEF ConfinesUpTo
<1> QED
  BY <1>1, <1>8, <1>9, <1>12, <1>19, <1>20, <1>23, <1>24 DEF SectionsInv, SearchInv, NoFrames

LEMMA LeaveSearch ==
  ASSUME BuildInv, SectionsInv, PostVisit, Len(cs.stack) # 1, prog' = prog
  PROVE  SectionsInv'
<1> DEFINE n == Head(cs.stack).node
<1>1. /\ phase = "locks" /\ phase' = "locks" /\ cfg' = cfg /\ cs.stack # NoFrames
      /\ NextSuccessors(Head(cs.stack)) = {}
      /\ cs' = Left(cs, n)
  BY DEF PostVisit, Left
<1>2. SearchInv /\ SectionsTyped /\ SectionsConfined
  BY <1>1 DEF SectionsInv
<1>3. PICK rest, len : rest = Popped(cs.stack) /\ len = Len(cs.stack)
  OBVIOUS
<1> HIDE DEF n
<1>4. cs' = Search(cs.currentLock, cs.currentUnlocks, cs.visited \ {n}, cs.examined \cup {n},
                   cs.sections, cs.ranOut, rest)
  <2>1. PICK st : st = cs
    OBVIOUS
  <2>2. st = Search(st.currentLock, st.currentUnlocks, st.visited, st.examined, st.sections,
                    st.ranOut, st.stack)
    BY <1>2, <2>1 DEF SectionsTyped
  <2>3. Left(st, n) =
          Search(st.currentLock, st.currentUnlocks, st.visited \ {n}, st.examined \cup {n},
                 st.sections, st.ranOut, Popped(st.stack))
    BY <2>2, LeaveRecord
  <2> QED
    BY ONLY <1>1, <1>3, <2>1, <2>3
<1>5. /\ cs'.currentLock = cs.currentLock /\ cs'.currentUnlocks = cs.currentUnlocks
      /\ cs'.visited = cs.visited \ {n} /\ cs'.examined = cs.examined \cup {n}
      /\ cs'.sections = cs.sections /\ cs'.ranOut = cs.ranOut /\ cs'.stack = rest
      /\ cs' = Search(cs'.currentLock, cs'.currentUnlocks, cs'.visited, cs'.examined,
                      cs'.sections, cs'.ranOut, cs'.stack)
  BY <1>4, SearchFields
<1>6. SectionsTyped' /\ SectionsConfined'
  BY <1>1, <1>2, <1>5, SectionsSame
<1>7. /\ rest \in Seq(Frames) /\ Len(rest) = len - 1 /\ len \in Nat \ {0}
      /\ \A i \in 1 .. len - 1 : rest[i] = cs.stack[i + 1]
      /\ n = cs.stack[1].node /\ Remaining(cs.stack[1]) = {}
  <2>1. PICK old : old = cs.stack
    OBVIOUS
  <2>2. old \in Seq(Frames) /\ old # <<>>
    BY <1>1, <1>2, <2>1 DEF SearchInv, SearchStack, NoFrames
  <2>3. /\ Popped(old) \in Seq(Frames)
        /\ Len(old) \in Nat \ {0} /\ Len(Popped(old)) = Len(old) - 1
        /\ \A i \in 1 .. Len(old) - 1 : Popped(old)[i] = old[i + 1]
        /\ Head(old) = old[1] /\ old[1] \in Frames
    BY <2>2, PoppedFacts
  <2>4. Remaining(old[1]) = {}
    BY <1>1, <2>1, <2>3, NothingLeft
  <2> QED
    BY <1>3, <2>1, <2>3, <2>4 DEF n
<1>8. /\ len > 1 /\ len - 1 \in 1 .. len - 1 /\ 1 \in 1 .. len /\ (len - 1) + 1 = len
      /\ \A i \in 1 .. len - 1 : i + 1 \in 1 .. len
      /\ \A i \in 2 .. len - 1 : /\ i \in 1 .. len - 1 /\ i - 1 \in 1 .. len - 1
                                 /\ (i - 1) + 1 = i /\ i + 1 \in 2 .. len /\ (i + 1) - 1 = i
      /\ \A i \in 1 .. len - 1 : i + 1 \in 2 .. len /\ (i + 1) - 1 = i /\ i \in 1 .. len
      /\ \A i \in 1 .. len : i = 1 \/ (i - 1 \in 1 .. len - 1 /\ (i - 1) + 1 = i)
  <2>1. len # 1
    BY <1>3
  <2>2. len \in Nat \ {0}
    BY <1>7
  <2> QED
    BY ONLY <2>1, <2>2
<1>9. n \in Seen
  BY <1>2, <1>3, <1>7, <1>8 DEF SearchInv, SearchStack
<1>10. Seen' = Seen
  BY <1>5, <1>9 DEF Seen
<1>11. /\ Frames' = Frames /\ Locks' = Locks
       /\ \A m : AllSuccessors(m)' = AllSuccessors(m)
       /\ \A m : Fits(m)' = Fits(m) /\ Remaining(m)' = Remaining(m)
       /\ Single(Seen)' <=> Single(Seen)
  BY <1>1, <1>10, SearchSame DEF Remaining
<1>12. SearchStack'
  <2>1. ASSUME NEW i \in 1 .. len - 1 PROVE rest[i].node \in Seen /\ Fits(rest[i])
    BY <1>2, <1>3, <1>7, <1>8 DEF SearchInv, SearchStack
  <2>2. ASSUME NEW m \in cs.visited \ {n} PROVE \E i \in 1 .. len - 1 : rest[i].node = m
    <3>1. PICK i \in 1 .. len : cs.stack[i].node = m
      BY <1>2, <1>3 DEF SearchInv, SearchStack
    <3>2. i # 1
      BY <1>7, <3>1
    <3>3. PICK k : k = i - 1
      OBVIOUS
    <3>4. k \in 1 .. len - 1 /\ k + 1 = i
      BY <1>8, <3>1, <3>2, <3>3
    <3> QED
      BY <1>7, <3>1, <3>4
  <2>3. rest[len - 1].node = cs.currentLock
    BY <1>2, <1>3, <1>7, <1>8 DEF SearchInv, SearchStack
  <2>4. cs.currentLock \in Locks \ DOMAIN cs.sections
    BY <1>2 DEF SearchInv, SearchStack
  <2> QED
    BY <1>5, <1>7, <1>10, <1>11, <2>1, <2>2, <2>3, <2>4 DEF SearchStack
<1>13. SearchClosed'
  <2>1. SUFFICES ASSUME cs.currentUnlocks # {}
                 PROVE  /\ \A m \in cs.examined \cup {n} : AllSuccessors(m) \subseteq Seen
                        /\ \A i \in 1 .. len - 1 :
                             AllSuccessors(rest[i].node) \subseteq Seen \cup Remaining(rest[i])
    BY <1>5, <1>7, <1>10, <1>11 DEF SearchClosed
  <2>2. /\ \A m \in cs.examined : AllSuccessors(m) \subseteq Seen
        /\ \A i \in 1 .. len :
             AllSuccessors(cs.stack[i].node) \subseteq Seen \cup Remaining(cs.stack[i])
    BY <1>2, <1>3, <2>1 DEF SearchInv, SearchClosed
  <2> QED
    BY <1>7, <1>8, <2>2
<1>14. SearchStraight'
  <2>1. ASSUME Single(Seen), NEW i \in 2 .. len
        PROVE  AllSuccessors(cs.stack[i].node) \subseteq {cs.stack[i - 1].node}
    BY <1>2, <1>3, <2>1 DEF SearchInv, SearchStraight
  <2>2. ASSUME Single(Seen), NEW i \in 2 .. len - 1
        PROVE  AllSuccessors(rest[i].node) \subseteq {rest[i - 1].node}
    <3>1. rest[i] = cs.stack[i + 1] /\ i + 1 \in 2 .. len /\ (i + 1) - 1 = i
      BY <1>7, <1>8
    <3>2. PICK k : k = i - 1
      OBVIOUS
    <3>3. k \in 1 .. len - 1 /\ k + 1 = i
      BY <1>8, <3>2
    <3>4. rest[k] = cs.stack[i]
      BY <1>7, <3>3
    <3> QED
      BY <2>1, <2>2, <3>1, <3>2, <3>4
  <2>3. ASSUME Single(Seen), NEW i \in 1 .. len - 1
        PROVE  Remaining(rest[i]) \subseteq Seen
    <3>1. AllSuccessors(rest[i].node) \subseteq {cs.stack[i].node}
      BY <1>7, <1>8, <2>1, <2>3
    <3>2. cs.stack[i].node \in Seen /\ Fits(rest[i])
      BY <1>2, <1>3, <1>7, <1>8 DEF SearchInv, SearchStack
    <3>3. Remaining(rest[i]) \subseteq AllSuccessors(rest[i].node)
      BY <3>2 DEF Fits, Remaining, AllSuccessors
    <3> QED
      BY <3>1, <3>2, <3>3
  <2> QED
    BY <1>5, <1>7, <1>10, <1>11, <2>2, <2>3 DEF SearchStraight
<1>15. SearchConfined'
  BY <1>1, <1>2, <1>5, <1>10, SearchSame DEF SearchInv, SearchConfined
<1>16. rest # NoFrames
  BY <1>7, <1>8 DEF NoFrames
<1> QED
  BY <1>1, <1>5, <1>6, <1>12, <1>13, <1>14, <1>15, <1>16 DEF SectionsInv, SearchInv

LEMMA EndSearch ==
  ASSUME BuildInv, SectionsInv, PostVisit, Len(cs.stack) = 1, prog' = prog
  PROVE  SectionsInv'
<1>0. PICK l : l = cs.currentLock
  OBVIOUS
<1> DEFINE found == cs.examined \cup {l}
           out == IF cs.currentUnlocks = {} THEN cs.ranOut \cup {l} ELSE cs.ranOut
           sections == [k \in DOMAIN cs.sections \cup {l} |->
                          IF k = l THEN found \ {k} ELSE cs.sections[k]]
<1>1. /\ phase = "locks" /\ phase' = "locks" /\ cfg' = cfg /\ cs.stack # NoFrames
      /\ NextSuccessors(Head(cs.stack)) = {}
      /\ cs' = Populated(cs.examined \cup {Head(cs.stack).node})
  BY DEF PostVisit
<1>2. SearchInv /\ SectionsTyped /\ SectionsConfined
  BY <1>1 DEF SectionsInv
<1>3. Head(cs.stack).node = l /\ cs.stack[1].node = l /\ Remaining(cs.stack[1]) = {}
      /\ 1 \in 1 .. Len(cs.stack) /\ \A i \in 1 .. Len(cs.stack) : i = 1
  <2>1. PICK old : old = cs.stack
    OBVIOUS
  <2>2. old \in Seq(Frames) /\ old # <<>> /\ Len(old) = 1 /\ old[Len(old)].node = l
    BY <1>0, <1>1, <1>2, <2>1 DEF SearchInv, SearchStack, NoFrames
  <2>3. Head(old) = old[1]
    BY <2>2, PoppedFacts
  <2>4. Remaining(old[1]) = {}
    BY <1>1, <2>1, <2>3, NothingLeft
  <2> QED
    BY <2>1, <2>2, <2>3, <2>4
<1>4. l \in Locks \ DOMAIN cs.sections /\ l \in Seen /\ cs.visited \subseteq {l}
  BY <1>0, <1>2, <1>3 DEF SearchInv, SearchStack
<1>5. found = Seen
  BY <1>4 DEF Seen
<1>6. cs' = Search(l, cs.currentUnlocks, {}, {}, sections, out, NoFrames)
  <2>1. PICK st, all, new : st = cs /\ all = sections /\ new = out
    OBVIOUS
  <2>2. st = Search(st.currentLock, st.currentUnlocks, st.visited, st.examined, st.sections,
                    st.ranOut, st.stack)
    BY <1>2, <2>1 DEF SectionsTyped
  <2>3. Finished(st, all, new)
          = Search(st.currentLock, st.currentUnlocks, {}, {}, all, new, NoFrames)
    BY <2>2, EndRecord
  <2>4. Populated(found) = Finished(cs, sections, out)
    BY <1>0 DEF Populated, Finished
  <2> QED
    BY <1>0, <1>1, <1>3, <2>1, <2>3, <2>4
<1>7. /\ cs'.visited = {} /\ cs'.examined = {} /\ cs'.sections = sections
      /\ cs'.ranOut = out /\ cs'.stack = NoFrames
      /\ cs' = Search(cs'.currentLock, cs'.currentUnlocks, cs'.visited, cs'.examined,
                      cs'.sections, cs'.ranOut, cs'.stack)
  BY <1>6, SearchFields
<1>8. /\ DOMAIN cs'.sections = DOMAIN cs.sections \cup {l} /\ Section(l)' = Seen
      /\ \A k \in DOMAIN cs.sections : Section(k)' = Section(k)
  <2>1. PICK all : all = sections
    OBVIOUS
  <2>2. PICK old, seen : old = cs.sections /\ seen = Seen
    OBVIOUS
  <2>3. all = [k \in DOMAIN old \cup {l} |-> IF k = l THEN seen \ {k} ELSE old[k]]
    BY <1>5, <2>1, <2>2
  <2>4. l \in seen /\ l \notin DOMAIN old
    BY <1>4, <2>2
  <2>5. /\ DOMAIN all = DOMAIN old \cup {l} /\ all[l] = seen \ {l}
        /\ \A k \in DOMAIN old : all[k] = old[k]
    BY ONLY <2>3, <2>4
  <2>6. (seen \ {l}) \cup {l} = seen
    BY <2>4
  <2>7. cs'.sections = all
    BY <1>7, <2>1
  <2>8. Section(l)' = seen
    BY ONLY <2>5, <2>6, <2>7 DEF Section
  <2>9. \A k \in DOMAIN old : Section(k)' = Section(k)
    BY ONLY <2>2, <2>5, <2>7 DEF Section
  <2> QED
    BY <2>2, <2>5, <2>7, <2>8, <2>9
<1>9. SectionsTyped'
  BY <1>1, <1>2, <1>4, <1>7, <1>8, SearchSame DEF SectionsTyped
<1>10. l \notin cs.ranOut
  BY <1>2, <1>4 DEF SectionsTyped
<1>11. cs.currentUnlocks # {} => \A n \in Seen : AllSuccessors(n) \subseteq Seen
  BY <1>2, <1>3, <1>5 DEF SearchInv, SearchClosed
<1>12. SectionsConfined'
  <2> SUFFICES ASSUME NEW k \in DOMAIN cs.sections \cup {l}
               PROVE  /\ k \notin out =>
                           \A n \in Section(k)' : AllSuccessors(n) \subseteq Section(k)'
                      /\ k \in out /\ Single(Section(k)') =>
                           \A u \in Section(k)' : \E X \in SUBSET Section(k)' : ConfinesUpTo(X, k, u)
    <3>1. \A V : Single(V)' = Single(V)
      BY <1>1, SearchSame
    <3>2. \A k : Single(Section(k))' = Single(Section(k)')
      BY <1>1 DEF Single, AllSuccessors
    <3>3. \A X, k, u : ConfinesUpTo(X, k, u)' = ConfinesUpTo(X, k, u)
      BY <1>1, SearchSame
    <3>4. \A m : AllSuccessors(m)' = AllSuccessors(m)
      BY <1>1, SearchSame
    <3> QED
      BY <1>7, <1>8, <3>2, <3>3, <3>4 DEF SectionsConfined
  <2>1. CASE k = l
    BY <1>0, <1>2, <1>8, <1>10, <1>11, <2>1 DEF SearchInv, SearchConfined
  <2>2. CASE k \in DOMAIN cs.sections
    <3>1. k # l /\ Section(k)' = Section(k)
      BY <1>4, <1>8, <2>2
    <3>2. k \in out <=> k \in cs.ranOut
      BY <3>1
    <3> QED
      BY <1>2, <2>2, <3>1, <3>2 DEF SectionsConfined
  <2> QED
    BY <2>1, <2>2
<1>13. Seen' = {}
  BY <1>7 DEF Seen
<1> QED
  BY <1>1, <1>7, <1>9, <1>12, <1>13 DEF SectionsInv

LEMMA InitSectionsInv == Init => SectionsInv
<1> SUFFICES ASSUME Init PROVE SectionsInv
  OBVIOUS
<1>1. /\ phase = "pta"
      /\ cs = Search(EntryNode(Main), {}, {}, {}, NoMap, {}, NoFrames)
  BY DEF Init, BuilderInit, Search
<1>2. /\ cs.visited = {} /\ cs.examined = {} /\ cs.sections = NoMap /\ cs.ranOut = {}
      /\ cs.stack = NoFrames
      /\ cs = Search(cs.currentLock, cs.currentUnlocks, cs.visited, cs.examined, cs.sections,
                     cs.ranOut, cs.stack)
  BY <1>1, SearchFields
<1>3. DOMAIN cs.sections = {}
  BY <1>2 DEF NoMap
<1>4. SectionsTyped
  BY <1>2, <1>3 DEF SectionsTyped
<1>5. SectionsConfined
  BY <1>3 DEF SectionsConfined
<1>6. Seen = {}
  BY <1>2 DEF Seen
<1> QED
  BY <1>1, <1>2, <1>3, <1>4, <1>5, <1>6 DEF SectionsInv

LEMMA NextSectionsInv ==
  ASSUME BuildInv, SectionsInv, [Next]_<<vars, execVars>>
  PROVE  SectionsInv'
<1>0. prog' = prog
  BY NextBuildInv
<1>1. CASE \E l \in Locks : buildCriticalSection(l)
  BY <1>0, <1>1, StartSearch
<1>2. CASE \E s \in cfg.nodes : VisitSuccessor(s)
  <2>1. PICK s \in cfg.nodes : VisitSuccessor(s)
    BY <1>2
  <2>2. CASE s \in Seen
    BY <1>0, <2>1, <2>2, SeenSearch
  <2>3. CASE s \notin Seen
    BY <1>0, <2>1, <2>3, EnterSearch
  <2> QED
    BY <2>2, <2>3
<1>3. CASE PostVisit
  <2>1. CASE Len(cs.stack) = 1
    BY <1>0, <1>3, <2>1, EndSearch
  <2>2. CASE Len(cs.stack) # 1
    BY <1>0, <1>3, <2>2, LeaveSearch
  <2> QED
    BY <2>1, <2>2
<1>4. ASSUME cs' = cs PROVE Seen' = Seen /\ \A k : Section(k)' = Section(k)
  BY <1>4 DEF Seen, Section
<1>5. CASE /\ cs' = cs /\ phase = "pta" /\ phase' \in {"pta", "locks"}
  <2>1. cs.stack = NoFrames /\ Seen = {} /\ DOMAIN cs.sections = {}
    BY <1>5 DEF SectionsInv
  <2>2. SectionsTyped'
    BY <1>0, <1>5, <2>1 DEF SectionsInv, SectionsTyped
  <2>3. SectionsConfined'
    BY <1>5, <2>1 DEF SectionsConfined
  <2> QED
    BY <1>4, <1>5, <2>1, <2>2, <2>3 DEF SectionsInv
<1>6. CASE /\ cs' = cs /\ cfg' = cfg /\ phase' = phase
  <2>1. cs' = Search(cs'.currentLock, cs'.currentUnlocks, cs'.visited, cs'.examined,
                     cs'.sections, cs'.ranOut, cs'.stack)
    BY <1>6 DEF SectionsInv, SectionsTyped
  <2>2. SectionsTyped' /\ SectionsConfined'
    BY <1>0, <1>6, <2>1, SectionsSame DEF SectionsInv
  <2>3. ASSUME SearchInv PROVE SearchInv'
    <3>1. /\ Frames' = Frames /\ Locks' = Locks /\ Seen' = Seen
          /\ \A m : AllSuccessors(m)' = AllSuccessors(m)
          /\ \A m : Fits(m)' = Fits(m) /\ Remaining(m)' = Remaining(m)
          /\ \A X, l, u : ConfinesUpTo(X, l, u)' = ConfinesUpTo(X, l, u)
          /\ Single(Seen)' <=> Single(Seen)
      BY <1>0, <1>4, <1>6, SearchSame DEF Remaining, Single
    <3>2. SearchStack'
      BY <1>6, <2>3, <3>1 DEF SearchInv, SearchStack
    <3>3. SearchClosed'
      BY <1>6, <2>3, <3>1 DEF SearchInv, SearchClosed
    <3>4. SearchStraight'
      BY <1>6, <2>3, <3>1 DEF SearchInv, SearchStraight
    <3>5. SearchConfined'
      BY <1>6, <2>3, <3>1 DEF SearchInv, SearchConfined
    <3> QED
      BY <3>2, <3>3, <3>4, <3>5 DEF SearchInv
  <2> QED
    BY <1>0, <1>4, <1>6, <2>2, <2>3 DEF SectionsInv, Locks
<1>7. CASE /\ cs' = cs /\ cfg' = cfg /\ phase' \in {"regions", "run"}
           /\ cs.stack = NoFrames /\ Locks \subseteq DOMAIN cs.sections
  <2>1. cs' = Search(cs'.currentLock, cs'.currentUnlocks, cs'.visited, cs'.examined,
                     cs'.sections, cs'.ranOut, cs'.stack)
    BY <1>7 DEF SectionsInv, SectionsTyped
  <2>2. SectionsTyped' /\ SectionsConfined'
    BY <1>0, <1>7, <2>1, SectionsSame DEF SectionsInv
  <2> QED
    BY <1>0, <1>4, <1>7, <2>2 DEF SectionsInv, Locks
<1>8. CASE build
  BY <1>7, <1>8 DEF build
<1>9. CASE ComputeDependencies
  <2>1. phase = "regions" /\ phase' = "run" /\ cs' = cs /\ cfg' = cfg
    BY <1>9 DEF ComputeDependencies
  <2> QED
    BY <1>7, <2>1 DEF SectionsInv
<1>10. \/ \E l \in Locks : buildCriticalSection(l)
       \/ \E s \in cfg.nodes : VisitSuccessor(s)
       \/ PostVisit \/ build \/ ComputeDependencies
       \/ cs' = cs /\ phase = "pta" /\ phase' \in {"pta", "locks"}
       \/ cs' = cs /\ cfg' = cfg /\ phase' = phase
  <2>1. CASE \E f \in Forks : Learn(f)
    BY <2>1 DEF Learn
  <2>2. CASE \E j \in Joins : matchJoinToRightCreate(j)
    BY <2>2 DEF matchJoinToRightCreate
  <2>3. CASE BuildGraph
    BY <2>3 DEF BuildGraph
  <2>4. CASE \E s \in cfg.nodes : Visit(s)
    BY <2>4 DEF Visit
  <2>5. CASE Examine
    BY <2>5 DEF Examine
  <2>6. CASE Step
    BY <2>6 DEF Step, vars
  <2>7. CASE UNCHANGED <<vars, execVars>>
    BY <2>7 DEF vars
  <2> QED
    BY <2>1, <2>2, <2>3, <2>4, <2>5, <2>6, <2>7 DEF Next, BuilderNext
<1> QED
  BY <1>1, <1>2, <1>3, <1>5, <1>6, <1>8, <1>9, <1>10

LEMMA InvHeldCovered ==
  ASSUME BuildInv, ExecInv, DepsInv, SectionsInv
  PROVE  HeldCovered
<1> SUFFICES ASSUME phase = "run", NEW t \in Threads, Runs(t), NEW l \in thr[t].held,
                    l \notin cs.ranOut \/ Straight(l)
             PROVE  /\ \/ <<NodeInstr(l), ThreadAt(t)>> \in deps.sections
                       \/ ThreadAt(t) = NodeInstr(l)
                    /\ \A c \in DOMAIN InstrAt(prog, ThreadAt(t)).to :
                         InstrAt(prog, ThreadAt(t)).to[c].k = "unlock" =>
                           <<ThreadAt(t), NodeInstr(l)>> \in deps.sections
  BY DEF HeldCovered
<1>1. WellFormed(prog)
  BY ProgramsAssumption DEF BuildInv
<1>2. PICK y, n : y = ThreadAt(t) /\ n = FirstNode(prog, y)
  OBVIOUS
<1>3. y \in Instrs(prog) /\ l \in Locks /\ l \in DOMAIN cs.sections
  <2>1. Active(t)
    BY <1>1 DEF Active, ExecInv
  <2>2. y \in Instrs(prog) /\ l \in Locks
    BY <1>2, <2>1, ActiveFacts
  <2> QED
    BY <2>2 DEF SectionsInv
<1>4. \A e \in Edges(prog) : e[2] \in AllSuccessors(e[1])
  <2> SUFFICES ASSUME NEW e \in Edges(prog) PROVE e[2] \in AllSuccessors(e[1])
    OBVIOUS
  <2>1. e[1] \in cfg.nodes
    BY GraphFacts
  <2>2. cfg.succ[e[1]] = Outgoing(Edges(prog), e[1])
    BY <2>1, GraphFacts
  <2> QED
    BY <2>2 DEF Outgoing, AllSuccessors
<1>5. SectionsConfined
  BY DEF SectionsInv
<1>6. PICK X, S : X \in SUBSET Section(l) /\ Confines(X, S, l)
  <2>1. CASE l \notin cs.ranOut
    <3>1. Keeps(prog, Section(l), {})
      BY <1>3, <1>4, <1>5, <2>1 DEF SectionsConfined, Keeps
    <3>2. l \in Section(l)
      BY DEF Section
    <3> QED
      BY <3>1, <3>2 DEF Confines
  <2>2. CASE l \in cs.ranOut
    <3>1. Straight(l)
      BY <2>2
    <3>2. Single(Section(l))
      BY <3>1 DEF Straight, Single, Section
    <3>3. PICK u \in cs.sections[l] :
            NodeType(u) = "UNLOCK" /\ CalleeOfNode(prog, u).h = CalleeOfNode(prog, l).h
      BY <3>1 DEF Straight
    <3>4. PICK X \in SUBSET Section(l) : ConfinesUpTo(X, l, u)
      <4>1. u \in Section(l)
        BY <3>3 DEF Section
      <4> QED
        BY <1>3, <1>5, <2>2, <3>2, <4>1 DEF SectionsConfined
    <3>5. Keeps(prog, X, {u})
      BY <1>4, <3>3, <3>4 DEF Keeps, ConfinesUpTo
    <3>6. Confines(X, {u}, l)
      BY <3>3, <3>4, <3>5 DEF Confines, ConfinesUpTo
    <3> QED
      BY <3>6
  <2> QED
    BY <2>1, <2>2
<1>7. n \in Section(l)
  BY <1>2, <1>6 DEF ExecInv, HeldConfined
<1>8. NodeInstr(n) = y /\ ~isArtificial(prog, n)
  BY <1>1, <1>2, <1>3, FirstNodeFacts
<1>9. deps.sections = computeCriticalSections
  BY DEF DepsInv
<1>10. \/ <<NodeInstr(l), y>> \in deps.sections
       \/ y = NodeInstr(l)
  <2>1. CASE n = l
    BY <1>8, <2>1
  <2>2. CASE n # l
    <3>1. n \in cs.sections[l]
      BY <1>7, <2>2 DEF Section
    <3>2. y \in llvmInstructions(cs.sections[l])
      BY <1>8, <3>1 DEF llvmInstructions
    <3> QED
      BY <1>3, <1>9, <3>2 DEF computeCriticalSections
  <2> QED
    BY <2>1, <2>2
<1>11. ASSUME NEW c \in DOMAIN InstrAt(prog, y).to, InstrAt(prog, y).to[c].k = "unlock"
       PROVE  <<y, NodeInstr(l)>> \in deps.sections
  <2>1. IsCallInst(prog, y)
    <3>1. LegalInstr(prog, InstrAt(prog, y))
      BY <1>1, <1>3, InstrsFacts
    <3>2. InstrAt(prog, y).to # <<>>
      BY <1>11
    <3> QED
      BY <3>1, <3>2 DEF LegalInstr, IsCallInst
  <2>2. PICK u : u = CallNode(prog, y, c)
    OBVIOUS
  <2>3. NodeInstr(u) = y /\ u \in CalleeNodes(prog, "unlock")
    <3>1. NodeInstr(u) = y /\ u \in CalleeNodes(prog, InstrAt(prog, y).to[c].k)
      BY <1>1, <1>3, <2>1, <2>2, NodeOfCall
    <3> QED
      BY <1>11, <3>1
  <2>4. u \in correspondingUnlocks(prog, l)
    BY <2>3 DEF correspondingUnlocks, ResultPointsTo
  <2> QED
    BY <1>3, <1>9, <2>3, <2>4 DEF computeCriticalSections
<1> QED
  BY <1>2, <1>10, <1>11

(* computeCriticalSections: what a thread executes while it holds a mutex  *)
(* depends on the call that locked it, which in turn depends on the unlock,*)
(* unless the search saw all unlocks before it came to the rest of a       *)
(* branch.                                                                 *)
THEOREM HeldCoveredHolds == Spec => []HeldCovered
<1>1. Init => BuildInv /\ RegionsInv /\ ExecInv /\ DepsInv /\ SectionsInv
  <2>1. Init => DepsInv
    BY DEF Init, BuilderInit, DepsInv
  <2> QED
    BY <2>1, InitBuildInv, InitRegionsInv, InitExecInv, InitSectionsInv
<1>2. BuildInv /\ RegionsInv /\ ExecInv /\ DepsInv /\ SectionsInv /\ [Next]_<<vars, execVars>>
        => (BuildInv /\ RegionsInv /\ ExecInv /\ DepsInv /\ SectionsInv)'
  BY NextBuildInv, NextRegionsInv, NextExecInv, NextDepsInv, NextSectionsInv
<1>3. BuildInv /\ RegionsInv /\ ExecInv /\ DepsInv /\ SectionsInv => HeldCovered
  BY InvHeldCovered
<1> QED
  BY <1>1, <1>2, <1>3, PTL DEF Spec

=============================================================================
