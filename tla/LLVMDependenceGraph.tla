------------------------ MODULE LLVMDependenceGraph -------------------------
(***************************************************************************)
(* Building the dependence graph of an LLVM module                         *)
(* (lib/llvm/LLVMDependenceGraph.cpp, LLVMNode.cpp, DefUse/DefUse.cpp,     *)
(* Dominators/PostDominators.cpp).  Functions are built from the entry     *)
(* function along the calls: the recursion build -> handleInstruction ->   *)
(* buildSubgraph -> build is a stack of frames, and one step handles one   *)
(* instruction or one callee.  The dependence edges are added in whole     *)
(* phases after that, in the order of LLVMDependenceGraphBuilder.          *)
(***************************************************************************)
EXTENDS LLVMProgram, DependenceGraph

VARIABLES
  ir,         \* the module
  constructed,\* constructedFunctions
  stack       \* the active calls of build, innermost first

buildVars == <<dg, constructed, stack>>

Artificial == 255       \* ARTIFICIAL_BBLOCK_LABEL

(* A frame of build(Function): the blocks that are left, the position in   *)
(* the first of them, and the callees its call is still to be linked to.   *)
BuildFrame(f) == [f |-> f, rest |-> BlockList(ir, f), p |-> 1, left |-> <<>>]

Top == Head(stack)
ThisBlock == Head(Top.rest)
ThisInstr == CodeOf(ir, Top.f, ThisBlock)[Top.p]
ThisNode == InstrNode(Top.f, ThisBlock, ThisInstr.i)

InitGraph ==
  /\ dg = EmptyGraph
  /\ constructed = {}
  /\ stack = <<>>

-----------------------------------------------------------------------------
(* Parameters.                                                             *)
(***************************************************************************)
(* addFormalGlobal for the pairs <<f, v>> of P.                            *)
AddFormalGlobals(g, P) ==
  LET new == {p \in P : p[2] \notin ParamsOf(g, <<p[1]>>)} IN
  AddCD(AddParams(g, {<<<<p[1]>>, p[2]>> : p \in new}),
        (UNION {{<<EntryNode(p[1]), ParamIn(<<p[1]>>, p[2])>>,
                 <<EntryNode(p[1]), ParamOut(<<p[1]>>, p[2])>>} : p \in new})
        \cup {<<GlobalNode(p[2]), ParamIn(<<Main>>, p[2])>> :
                p \in {q \in new : q[1] = Main}})

(* addOperandsParams and addGlobalsParams for the calls C, pairs of a node *)
(* and a function: the call gets a parameter for every formal parameter of *)
(* the function, joined with it.                                           *)
AddActualParameters(g, C) ==
  LET new == UNION {{<<c[1], c[2], v>> : v \in ParamsOf(g, <<c[2]>>)} : c \in C} IN
  AddDD(AddCD(AddParams(g, {<<x[1][2], x[3]>> : x \in new}),
              UNION {{<<x[1], ParamIn(x[1][2], x[3])>>,
                      <<x[1], ParamOut(x[1][2], x[3])>>} : x \in new}),
        UNION {{<<ParamIn(x[1][2], x[3]), ParamIn(<<x[2]>>, x[3])>>,
                <<ParamOut(<<x[2]>>, x[3]), ParamOut(x[1][2], x[3])>>} : x \in new})

(* The globals among the formal parameters (key 0 is the argument).        *)
FormalGlobals(g, f) == ParamsOf(g, <<f>>) \ {0}

(* The globals every function has after addSubgraphGlobalParameters(sub)   *)
(* on f: as long as a graph gets new parameters, the graphs of its callers *)
(* get them too.  The recursion is monotone and ends when nothing changes. *)
SpreadGlobals(g, f, sub) ==
  LET has == [h \in constructed |-> FormalGlobals(g, h)]
      callees(h) == {c[2] : c \in {d \in g.callers : GetDG(d[1]) = h}}
      spread(prev) ==
        [h \in constructed |->
           prev[h] \cup UNION {prev[c] : c \in {d \in callees(h) : prev[d] # has[d]}}]
      s[k \in 0 .. 2 * Cardinality(constructed)] ==
        IF k = 0 THEN [has EXCEPT ![f] = @ \cup FormalGlobals(g, sub)]
                 ELSE spread(s[k - 1])
  IN  s[2 * Cardinality(constructed)]

(* Calls through a pointer: addActualParameters(graph) returns.            *)
IsDirect(n) ==
  \E x \in Instructions(ir) : /\ n = InstrNode(x[1], x[2], x[3].i)
                              /\ Len(x[3].fns) = 1

AddSubgraphGlobalParameters(g, f, sub) ==
  LET all == SpreadGlobals(g, f, sub)
      changed == {h \in constructed : all[h] # FormalGlobals(g, h)}
  IN  AddActualParameters(
        AddFormalGlobals(g, UNION {{<<h, v>> : v \in all[h]} : h \in changed}),
        {c \in g.callers : c[2] \in changed /\ IsDirect(c[1])})

(* getOrCreateNoReturn, for the graph of f and for calls.                  *)
AddFormalNoReturn(g, f) ==
  AddCD(AddNodes(g, {NoReturn(<<f>>)}), {<<EntryNode(f), NoReturn(<<f>>)>>})

AddCallNoReturns(g, N) ==
  AddCD(AddNodes(g, {NoReturn(n[2]) : n \in N}), {<<n, NoReturn(n[2])>> : n \in N})

-----------------------------------------------------------------------------
(* Construction.                                                           *)
(***************************************************************************)
(* The beginning of build(Function).                                       *)
BeginFunction(f) ==
  /\ constructed' = constructed \cup {f}
  /\ stack' = <<BuildFrame(f)>> \o stack
  /\ dg' = IF ir[f].arg
           THEN AddCD(AddParams(AddNodes(dg, {EntryNode(f)}), {<<<<f>>, 0>>}),
                      {<<EntryNode(f), ParamIn(<<f>>, 0)>>, <<EntryNode(f), ParamOut(<<f>>, 0)>>})
           ELSE AddNodes(dg, {EntryNode(f)})

(* build(Module): the global nodes, and the entry function.                *)
BuildModule ==
  /\ constructed = {}
  /\ constructed' = {Main}
  /\ stack' = <<BuildFrame(Main)>>
  /\ dg' = AddNodes(dg, {EntryNode(Main)} \cup
                        {GlobalNode(x[3].v) : x \in {y \in Instructions(ir) : y[3].v # 0}})

(* The frame after the current instruction.                                *)
Advanced(fr) ==
  IF fr.p = Len(CodeOf(ir, fr.f, Head(fr.rest)))
  THEN [fr EXCEPT !.rest = Tail(@), !.p = 1, !.left = <<>>]
  ELSE [fr EXCEPT !.p = @ + 1, !.left = <<>>]

(* The unified exit, made by the first return.                             *)
AddReturn(g, n) ==
  AddSuccessor(AddCD(AddNodes(g, {ExitNode(Top.f)}), {<<n, ExitNode(Top.f)>>}),
               <<Top.f, ThisBlock>>, Artificial, <<Top.f, 0>>)

(* An unreachable instruction and the one before it.                       *)
AddUnreachable(g, n) ==
  AddCD(AddFormalNoReturn(g, Top.f),
        {<<n, NoReturn(<<Top.f>>)>>} \cup
        {<<InstrNode(Top.f, ThisBlock, CodeOf(ir, Top.f, ThisBlock)[Top.p - 1].i),
           NoReturn(<<Top.f>>)>> : p \in {Top.p} \ {1}})

(* A new node in its block, and handleInstruction for what is not a call   *)
(* of a defined function.                                                  *)
HandleInstruction ==
  /\ stack # <<>> /\ Top.rest # <<>> /\ Top.left = <<>>
  /\ LET in == ThisInstr
         g == AddNodes(dg, {ThisNode})
         callees == SelectSeq(in.fns, LAMBDA f : HasBody(ir, f))
     IN  /\ dg' = CASE in.op = "unreachable" -> AddUnreachable(g, ThisNode)
                    [] in.op = "ret"  -> AddReturn(g, ThisNode)
                    [] in.v # 0       -> AddFormalGlobals(g, {<<Top.f, in.v>>})
                    [] OTHER          -> g
         /\ stack' = <<IF callees = <<>> THEN Advanced(Top)
                       ELSE [Top EXCEPT !.left = callees]>> \o Tail(stack)
  /\ UNCHANGED constructed

(* buildSubgraph for a callee that has no graph yet.                       *)
BuildCallee ==
  /\ stack # <<>> /\ Top.left # <<>>
  /\ Head(Top.left) \notin constructed
  /\ BeginFunction(Head(Top.left))

(* Mutant: the callers of the function do not get its parameters.          *)
LinkedNoParameters(g, n, f, sub) ==
  [AddCD(g, {<<n, EntryNode(sub)>>}) EXCEPT !.callers = @ \cup {<<n, sub>>}]

(* The rest of buildSubgraph: call edge, parameters, no-return, subgraph.  *)
Linked(g, n, f, sub) ==
  LET withParams ==
        AddActualParameters(
          AddSubgraphGlobalParameters(AddCD(g, {<<n, EntryNode(sub)>>}), f, sub),
          {<<n, sub>>})
      withNoret ==
        IF NoReturn(<<sub>>) \in g.nodes
        THEN AddCD(AddCallNoReturns(withParams, {n}), {<<NoReturn(<<sub>>), NoReturn(n[2])>>})
        ELSE withParams
  IN  [withNoret EXCEPT !.callers = @ \cup {<<n, sub>>}]

LinkCallee ==
  /\ stack # <<>> /\ Top.left # <<>>
  /\ Head(Top.left) \in constructed
  /\ dg' = Linked(dg, ThisNode, Top.f, Head(Top.left))
  /\ stack' = <<IF Tail(Top.left) = <<>> THEN Advanced(Top)
                ELSE [Top EXCEPT !.left = Tail(@)]>> \o Tail(stack)
  /\ UNCHANGED constructed

(* addControlDepsToPHIs: a PHI depends on the last nodes of the blocks it  *)
(* has values from.                                                        *)
PhiDeps(g, f) ==
  UNION {{<<LastNode(g, <<f, j>>), InstrNode(f, x[2], x[3].i)>> :
            j \in Range(x[3].to) \ {x[2]}} :
         x \in {y \in Instructions(ir) : y[1] = f /\ y[3].op = "phi"}}

(* The end of build(Function): control-flow edges, the exit of a function  *)
(* without return, PHI nodes, and the edge from the entry node.            *)
FinishFunction ==
  /\ stack # <<>> /\ Top.rest = <<>>
  /\ LET f == Top.f
         edges == UNION {{<<<<f, k>>, e[1], <<f, e[2]>>>> : e \in SuccEdges(ir, f, k)} :
                           k \in Range(BlockList(ir, f))}
         g == [dg EXCEPT
                 !.blocks = @ \cup {<<f, k>> : k \in Range(BlockList(ir, f))},
                 !.succ = @ \cup edges,
                 !.pred = @ \cup {<<e[3], e[1]>> : e \in edges},
                 !.nodes = IF ExitNode(f) \in @ THEN @ ELSE @ \cup {SingleExit(f)}]
     IN  dg' = AddCD(g, PhiDeps(g, f) \cup
                        {<<EntryNode(f), FirstNode(g, <<f, EntryOf(ir, f)>>)>>})
  /\ stack' = Tail(stack)
  /\ UNCHANGED constructed

Build ==
  \/ BuildModule \/ HandleInstruction \/ BuildCallee \/ LinkCallee \/ FinishFunction

Built == constructed # {} /\ stack = <<>>

-----------------------------------------------------------------------------
(* Def-use edges.                                                          *)
(***************************************************************************)
ExitOf(g, f) == IF ExitNode(f) \in g.nodes THEN ExitNode(f) ELSE SingleExit(f)

(* The blocks the interprocedural data-flow walk visits: from the entry    *)
(* block along successors and into the graphs that blocks call.            *)
VisitedBlocks(g) ==
  LET next(b) ==
        Targets(g, b) \cup
        {<<c[2], EntryOf(ir, c[2])>> : c \in {d \in g.callers : GetBBlock(d[1]) = b}}
      v[k \in 0 .. Cardinality(g.blocks)] ==
        IF k = 0 THEN {<<Main, EntryOf(ir, Main)>>}
        ELSE UNION {prev \cup UNION {next(b) : b \in prev} : prev \in {v[k - 1]}}
  IN  v[Cardinality(g.blocks)] \cap g.blocks

(* handleOperands: the nodes of the operands of an instruction: other      *)
(* instructions, the argument, the variable, a function called directly.   *)
OperandNodes(g, x) ==
  {InstrNode(x[1], a[1], a[2]) : a \in {b \in Range(x[3].args) : b[1] # 0}}
  \cup {ParamIn(<<x[1]>>, 0) : a \in {b \in Range(x[3].args) : b = <<0, Arg>>}}
  \cup {GetGlobal(g, x[1], v) : v \in {x[3].v} \ {0}}
  \cup {EntryNode(f) : f \in {h \in Range(x[3].fns) :
                                 Len(x[3].fns) = 1 /\ h \in constructed}}

UseEdges(g, xs) ==
  UNION {{<<n, InstrNode(x[1], x[2], x[3].i)>> : n \in OperandNodes(g, x)} : x \in xs}

(* ... and what a call returns comes from the exits of its subgraphs.      *)
ReturnEdges(g, uses) ==
  UNION {{<<ExitOf(g, f), e[2]>> : f \in Subgraphs(g, e[1])} : e \in uses}

(* addDataDependencies.  The initial value is looked up in main's graph.   *)
DefinitionNode(g, d, v) ==
  IF d = <<>> THEN GetGlobal(g, Main, v)
              ELSE InstrNode(d[1], d[2], InstrOf(ir, d).i)

MemoryEdges(g, visited) ==
  {<<DefinitionNode(g, d[1], InstrOf(ir, d[2]).v),
     InstrNode(d[2][1], d[2][2], InstrOf(ir, d[2]).i)>> :
     d \in {e \in Definitions(ir) : <<e[2][1], e[2][2]>> \in visited}}

WithDefUse(g, visited) ==
  LET uses == UseEdges(g, {x \in Instructions(ir) : <<x[1], x[2]>> \in visited})
  IN  AddDD(AddUse(g, uses), ReturnEdges(g, uses) \cup MemoryEdges(g, visited))

AddDefUseEdges ==
  /\ Built
  /\ dg' = WithDefUse(dg, VisitedBlocks(dg))
  /\ UNCHANGED <<constructed, stack>>

-----------------------------------------------------------------------------
(* Control dependencies.                                                   *)
(***************************************************************************)
Blocks(f) == Range(BlockList(ir, f))
Ends(m, f) == {k \in Range(BlockList(m, f)) : SuccBlocks(m, f, k) = {}}

(* The blocks of f from which the end of the function is reached without   *)
(* passing the blocks Avoid.                                               *)
ReachesEnd(m, f, Avoid) ==
  LET B == Range(BlockList(m, f)) \ Avoid
      r[n \in 0 .. Cardinality(B)] ==
        IF n = 0 THEN Ends(m, f) \ Avoid
        ELSE UNION {{k \in B : k \in prev \/ SuccBlocks(m, f, k) \cap prev # {}} :
                      prev \in {r[n - 1]}}
  IN  r[Cardinality(B)]

(* LLVM's post-dominator tree: <<k, j>> if j is on all ways from k to the  *)
(* end.                                                                    *)
PostDoms(m, f) ==
  UNION {{<<k, j>> : k \in ReachesEnd(m, f, {}) \ ReachesEnd(m, f, {j})} :
           j \in Range(BlockList(m, f))}

(* setIPostDom: <<k, 0>> where the immediate post-dominator is the root.   *)
IPostDoms(f) ==
  UNION {LET strict(k) == {j \in Blocks(f) \ {k} : <<k, j>> \in pd} IN
         {<<k, 0>> : k \in {h \in ReachesEnd(ir, f, {}) : strict(h) = {}}} \cup
         {p \in pd : /\ p[2] \in strict(p[1])
                     /\ \A i \in strict(p[1]) : <<p[2], i>> \in pd} :
         pd \in {PostDoms(ir, f)}}

(* Mutant: only the predecessors' frontiers, which are not passed up.      *)
PDFrontiersLocal(g, f, ipd) ==
  {<<p[2][2], p[1][2]>> :
     p \in {q \in g.pred : /\ q[1][1] = f /\ q[1][2] # 0
                           /\ \E i \in ipd : i[1] = q[2][2] /\ i[2] # q[1][2]}}

(* PostDominanceFrontiers::compute: pairs of a frontier block and a block, *)
(* which are the control dependencies.                                     *)
PDFrontiers(g, f, ipd) ==
  LET ipdom(k) == {p[2] : p \in {q \in ipd : q[1] = k}}
      local == {<<p[2][2], p[1][2]>> :
                  p \in {q \in g.pred : /\ q[1][1] = f /\ q[1][2] # 0
                                        /\ \E i \in ipdom(q[2][2]) : i # q[1][2]}}
      up(prev) ==
        prev \cup UNION {{<<e[1], p[2]>> : p \in {q \in ipd :
                            /\ q[1] = e[2] /\ q[2] \notin {0, e[1]}
                            /\ \E i \in ipdom(e[1]) : i # q[2]}} : e \in prev}
      pdf[n \in 0 .. Cardinality(Blocks(f))] ==
        IF n = 0 THEN local ELSE up(pdf[n - 1])
  IN  pdf[Cardinality(Blocks(f))]

BlockPairs(f, E) == {<<<<f, e[1]>>, <<f, e[2]>>>> : e \in E}

(* computePostDominators; a function that cannot end has no tree, and all  *)
(* blocks depend on their predecessors.                                    *)
StandardCD(g, f) ==
  IF ReachesEnd(ir, f, {}) = {}
  THEN {<<e[1], e[3]>> : e \in {d \in g.succ : d[1][1] = f}}
  ELSE BlockPairs(f, PDFrontiers(g, f, IPostDoms(f)))

(* The blocks from which a maximal path avoids t.                          *)
AvoidingBlocks(f, t) ==
  LET a[n \in 0 .. Cardinality(Blocks(f))] ==
        IF n = 0 THEN Blocks(f) \ {t}
        ELSE UNION {{k \in prev : k \in Ends(ir, f) \/ SuccBlocks(ir, f, k) \cap prev # {}} :
                      prev \in {a[n - 1]}}
  IN  a[Cardinality(Blocks(f))]

(* Mutant: the dependencies are those of the post-dominator tree.          *)
TerminationInsensitive(f) == PDFrontiers(dg, f, IPostDoms(f))

(* What LLVMControlDependenceAnalysis answers for blocks: NTSCD.           *)
NTSCD(f) ==
  UNION {UNION {{<<p, t>> : p \in {q \in Blocks(f) :
                   SuccBlocks(ir, f, q) \cap av # {} /\ ~(SuccBlocks(ir, f, q) \subseteq av)}} :
                av \in {AvoidingBlocks(f, t)}} : t \in Blocks(f)}

-----------------------------------------------------------------------------
(* Calls that may not return: the answers of LLVMInterprocCD, which has no *)
(* pointer analysis here and sees direct calls only.                       *)
(***************************************************************************)
DirectCalls(f) ==
  {x \in Instructions(ir) : x[1] = f /\ IsCall(x[3]) /\ Len(x[3].fns) = 1
                                     /\ HasBody(ir, Head(x[3].fns))}

CalledFrom(f) ==
  LET calls(h) == {Head(x[3].fns) : x \in DirectCalls(h)}
      r[n \in DOMAIN ir] ==
        IF n = 1 THEN calls(f)
        ELSE UNION {prev \cup UNION {calls(h) : h \in prev} : prev \in {r[n - 1]}}
  IN  r[Len(ir)]

(* Blocks that end without a successor and without a return.               *)
NoReturnEnds(f) ==
  {x \in Instructions(ir) : x[1] = f /\ x[3].op = "unreachable"}

MayNotReturn(f) ==
  \E h \in {f} \cup CalledFrom(f) : NoReturnEnds(h) # {} \/ h \in CalledFrom(h)

(* getNoReturns.                                                           *)
GetNoReturns(f) ==
  NoReturnEnds(f) \cup {x \in DirectCalls(f) : MayNotReturn(Head(x[3].fns))}

NodeAt(x) == InstrNode(x[1], x[2], x[3].i)

BlocksAfter(f, k) ==
  LET r[n \in 0 .. Cardinality(Blocks(f))] ==
        IF n = 0 THEN SuccBlocks(ir, f, k)
        ELSE UNION {prev \cup UNION {SuccBlocks(ir, f, j) : j \in prev} : prev \in {r[n - 1]}}
  IN  r[Cardinality(Blocks(f))]

(* getDependencies(instruction): what may follow a call depends on it.     *)
InterprocDeps(f) ==
  UNION {{<<NodeAt(x), NodeAt(y)>> : y \in {z \in Instructions(ir) :
            z[1] = f /\ (z[2] \in BlocksAfter(f, x[2]) \/ (z[2] = x[2] /\ z[3].i > x[3].i))}} :
         x \in {w \in GetNoReturns(f) : IsCall(w[3])}}

(* computeNTSCD, with the interprocedural part of the answers.             *)
WithNTSCD(g) ==
  AddCD(AddBlockCD(g, UNION {BlockPairs(f, NTSCD(f)) : f \in constructed}),
        UNION {InterprocDeps(f) : f \in constructed})

WithStandardCD(g) == AddBlockCD(g, UNION {StandardCD(g, f) : f \in constructed})

(* addNoreturnDependencies(opts), first part: formal no-return nodes, one  *)
(* for every call of the function, and what they depend on.                *)
WithNoReturns(g) ==
  LET fs == {f \in constructed : GetNoReturns(f) # {}}
      calls == {x \in UNION {GetNoReturns(f) : f \in fs} : IsCall(x[3])}
      callers == {c \in g.callers : c[2] \in fs}
  IN  AddCD(AddCallNoReturns(AddNodes(g, {NoReturn(<<f>>) : f \in fs}),
                             {c[1] : c \in callers} \cup {NodeAt(x) : x \in calls}),
            {<<EntryNode(f), NoReturn(<<f>>)>> : f \in fs}
            \cup {<<NoReturn(<<c[2]>>), NoReturn(c[1][2])>> : c \in callers}
            \cup UNION {{<<IF IsCall(x[3]) THEN NoReturn(NodeAt(x)[2]) ELSE NodeAt(x),
                           NoReturn(<<f>>)>> : x \in GetNoReturns(f)} : f \in fs})

GraphAfter(g, b) ==
  LET r[n \in 0 .. Cardinality(g.blocks)] ==
        IF n = 0 THEN Targets(g, b)
        ELSE UNION {prev \cup UNION {Targets(g, c) : c \in prev} : prev \in {r[n - 1]}}
  IN  r[Cardinality(g.blocks)]

(* The second part: whatever may come after a call with a no-return        *)
(* parameter depends on that parameter.                                    *)
NoReturnFollowers(g) ==
  UNION {{<<NoReturn(n[2]), m>> :
            m \in {x \in g.nodes :
                     \/ GetBBlock(x) \in GraphAfter(g, GetBBlock(n))
                     \/ GetBBlock(x) = GetBBlock(n) /\ x[2][3] > n[2][3]}} :
         n \in {x \in g.nodes : x[1] = "inst" /\ NoReturn(x[2]) \in g.nodes}}

WithFollowers(g) == AddCD(g, NoReturnFollowers(g))

WithCD(g) ==
  IF opts.cda = "standard" THEN WithFollowers(WithStandardCD(g))
                           ELSE WithFollowers(WithNoReturns(WithNTSCD(g)))

ComputeControlDependencies ==
  /\ Built
  /\ dg' = WithCD(dg)
  /\ UNCHANGED <<constructed, stack>>

=============================================================================
