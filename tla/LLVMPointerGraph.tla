------------------------- MODULE LLVMPointerGraph ---------------------------
(***************************************************************************)
(* LLVMPointerGraphBuilder (lib/llvm/PointerAnalysis): from an LLVM module *)
(* to the nodes that the pointer analysis works on.  The builder first     *)
(* creates everything that direct calls reach from the entry function;     *)
(* functions that are called via pointers are built and connected while    *)
(* the analysis runs (insertFunctionCall).                                 *)
(*                                                                         *)
(* An operator takes the graph g built so far and returns the graph with   *)
(* what it adds; g holds the builder's tables next to the nodes.           *)
(*                                                                         *)
(* An LLVM module M:                                                       *)
(*   fun    function -> [args, vararg, blocks : Seq([ins, succ])]          *)
(*   decl   undefined function -> what it is                               *)
(*   glob   the global variables: Seq([name, size, init])                  *)
(*   expr   constant expression -> [op, arg, k]                            *)
(*   ins    instruction -> [op, args, k, fun]; k is a size, an offset or a *)
(*          length, fun is what a call calls; loadvalue, retvalue and      *)
(*          retvector load and return aggregates and vectors               *)
(* Other names ("null", "int", "undef") are plain constants.               *)
(***************************************************************************)
EXTENDS PointerAnalysis

EmptyGraph(M) ==
  [M       |-> M,
   last    |-> 0,                             \* the last node created
   type    |-> [x \in Node |-> "NOOP"],
   op      |-> [x \in Node |-> <<>>],
   succ    |-> [x \in Node |-> <<>>],
   size    |-> [x \in Node |-> 0],
   off     |-> [x \in Node |-> 0],
   pts     |-> [x \in Node |-> {}],           \* points-to sets after creation
   zero    |-> {},
   globals |-> <<>>,
   root    |-> 1,
   callees |-> [x \in Node |-> <<>>],         \* of CALL nodes: roots
   returns |-> [x \in Node |-> <<>>],         \* of RETURN nodes: return sites
   paired  |-> [x \in Node |-> 0],
   user    |-> [x \in Node |-> "none"],       \* getUserData()
   nodes_map |-> <<>>,                        \* value -> [nodes, repr]
   subgraphs |-> <<>>,                        \* function -> [root, vararg, rets]
   structured |-> {},                         \* FuncGraph::has_structure
   calls   |-> {},                            \* the call graph
   ad_hoc  |-> FALSE]                         \* ad_hoc_building

Returning == {"ret", "retvalue", "retvector"}

Functions(g) == DOMAIN g.M.fun \cup DOMAIN g.M.decl
Built(g, v) == v \in DOMAIN g.nodes_map
NodesOf(g, v) == g.nodes_map[v].nodes

FunctionOf(g, i) ==
  CHOOSE f \in DOMAIN g.M.fun :
    \E b \in DOMAIN g.M.fun[f].blocks : i \in Range(g.M.fun[f].blocks[b].ins)

-----------------------------------------------------------------------------
(* PS.create<type>(ops, off).                                              *)
Create(g, type, ops, off) ==
  LET x == g.last + 1 IN
  [g EXCEPT !.last = x, !.type[x] = type, !.op[x] = ops, !.off[x] = off,
            !.pts[x] = IF type \in {"ALLOC", "FUNCTION"} THEN {<<x, 0>>}
                       ELSE IF type = "CONSTANT" THEN {<<ops[1], off>>} ELSE {}]

CreateAllocation(g, size) ==
  LET h == Create(g, "ALLOC", <<>>, 0) IN [h EXCEPT !.size[h.last] = size]

(* addNode(value, sequence).                                               *)
AddNodes(g, v, nodes, repr) ==
  [g EXCEPT !.nodes_map = (v :> [nodes |-> nodes, repr |-> repr]) @@ @,
            !.user[repr] = v]

AddLast(g, v) == AddNodes(g, v, <<g.last>>, g.last)

AddSuccessor(g, x, y) == [g EXCEPT !.succ[x] = Append(@, y)]

(* PSNodesSequenceAddSuccessors and, for the nodes of a block one after    *)
(* the other, PSNodesBlockAddSuccessors.                                   *)
Linked(g, nodes) ==
  FoldLeft(LAMBDA h, k : AddSuccessor(h, nodes[k], nodes[k + 1]), g,
           [k \in 1 .. Len(nodes) - 1 |-> k])

(* Nothing is added twice (hasOperand, addCallee, addReturnSite).          *)
AppendNew(s, x) == IF x \in Range(s) THEN s ELSE Append(s, x)

AddOperand(g, x, o) == [g EXCEPT !.op[x] = AppendNew(@, o)]

-----------------------------------------------------------------------------
(* Operands and constants.                                                 *)
(***************************************************************************)
(* The pointers of a node that only the builder has set.                   *)
StaticPointsTo(g, x) ==
  IF x = NULLPTR THEN {NullPointer}
  ELSE IF x = UNKNOWN_MEMORY THEN {UnknownPointer} ELSE g.pts[x]

(* tryGetOperand() for values that have nodes; null and other constants    *)
(* have none; of calls the paired node counts.                             *)
Operand(g, v) ==
  IF Built(g, v)
  THEN LET x == g.nodes_map[v].repr IN
       IF g.type[x] \in {"CALL", "CALL_FUNCPTR"} THEN g.paired[x] ELSE x
  ELSE IF v = "null" THEN NULLPTR ELSE UNKNOWN_MEMORY

(* tryGetOperand() finds something.                                        *)
HasOperand(g, v) == Built(g, v) \/ v \in {"null", "int", "undef"}

(* Offset::operator+.                                                      *)
PlusOffset(o, p) == IF UNKNOWN \in {o, p} \/ o + p >= UNKNOWN THEN UNKNOWN ELSE o + p

(* handleConstantGep(): the offset replaces the one of the operand.        *)
ConstantGep(c, ptr) == IF UNKNOWN \in {ptr[2], c.k} THEN ptr ELSE <<ptr[1], c.k>>

(* handleConstantBitCast() and handleConstantPtrToInt().                   *)
ConstantCast(c, ptr) == ptr

(* handleConstantIntToPtr(): a number may be any address.                  *)
ConstantIntToPtr(c, ptr) == IF c.arg = "int" THEN UnknownPointer ELSE ptr

(* handleConstantAdd().                                                    *)
ConstantAdd(c, ptr) == <<ptr[1], PlusOffset(ptr[2], c.k)>>

(* handleConstantArithmetic().                                             *)
ConstantArithmetic(c, ptr) == <<ptr[1], UNKNOWN>>

(* getConstantExprPointer(); nothing is known of bit operations.           *)
ConstantExprPointer(c, ptr) ==
  CASE c.op = "gep" -> ConstantGep(c, ptr)
    [] c.op = "cast" -> ConstantCast(c, ptr)
    [] c.op = "inttoptr" -> ConstantIntToPtr(c, ptr)
    [] c.op = "add" -> ConstantAdd(c, ptr)
    [] c.op = "arithmetic" -> ConstantArithmetic(c, ptr)
    [] OTHER -> UnknownPointer

(* getConstant(): nodes for functions and constant expressions are created *)
(* when they are first asked for.                                          *)
RECURSIVE WithOperand(_, _)
WithOperand(g, v) ==
  IF Built(g, v) THEN g
  ELSE IF v \in Functions(g) THEN AddLast(Create(g, "FUNCTION", <<>>, 0), v)
  ELSE IF v \in DOMAIN g.M.expr
  THEN LET c == g.M.expr[v]
           h == WithOperand(g, c.arg)
           ptr == ConstantExprPointer(
                    c, CHOOSE p \in StaticPointsTo(h, Operand(h, c.arg)) : TRUE)
       IN  AddLast(Create(h, "CONSTANT", <<ptr[1]>>, ptr[2]), v)
  ELSE g

WithOperands(g, values) == FoldLeft(WithOperand, g, values)

Operands(g, values) == [k \in DOMAIN values |-> Operand(g, values[k])]

(* stripInBoundsOffsets().                                                 *)
RECURSIVE StripOffsets(_, _)
StripOffsets(M, v) ==
  IF v \in DOMAIN M.ins /\ M.ins[v].op \in {"gep", "bitcast"}
  THEN StripOffsets(M, M.ins[v].args[1])
  ELSE IF v \in DOMAIN M.expr THEN StripOffsets(M, M.expr[v].arg) ELSE v

-----------------------------------------------------------------------------
(* Global variables.                                                       *)
(***************************************************************************)
(* handleGlobalVariableInitializer() for <<offset, constant>>.  A null in  *)
(* any part makes the whole object count as zero-initialized.              *)
InitializeGlobal(g, v, part) ==
  LET x == g.nodes_map[v].repr
      h == WithOperand(g, part[2])
      t == Create(h, "CONSTANT", <<x>>, part[1])
      s == Create(t, "STORE", <<Operand(h, part[2]), t.last>>, 0)
  IN  CASE part[2] = "null" -> [g EXCEPT !.zero = @ \cup {x}]
        [] part[2] = "int" -> g
        [] OTHER -> [s EXCEPT !.globals = @ \o <<t.last, s.last>>]

CreateGlobal(g, G) ==
  LET h == CreateAllocation(g, G.size) IN
  [AddLast(h, G.name) EXCEPT !.globals = Append(@, h.last)]

BuildGlobals(g) ==
  FoldLeft(LAMBDA h, G : FoldLeft(LAMBDA k, part : InitializeGlobal(k, G.name, part),
                                  h, G.init),
           FoldLeft(CreateGlobal, g, g.M.glob), g.M.glob)

-----------------------------------------------------------------------------
(* Calls of undefined functions: a sequence of nodes that ends in the last *)
(* one created.                                                            *)
(***************************************************************************)
Sequence(g, h, repr) ==
  [g |-> h, nodes |-> [k \in 1 .. h.last - g.last |-> g.last + k], repr |-> repr]

(* createDynamicAlloc().                                                   *)
CreateDynamicAlloc(g, i, kind) ==
  LET h == CreateAllocation(g, g.M.ins[i].k) IN
  Sequence(g, IF kind = "calloc" THEN [h EXCEPT !.zero = @ \cup {h.last}] ELSE h, h.last)

(* createRealloc(): new memory, to which everything is copied.             *)
CreateRealloc(g0, i) ==
  LET I == g0.M.ins[i]
      g == WithOperand(g0, I.args[1])
      a == [CreateAllocation(g, I.k) EXCEPT !.user[g.last + 1] = i]
      c == Create(a, "MEMCPY", <<Operand(g, I.args[1]), a.last>>, UNKNOWN)
      p == Create(c, "CONSTANT", <<a.last>>, 0)
  IN  Sequence(g, p, p.last)

(* createMemTransfer(), and memcpy as a library function.                  *)
CreateMemTransfer(g0, i) ==
  LET I == g0.M.ins[i]
      g == WithOperands(g0, <<I.args[1], I.args[2]>>)
      h == Create(g, "MEMCPY", <<Operand(g, I.args[2]), Operand(g, I.args[1])>>, I.k)
  IN  Sequence(g, h, h.last)

(* createMemSet(); the value is the second argument.                       *)
CreateMemSet(g0, i) ==
  LET I == g0.M.ins[i]
      v == StripOffsets(g0.M, I.args[1])
      g == WithOperand(g0, v)
      p == Create(g, "GEP", <<Operand(g, v)>>, UNKNOWN)
      s == Create(p, "STORE", <<Operand(g, I.args[2]), p.last>>, 0)
  IN  Sequence(g, s, s.last)

(* createVarArg(): vastart is memory with the variadic arguments.          *)
CreateVarArg(g0, i) ==
  LET v == StripOffsets(g0.M, g0.M.ins[i].args[1])
      g == WithOperand(g0, v)
      a == Create(g, "ALLOC", <<>>, 0)
      p == Create(a, "GEP", <<Operand(g, v)>>, UNKNOWN)
      s == Create(p, "STORE", <<a.last, p.last>>, 0)
      t == Create(s, "STORE", <<g.subgraphs[FunctionOf(g, i)].vararg, a.last>>, 0)
  IN  Sequence(g, t, a.last)

(* createUnknownCall(): the result may point anywhere.                     *)
CreateUnknownCall(g) ==
  LET h == Create(g, "CALL", <<>>, 0) IN
  Sequence(g, [h EXCEPT !.paired[h.last] = h.last, !.pts[h.last] = {UnknownPointer}], h.last)

CreateUndefFunctionCall(g, i, f) ==
  CASE g.M.decl[f] \in {"malloc", "calloc"} -> CreateDynamicAlloc(g, i, g.M.decl[f])
    [] g.M.decl[f] = "realloc" -> CreateRealloc(g, i)
    [] g.M.decl[f] = "memcpy" -> CreateMemTransfer(g, i)
    [] g.M.decl[f] = "vastart" -> CreateVarArg(g, i)
    [] OTHER -> CreateUnknownCall(g)

(* isRelevantInstruction() and isRelevantCall().                           *)
IsRelevant(M, i) ==
  LET I == M.ins[i] IN
  /\ I.op \notin {"icmp", "br"}
  /\ I.op = "call" /\ I.fun \in DOMAIN M.decl => M.decl[I.fun] \notin {"memset", "void"}

(* checkMemSet(): memset is not relevant; zeroed local variables are       *)
(* marked, for other memory nodes are created that no block gets.          *)
AddSequence(s, i) == AddNodes(s.g, i, s.nodes, s.repr)

CheckMemSet(g, i) ==
  LET I == g.M.ins[i]
      v == StripOffsets(g.M, I.args[1])
  IN  IF I.args[2] # "null" THEN g
      ELSE IF v \in DOMAIN g.M.ins /\ g.M.ins[v].op = "alloca"
      THEN [g EXCEPT !.zero = @ \cup {Operand(g, v)}]
      ELSE AddSequence(CreateMemSet(g, i), i)

-----------------------------------------------------------------------------
(* Instructions.                                                           *)
(***************************************************************************)
(* createInsertElement(): vectors live in temporary memory, and every      *)
(* instruction makes a copy.  args: vector, element; k: the index.         *)
CreateInsertElement(g0, i) ==
  LET I == g0.M.ins[i]
      g == WithOperands(g0, I.args)
      a == CreateAllocation(g, 2)
      c == IF I.args[1] = "undef" THEN a
           ELSE Create(a, "MEMCPY", <<Operand(g, I.args[1]), a.last>>, UNKNOWN)
      p == Create(c, "GEP", <<a.last>>, I.k)
      s == Create(p, "STORE", <<Operand(g, I.args[2]), p.last>>, 0)
      nodes == [k \in 1 .. s.last - g.last |-> g.last + k]
  IN  AddNodes(Linked(s, nodes), i, nodes, a.last)

(* createExtractElement(); for aggregates (of structure type)              *)
(* createExtract() with the offset of the field.                           *)
CreateExtractElement(g0, i) ==
  LET I == g0.M.ins[i]
      g == WithOperands(g0, I.args)
      p == Create(g, "GEP", <<Operand(g, I.args[1])>>, I.k)
      l == Create(p, "LOAD", <<p.last>>, 0)
  IN  AddNodes(AddSuccessor(l, p.last, l.last), i, <<p.last, l.last>>, l.last)

CreateExtract(g, i) == CreateExtractElement(g, i)

(* createAtomicRMW() for xchg, of args[2] with the memory args[1].         *)
CreateAtomicRMW(g0, i) ==
  LET I == g0.M.ins[i]
      g == WithOperands(g0, I.args)
      r == Create(g, "LOAD", <<Operand(g, I.args[1])>>, 0)
      w == Create(r, "STORE", <<Operand(g, I.args[2]), Operand(g, I.args[1])>>, 0)
  IN  AddNodes(w, i, <<r.last, w.last>>, w.last)

(* createFuncptrCall().                                                    *)
CreateFuncptrCall(g0, i) ==
  LET I == g0.M.ins[i]
      g == WithOperand(g0, I.fun)
      c == Create(g, "CALL_FUNCPTR", <<Operand(g, I.fun)>>, 0)
      r == Create(c, "CALL_RETURN", <<>>, 0)
  IN  AddNodes([r EXCEPT !.paired[c.last] = r.last, !.paired[r.last] = c.last,
                         !.user[c.last] = i],
               i, <<c.last, r.last>>, r.last)

(* Instructions with one node, of operands that have their nodes.          *)
(* createStore(): what atomicrmw returns is what it has loaded.            *)
StoredOperand(g, v) ==
  IF v \in DOMAIN g.M.ins /\ g.M.ins[v].op = "atomicrmw"
  THEN IF Built(g, v) THEN NodesOf(g, v)[1] ELSE UNKNOWN_MEMORY
  ELSE Operand(g, v)

CreateStore(g, I) ==
  Create(g, "STORE", <<StoredOperand(g, I.args[1]), Operand(g, I.args[2])>>, 0)

CreateLoad(g, I) == Create(g, "LOAD", Operands(g, I.args), 0)

(* createGEP(): offsets that are too large become unknown.                 *)
CreateGEP(g, I) ==
  Create(g, "GEP", Operands(g, I.args), IF I.k < FieldSensitivity THEN I.k ELSE UNKNOWN)

CreateSelect(g, I) == Create(g, "PHI", Operands(g, I.args), 0)

(* createPHI(): the operands come when the function is built.              *)
CreatePHI(g) == Create(g, "PHI", <<>>, 0)

CreateCast(g, I) == Create(g, "CAST", Operands(g, I.args), 0)

CreatePtrToInt(g, I) == Create(g, "GEP", Operands(g, I.args), 0)

(* createIntToPtr(): a constant may be any address.                        *)
CreateIntToPtr(g, I) ==
  Create(g, "CAST",
         <<IF I.args[1] \in DOMAIN g.M.ins THEN Operand(g, I.args[1]) ELSE UNKNOWN_MEMORY>>, 0)

CreateUnknown(g) == Create(g, "CONSTANT", <<UNKNOWN_MEMORY>>, UNKNOWN)

(* createAdd() and createArithmetic().  A constant operand is k, not one   *)
(* of args; of other operands the first one that is built counts.          *)
ShiftedNode(g, I, off) ==
  LET built == SelectSeq(I.args, LAMBDA v : HasOperand(g, v)) IN
  IF built = <<>> THEN CreateUnknown(g)
  ELSE Create(g, "GEP", <<Operand(g, built[1])>>, off)

CreateAdd(g, I) == ShiftedNode(g, I, IF Len(I.args) = 1 THEN I.k ELSE UNKNOWN)

CreateArithmetic(g, I) == ShiftedNode(g, I, UNKNOWN)

(* createReturn(): for a loaded aggregate the address of the variable is   *)
(* returned, for a vector its memory.                                      *)
ReturnedAggregate(g, v) ==
  IF v \in DOMAIN g.M.ins /\ g.M.ins[v].op = "loadvalue"
  THEN Operand(g, g.M.ins[v].args[1]) ELSE UNKNOWN_MEMORY

ReturnedVector(g, v) ==
  IF g.type[Operand(g, v)] = "ALLOC" THEN Operand(g, v) ELSE UNKNOWN_MEMORY

CreateReturn(g, I) ==
  Create(g, "RETURN",
         CASE I.op = "retvalue" -> <<ReturnedAggregate(g, I.args[1])>>
           [] I.op = "retvector" -> <<ReturnedVector(g, I.args[1])>>
           [] OTHER -> Operands(g, SelectSeq(I.args, LAMBDA v : v # "int")), 0)

(* The cases of buildInstruction() in which one node is created.           *)
SimpleNode(g, I) ==
  CASE I.op = "alloca" -> CreateAllocation(g, I.k)
    [] I.op = "store" -> CreateStore(g, I)
    [] I.op \in {"load", "loadvalue"} -> CreateLoad(g, I)
    [] I.op = "gep" -> CreateGEP(g, I)
    [] I.op = "select" -> CreateSelect(g, I)
    [] I.op = "bitcast" -> CreateCast(g, I)
    [] I.op = "ptrtoint" -> CreatePtrToInt(g, I)
    [] I.op = "inttoptr" -> CreateIntToPtr(g, I)
    [] I.op = "add" -> CreateAdd(g, I)
    [] I.op = "arithmetic" -> CreateArithmetic(g, I)
    [] I.op \in Returning -> CreateReturn(g, I)
    [] OTHER -> CreateUnknown(g)

CreateSimple(g, i) ==
  IF g.M.ins[i].op = "phi" THEN AddLast(CreatePHI(g), i)
  ELSE AddLast(SimpleNode(WithOperands(g, g.M.ins[i].args), g.M.ins[i]), i)

-----------------------------------------------------------------------------
(* Connecting functions.                                                   *)
(***************************************************************************)
DirectCalls(g, f) ==
  SetToSeq({i \in DOMAIN g.M.ins : g.M.ins[i].op = "call" /\ g.M.ins[i].fun = f})

AddValueOperand(g, x, v) == IF HasOperand(g, v) THEN AddOperand(g, x, Operand(g, v)) ELSE g

(* addArgumentOperands(CI, arg, idx).                                      *)
AddArgumentOperand(g, i, x, k) ==
  AddValueOperand(WithOperand(g, g.M.ins[i].args[k]), x, g.M.ins[i].args[k])

(* addArgumentsOperands(), from one call.                                  *)
AddArgumentsOperands(g, f, i) ==
  FoldLeft(LAMBDA h, k : AddArgumentOperand(h, i, g.nodes_map[g.M.fun[f].args[k]].repr, k),
           g, [k \in DOMAIN g.M.fun[f].args |-> k])

(* addVariadicArgumentOperands() begins with the last named argument; the  *)
(* index is unsigned, so there is none in a function without.              *)
AddVariadicArgumentOperands(g, f, i) ==
  LET named == Len(g.M.fun[f].args) IN
  IF named = 0 THEN g
  ELSE FoldLeft(LAMBDA h, k : AddArgumentOperand(h, i, g.subgraphs[f].vararg, k + named - 1),
                g, [k \in 1 .. Len(g.M.ins[i].args) - named + 1 |-> k])

(* Mutant: only the first return of a function counts.                     *)
AddFirstReturnOperand(g, f, call) ==
  [AddOperand(g, g.paired[call], g.subgraphs[f].rets[1])
     EXCEPT !.returns[g.subgraphs[f].rets[1]] = Append(@, g.paired[call])]

(* addReturnNodeOperand() for all return nodes of f.                       *)
AddReturnNodesOperands(g, f, call) ==
  FoldLeft(LAMBDA h, r : [AddOperand(h, h.paired[call], r)
                            EXCEPT !.returns[r] = AppendNew(@, h.paired[call])],
           g, g.subgraphs[f].rets)

AddOperandsOfCall(g, f, i) ==
  IF g.M.fun[f].vararg
  THEN AddVariadicArgumentOperands(AddArgumentsOperands(g, f, i), f, i)
  ELSE AddArgumentsOperands(g, f, i)

(* addInterproceduralOperands(F, subg, CI, callNode).                      *)
AddInterproceduralOperands(g, f, i, call) ==
  IF g.subgraphs[f].rets # <<>> THEN AddReturnNodesOperands(AddOperandsOfCall(g, f, i), f, call)
  ELSE [AddOperandsOfCall(g, f, i) EXCEPT !.succ[call] = <<>>]

AddReturnsIfBuilt(g, f, i) ==
  IF Built(g, i) THEN AddReturnNodesOperands(g, f, NodesOf(g, i)[1]) ELSE g

(* addInterproceduralOperands(F, subg): for all direct calls; return nodes *)
(* are added only to the calls that were built.                            *)
AddAllInterproceduralOperands(g, f) ==
  FoldLeft(LAMBDA h, i : AddReturnsIfBuilt(AddOperandsOfCall(h, f, i), f, i),
           g, DirectCalls(g, f))

-----------------------------------------------------------------------------
(* Control flow.                                                           *)
(***************************************************************************)
Blocks(g, f) == g.M.fun[f].blocks

(* Blocks that f can reach from S without entering those in X.             *)
ReachedBlocks(g, f, S, X) ==
  LET B == Blocks(g, f)
      r[k \in 0 .. Len(B)] ==
        IF k = 0 THEN S \ X
        ELSE UNION {(prev \cup UNION {Range(B[b].succ) : b \in prev}) \ X : prev \in {r[k - 1]}}
  IN  r[Len(B)]

Dominators(g, f, b) ==
  {d \in DOMAIN Blocks(g, f) : b \notin ReachedBlocks(g, f, {1}, {d})}

(* getBasicBlocksInDominatorOrder(): level by level.                       *)
DominatorOrder(g, f) ==
  SetToSortSeq(ReachedBlocks(g, f, {1}, {}),
    LAMBDA b, c : LET l == Cardinality(Dominators(g, f, b))
                      m == Cardinality(Dominators(g, f, c))
                  IN  l < m \/ (l = m /\ b < c))

Relevant(g, f, b) == SelectSeq(Blocks(g, f)[b].ins, LAMBDA i : IsRelevant(g.M, i))

IsBuilt(g, f, b) == Relevant(g, f, b) # <<>> /\ b \in ReachedBlocks(g, f, {1}, {})

BlockNodes(g, f, b) ==
  FlattenSeq([k \in DOMAIN Relevant(g, f, b) |-> NodesOf(g, Relevant(g, f, b)[k])])

(* blockAddSuccessors(): blocks without nodes are passed through.          *)
NextBuilt(g, f, b) ==
  LET built == {c \in DOMAIN Blocks(g, f) : IsBuilt(g, f, c)}
      through == ReachedBlocks(g, f, Range(Blocks(g, f)[b].succ), built)
  IN  SetToSortSeq(built \cap (Range(Blocks(g, f)[b].succ)
                                 \cup UNION {Range(Blocks(g, f)[c].succ) : c \in through}),
                   <)

AddBlockSuccessors(g, f, b, x) ==
  FoldLeft(LAMBDA h, c : AddSuccessor(h, x, BlockNodes(g, f, c)[1]), g, NextBuilt(g, f, b))

(* connectArguments(): the root, the arguments and the variadic one.       *)
EntryNodes(g, f) ==
  LET s == g.subgraphs[f] IN
  <<s.root>> \o [k \in DOMAIN g.M.fun[f].args |-> g.nodes_map[g.M.fun[f].args[k]].repr]
    \o (IF s.vararg = 0 THEN <<>> ELSE <<s.vararg>>)

(* addProgramStructure() and addCFGEdges().                                *)
AddProgramStructure(g, f) ==
  LET entry == EntryNodes(g, f)
      built == SetToSortSeq({b \in DOMAIN Blocks(g, f) : IsBuilt(g, f, b)}, <)
      args  == Linked(g, entry)
      start == IF IsBuilt(g, f, 1)
               THEN AddSuccessor(args, Last(entry), BlockNodes(g, f, 1)[1])
               ELSE AddBlockSuccessors(args, f, 1, Last(entry))
      inner == FoldLeft(LAMBDA h, b : Linked(h, BlockNodes(g, f, b)), start, built)
      all   == FoldLeft(LAMBDA h, b : AddBlockSuccessors(h, f, b, Last(BlockNodes(g, f, b))),
                        inner, built)
  IN  IF f \in g.structured THEN g ELSE [all EXCEPT !.structured = @ \cup {f}]

-----------------------------------------------------------------------------
(* Building functions.                                                     *)
(***************************************************************************)
(* createArgument() for every argument.                                    *)
BuildArguments(g, f) ==
  FoldLeft(LAMBDA h, a : AddLast(Create(h, "PHI", <<>>, 0), a), g, g.M.fun[f].args)

(* addPHIOperands(F), after all blocks.                                    *)
AddPHIOperands(g, f) ==
  FoldLeft(LAMBDA h, i : FoldLeft(LAMBDA k, v : AddValueOperand(WithOperand(k, v),
                                                  h.nodes_map[i].repr, v),
                                  h, g.M.ins[i].args),
           g, SelectSeq(FlattenSeq([b \in DOMAIN Blocks(g, f) |-> Blocks(g, f)[b].ins]),
                        LAMBDA i : g.M.ins[i].op = "phi" /\ Built(g, i)))

RECURSIVE BuildFunction(_, _)

StructuredAdHoc(g, f) == IF g.ad_hoc THEN AddProgramStructure(g, f) ELSE g

(* createOrGetSubgraph().                                                  *)
CreateOrGetSubgraph(g, f) ==
  IF f \in DOMAIN g.subgraphs THEN g
  ELSE StructuredAdHoc(BuildFunction(g, f), f)

(* getAndConnectSubgraph(): the call edge and the call graph.              *)
Connected(g, caller, f, call) ==
  LET root == g.subgraphs[f].root IN
  [WithOperands(g, <<caller, f>>)
     EXCEPT !.callees[call] = AppendNew(@, root),
            !.calls = @ \cup {<<caller, f>>}]

GetAndConnectSubgraph(g, f, i, call) ==
  Connected(CreateOrGetSubgraph(g, f), FunctionOf(g, i), f, call)

Paired(g, call, ret) == [g EXCEPT !.paired[call] = ret, !.paired[ret] = call]

(* The nodes of a call; with ad hoc building the operands are added now.   *)
WithCallReturn(g, i, f, call, ret) ==
  LET p == Paired(Create(g, "CALL_RETURN", <<>>, 0), call, ret) IN
  AddNodes(IF g.ad_hoc THEN AddInterproceduralOperands(p, f, i, call) ELSE p,
           i, <<call, ret>>, ret)

ReturnFrom(g, i, f, call) == WithCallReturn(g, i, f, call, g.last + 1)

CreateCallToFunction(g, i, f) ==
  ReturnFrom(GetAndConnectSubgraph(Create(g, "CALL", <<>>, 0), f, i, g.last + 1),
             i, f, g.last + 1)

(* createCall().                                                           *)
CreateCall(g, i) ==
  LET f == g.M.ins[i].fun IN
  IF f \in DOMAIN g.M.decl THEN AddSequence(CreateUndefFunctionCall(g, i, f), i)
  ELSE IF f \in DOMAIN g.M.fun THEN CreateCallToFunction(g, i, f)
  ELSE CreateFuncptrCall(g, i)

BuildInstruction(g, i) ==
  CASE g.M.ins[i].op = "call" -> CreateCall(g, i)
    [] g.M.ins[i].op = "insertelement" -> CreateInsertElement(g, i)
    [] g.M.ins[i].op = "extractelement" -> CreateExtractElement(g, i)
    [] g.M.ins[i].op = "extractvalue" -> CreateExtract(g, i)
    [] g.M.ins[i].op = "atomicrmw" -> CreateAtomicRMW(g, i)
    [] OTHER -> CreateSimple(g, i)

IsMemSet(M, i) ==
  M.ins[i].op = "call" /\ M.ins[i].fun \in DOMAIN M.decl /\ M.decl[M.ins[i].fun] = "memset"

(* buildPointerGraphBlock(); a block that ends in a return node has it     *)
(* gathered.                                                               *)
WithReturn(g, f, b) ==
  LET x == Last(BlockNodes(g, f, b)) IN
  IF IsBuilt(g, f, b) /\ g.type[x] = "RETURN"
  THEN [g EXCEPT !.subgraphs[f].rets = Append(@, x)] ELSE g

BuildBlock(g, f, b) ==
  WithReturn(FoldLeft(LAMBDA h, i : IF IsRelevant(h.M, i) THEN BuildInstruction(h, i)
                                    ELSE IF IsMemSet(h.M, i) THEN CheckMemSet(h, i) ELSE h,
                      g, Blocks(g, f)[b].ins), f, b)

(* buildFunction(): the function is recorded before its blocks are built,  *)
(* so that recursive calls find it.                                        *)
WithSubgraph(g, f) ==
  LET e == Create(g, "ENTRY", <<>>, 0) IN
  [IF g.M.fun[f].vararg THEN Create(e, "PHI", <<>>, 0) ELSE e
     EXCEPT !.subgraphs = (f :> [root |-> g.last + 1, rets |-> <<>>,
                                 vararg |-> IF g.M.fun[f].vararg THEN g.last + 2 ELSE 0]) @@ @]

BuildFunction(g, f) ==
  AddPHIOperands(FoldLeft(LAMBDA h, b : BuildBlock(h, f, b),
                          BuildArguments(WithSubgraph(g, f), f), DominatorOrder(g, f)), f)

(* buildLLVMPointerGraph().                                                *)
AddEdges(g) ==
  FoldLeft(LAMBDA h, f : AddAllInterproceduralOperands(AddProgramStructure(h, f), f),
           g, SetToSeq(DOMAIN g.subgraphs))

WithRoot(g, f) == [WithOperand(g, f) EXCEPT !.root = g.subgraphs[f].root, !.ad_hoc = TRUE]

BuildLLVMPointerGraph(M) ==
  WithRoot(AddEdges(BuildFunction(BuildGlobals(EmptyGraph(M)), "main")), "main")

(* callIsCompatible(): enough arguments.                                   *)
CallIsCompatible(M, i, f) ==
  f \in DOMAIN M.fun => Len(M.fun[f].args) <= Len(M.ins[i].args)

(* insertFunctionCall(callsite, called).                                   *)
InsertUndefined(s, i, call, ret) ==
  AddOperand(
    AddSuccessor(
      AddSuccessor(Linked([s.g EXCEPT !.user[s.repr] = i], s.nodes), call, s.nodes[1]),
      Last(s.nodes), ret),
    ret, s.repr)

(* The call no longer leads to its return node directly.                   *)
Disconnected(g, call) ==
  IF g.succ[call] = <<g.paired[call]>> THEN [g EXCEPT !.succ[call] = <<>>] ELSE g

InsertFunctionCall(g, call, f) ==
  LET i == g.user[call] IN
  IF f \in DOMAIN g.M.decl
  THEN InsertUndefined(CreateUndefFunctionCall(g, i, f), i, call, g.paired[call])
  ELSE AddInterproceduralOperands(Disconnected(GetAndConnectSubgraph(g, f, i, call), call),
                                  f, i, call)

=============================================================================
