------------------------ MODULE LLVMReadWriteGraph --------------------------
(***************************************************************************)
(* LLVMReadWriteGraphBuilder (lib/llvm/ReadWriteGraph): which memory every *)
(* instruction writes (def), overwrites for sure (over) and reads (use),   *)
(* from the results of the pointer analysis.  A part of memory is a triple *)
(* of the value that allocates it, an offset and a length.                 *)
(*                                                                         *)
(* The options are the default ones: undefined functions read what their   *)
(* arguments point to, and memcpy has a model.                             *)
(***************************************************************************)
EXTENDS LLVMPointerGraph

VARIABLE rw    \* instruction -> its node, empty before the graph is built

UnknownMemory == <<"unknown", UNKNOWN, UNKNOWN>>

-----------------------------------------------------------------------------
(* The results of the pointer analysis (DGLLVMPointerAnalysis).            *)
(***************************************************************************)
(* getPointsToNode(): constants get their nodes now.                       *)
PointersIn(g, v) ==
  IF Built(g, v)
  THEN LET x == g.nodes_map[v].repr IN IF x > prog.last THEN g.pts[x] ELSE pointsTo[x]
  ELSE IF HasOperand(g, v) THEN StaticPointsTo(g, Operand(g, v)) ELSE {}

(* DGLLVMPointsToSet: what is iterated over are pointers to values; null   *)
(* and unknown pointers are not.                                           *)
PointsToSet(S, g) ==
  [known   |-> S # {},
   unknown |-> S = {} \/ UnknownPointer \in S,
   size    |-> Cardinality(S),
   values  |-> {<<g.user[ptr[1]], ptr[2]>> : ptr \in {p \in S : p[1] \in Node}}]

PointsToSetIn(g, v) == PointsToSet(PointersIn(g, v), g)

(* getLLVMPointsTo(): nothing known is everything.  (getLLVMPointsToChecked*)
(* also tells whether something is known.)                                 *)
LLVMPointsTo(v) == PointsToSetIn(WithOperand(prog, v), v)

MemoryValues(S) == {ptr \in S.values : ptr[1] \notin Functions(prog)}

(* getCalledFunctions().                                                   *)
CalledFunctions(v) == {ptr[1] : ptr \in LLVMPointsTo(v).values} \cap Functions(prog)

-----------------------------------------------------------------------------
(* Nodes.                                                                  *)
(***************************************************************************)
Ins(i) == prog.M.ins[i]

RWNode(def, over, use) == [def |-> def, over |-> over, use |-> use, callees |-> {}]
Nothing == RWNode({}, {}, {})

(* Mutant: an unknown pointer next to known ones is passed over.           *)
DefSitesOfKnown(S, size) ==
  {<<ptr[1], ptr[2], IF ptr[2] = UNKNOWN THEN UNKNOWN ELSE size>> : ptr \in MemoryValues(S)}

(* mapPointers().                                                          *)
DefSites(S, size) ==
  (IF S.unknown THEN {UnknownMemory} ELSE {})
    \cup {<<ptr[1], ptr[2], IF ptr[2] = UNKNOWN THEN UNKNOWN ELSE size>> :
            ptr \in MemoryValues(S)}

MapPointers(v, size) == DefSites(LLVMPointsTo(v), size)

(* Nodes of type ALLOC and GLOBAL.                                         *)
IsAllocOrGlobal(t) ==
  \/ t \in {prog.M.glob[k].name : k \in DOMAIN prog.M.glob}
  \/ t \in DOMAIN prog.M.ins /\ (Ins(t).op = "alloca" \/ Ins(t).fun = "vastart")

(* Mutant: memory from malloc is overwritten, too.                         *)
StrongUpdateAnywhere(sites) ==
  Cardinality(sites) = 1 /\ \A s \in sites : UNKNOWN \notin {s[2], s[3]}

(* createStore(): a strong update is one of a single, known place in a     *)
(* local or global variable.                                               *)
StrongUpdate(sites) ==
  /\ Cardinality(sites) = 1
  /\ \A s \in sites : IsAllocOrGlobal(s[1]) /\ UNKNOWN \notin {s[2], s[3]}

Stored(sites) == IF StrongUpdate(sites) THEN RWNode({}, sites, {}) ELSE RWNode(sites, {}, {})

RWStore(i, v) == Stored(MapPointers(v, 1))

RWLoad(i, size) == RWNode({}, {}, MapPointers(Ins(i).args[1], size))

(* createAtomicRMW(): a store and a load.                                  *)
RWAtomicRMW(i) ==
  [RWStore(i, Ins(i).args[1]) EXCEPT !.use = MapPointers(Ins(i).args[1], 1)]

(* createAlloc(): the address of a variable is taken by storing it and by  *)
(* memory intrinsics that get it as value.                                 *)
AddressTaken(i) ==
  \E j \in DOMAIN prog.M.ins :
    \/ Ins(j).op = "store" /\ Ins(j).args[1] = i
    \/ Ins(j).op = "call" /\ Ins(j).fun \in {"memcpy", "memset"} /\ Ins(j).args[2] = i

RWAlloc(i) ==
  IF AddressTaken(i) THEN Nothing
  ELSE RWNode({}, {<<i, 0, IF Ins(i).k = 0 THEN UNKNOWN ELSE Ins(i).k>>}, {})

IsCall(t) == t \in DOMAIN prog.M.ins /\ Ins(t).op = "call"

(* createRealloc() and addReallocUses(): only memory from calls is reused. *)
RWRealloc(i) ==
  LET size == IF Ins(i).k = 0 THEN UNKNOWN ELSE Ins(i).k
      old  == Ins(i).args[1]
  IN  RWNode({<<i, 0, size>>}, {},
             {s \in MapPointers(old, size) :
                s = UnknownMemory \/ IsCall(s[1])})

(* funcFromModel() for memcpy.  What is passed as length is the end of the *)
(* memory.                                                                 *)
ModelledParts(S, k) ==
  {<<ptr[1], ptr[2], PlusOffset(ptr[2], k)>> : ptr \in MemoryValues(S)}

StrongModel(S, k) ==
  /\ S.size = 1
  /\ \A ptr \in MemoryValues(S) : PlusOffset(ptr[2], k) # UNKNOWN /\ ~IsCall(ptr[1])

FromModel(dest, src, k) ==
  IF StrongModel(dest, k) THEN RWNode({}, ModelledParts(dest, k), ModelledParts(src, k))
  ELSE RWNode(ModelledParts(dest, k), {}, ModelledParts(src, k))

RWFuncFromModel(i) ==
  FromModel(LLVMPointsTo(Ins(i).args[1]), LLVMPointsTo(Ins(i).args[2]), Ins(i).k)

(* createIntrinsicCall() for memset; every known part is overwritten, even *)
(* if there are several.                                                   *)
SetParts(parts) ==
  RWNode({s \in parts : UNKNOWN \in {s[2], s[3]}}, {s \in parts : UNKNOWN \notin {s[2], s[3]}}, {})

RWMemSet(i) == SetParts(ModelledParts(LLVMPointsTo(Ins(i).args[1]), Ins(i).k))

(* createUnknownCall(): of constants only global variables are looked at,  *)
(* directly or through casts.                                              *)
RECURSIVE IsIgnored(_)
IsIgnored(v) ==
  \/ v \in {"null", "int", "undef"} \cup Functions(prog)
  \/ v \in DOMAIN prog.M.expr
       /\ (prog.M.expr[v].op # "cast" \/ IsIgnored(prog.M.expr[v].arg))

RWUnknownCall(i) ==
  RWNode({}, {}, UNION {{<<ptr[1], UNKNOWN, UNKNOWN>> : ptr \in MemoryValues(LLVMPointsTo(v))} :
                          v \in {w \in Range(Ins(i).args) : ~IsIgnored(w)}})

(* createCallToUndefinedFunction(), and functions with a model.            *)
RWUndefined(i, f) ==
  CASE prog.M.decl[f] = "memcpy" -> RWFuncFromModel(i)
    [] prog.M.decl[f] = "memset" -> RWMemSet(i)
    [] prog.M.decl[f] = "vastart" -> RWNode({<<i, 0, UNKNOWN>>}, {}, {})
    [] prog.M.decl[f] = "realloc" -> RWRealloc(i)
    [] prog.M.decl[f] \in {"malloc", "calloc"} -> Nothing
    [] OTHER -> RWUnknownCall(i)

(* createCallToFunctions(), and the summary of the undefined functions     *)
(* that a call node makes (RWNodeCall::_summarizeAnnotation).              *)
Summary(nodes, called) ==
  [def  |-> UNION {r.def : r \in nodes},
   over |-> {s \in UNION {r.over : r \in nodes} : \A r \in nodes : s \in r.over},
   use  |-> UNION {r.use : r \in nodes},
   callees |-> called]

RWCallToFunctions(i, called) ==
  Summary({RWUndefined(i, f) : f \in called \cap DOMAIN prog.M.decl}, called)

Compatible(i, funs) == {f \in funs : CallIsCompatible(prog.M, i, f)}

RWCall(i) ==
  IF Ins(i).fun \notin Functions(prog) /\ CalledFunctions(Ins(i).fun) = {}
  THEN RWUnknownCall(i)
  ELSE RWCallToFunctions(i, Compatible(i, IF Ins(i).fun \in Functions(prog) THEN {Ins(i).fun}
                                          ELSE CalledFunctions(Ins(i).fun)))

(* createNode().                                                           *)
RWNodeOf(i) ==
  CASE Ins(i).op = "alloca" -> RWAlloc(i)
    [] Ins(i).op = "store" -> RWStore(i, Ins(i).args[2])
    [] Ins(i).op = "load" -> RWLoad(i, 1)
    [] Ins(i).op = "loadvalue" -> RWLoad(i, 2)
    [] Ins(i).op = "atomicrmw" -> RWAtomicRMW(i)
    [] Ins(i).op = "call" -> RWCall(i)
    [] OTHER -> Nothing

(* buildFunsFromCG(): the functions of the call graph.                     *)
GraphFunctions ==
  {"main"} \cup {c[1] : c \in prog.calls} \cup {c[2] : c \in prog.calls}

InstructionsOf(f) ==
  UNION {Range(Blocks(prog, f)[b].ins) : b \in ReachedBlocks(prog, f, {1}, {})}

(* build(), when the pointer analysis is done.                             *)
BuildReadWriteGraph ==
  /\ pc = "done"
  /\ rw = <<>>
  /\ rw' = [i \in UNION {InstructionsOf(f) : f \in GraphFunctions} |-> RWNodeOf(i)]
  /\ UNCHANGED vars

=============================================================================
