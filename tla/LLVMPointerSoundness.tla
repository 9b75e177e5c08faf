------------------------ MODULE LLVMPointerSoundness ------------------------
(***************************************************************************)
(* The pointer analysis of an LLVM module, the read-write graph built from *)
(* its results, and then runs of the module: what a run does with memory   *)
(* is compared with what the analyses say of it.                           *)
(*                                                                         *)
(* The value of a register is <<base, instance, offset>>: the instruction  *)
(* or global that allocates the memory and which of its objects, or a      *)
(* function, or one of the values below.  A vector has its elements behind.*)
(***************************************************************************)
EXTENDS LLVMCallGraph

CONSTANTS Modules,     \* the LLVM modules
          Instances,   \* bound: how many objects an instruction allocates
          Depth        \* bound: calls on the stack

ASSUME RunAssumption == Instances \in Nat /\ Depth \in Nat

VARIABLES frames,      \* the stack
          objs,        \* <<base, instance>> -> size, 0 when it is gone
          store,       \* place -> value
          last         \* what the last instruction did

runVars == <<frames, objs, store, last>>

-----------------------------------------------------------------------------
(* The analysis.                                                           *)
(***************************************************************************)
(* The points-to sets of the nodes that were added.                        *)
WithNewNodes(old, g) == [x \in Node |-> IF x > prog.last THEN g[x] ELSE old[x]]

(* functionPointerCall() for every function that is new to call node x.    *)
Resolve(x, funs, g) ==
  /\ prog' = g
  /\ pointsTo' = [WithNewNodes(pointsTo, g.pts) EXCEPT ![x] = @ \cup funs]
  /\ gepOffset' = WithNewNodes(gepOffset, g.off)
  /\ zero' = zero \cup g.zero
  /\ changed' = IF funs = {} THEN changed ELSE Append(changed, x)

Inserted(x, funs) ==
  FoldLeft(LAMBDA g, f : IF CallIsCompatible(g.M, g.user[x], f)
                         THEN InsertFunctionCall(g, x, f) ELSE g,
           prog, SetToSeq({prog.user[ptr[1]] : ptr \in funs}))

NewFunctions(x) ==
  {ptr \in PointsTo(prog.op[x][1]) :
     ptr[1] \in Node /\ prog.type[ptr[1]] = "FUNCTION"} \ pointsTo[x]

(* Mutant: only one function is called at a call site.                     *)
ProcessFuncptrOnce(x) ==
  /\ pc # "done" /\ to_process # <<>> /\ x = Head(to_process)
  /\ prog.type[x] = "CALL_FUNCPTR"
  /\ LET funs == IF pointsTo[x] = {} THEN NewFunctions(x) ELSE {}
     IN  Resolve(x, funs, Inserted(x, funs))
  /\ to_process' = Tail(to_process)
  /\ UNCHANGED <<flow, maxIterations, pc, data, mem, n, result>>

(* processNode() for CALL_FUNCPTR.                                         *)
ProcessFuncptr(x) ==
  /\ pc # "done" /\ to_process # <<>> /\ x = Head(to_process)
  /\ prog.type[x] = "CALL_FUNCPTR"
  /\ Resolve(x, NewFunctions(x), Inserted(x, NewFunctions(x)))
  /\ to_process' = Tail(to_process)
  /\ UNCHANGED <<flow, maxIterations, pc, data, mem, n, result>>

Analyze ==
  /\ \/ pc # "done" /\ to_process # <<>> /\ prog.type[Head(to_process)] # "CALL_FUNCPTR"
        /\ Process(Head(to_process))
     \/ pc # "done" /\ to_process # <<>> /\ ProcessFuncptr(Head(to_process))
     \/ EndGlobals
     \/ Repeat
     \/ Finish
  /\ UNCHANGED <<rw, cg, runVars>>

-----------------------------------------------------------------------------
(* Runs.                                                                   *)
(***************************************************************************)
Null == <<"null", 0, 0>>
Number == <<"int", 0, 0>>

RECURSIVE ConstantValue(_)
ConstantValue(v) ==
  CASE v = "null" -> Null
    [] v \in {"int", "undef"} -> Number
    [] v \in DOMAIN prog.M.expr ->
         LET c == prog.M.expr[v]
             w == ConstantValue(c.arg)
         IN  <<w[1], w[2], w[3] + (IF c.op = "cast" THEN 0 ELSE c.k)>>
    [] OTHER -> <<v, 1, 0>>

Top == Last(frames)
Block == Blocks(prog, Top.fun)[Top.block]
Current == Block.ins[Top.idx]

Value(v) == IF v \in DOMAIN Top.regs THEN Top.regs[v] ELSE ConstantValue(v)

ObjectOf(p) == <<p[1], p[2]>>
Exists(p) == ObjectOf(p) \in DOMAIN objs
Places(o, from, len) == {<<o[1], o[2], k>> : k \in from .. from + len - 1}

ShiftedBy(p, k) == <<p[1], p[2], p[3] + k>>

(* A place that may be accessed.                                           *)
Valid(p) == Exists(p) /\ p[3] < objs[ObjectOf(p)]

Fresh(i) == <<i, 1 + Cardinality({o \in DOMAIN objs : o[1] = i})>>

(* The end of an instruction: its result, what it has read, written and    *)
(* allocated, and what it calls.                                           *)
Done(i, v, did) ==
  /\ frames' = [frames EXCEPT ![Len(frames)].regs = (i :> v) @@ @,
                              ![Len(frames)].idx = @ + 1]
  /\ last' = did

Did(i, rd, wr) == [ins |-> i, rd |-> rd, wr |-> wr, new |-> {}, called |-> {}]

DoAlloca(i, o) ==
  /\ Ins(i).op = "alloca"
  /\ o[2] <= Instances
  /\ objs' = (o :> Ins(i).k) @@ objs
  /\ frames' = [frames EXCEPT ![Len(frames)].regs = (i :> <<i, o[2], 0>>) @@ @,
                              ![Len(frames)].idx = @ + 1,
                              ![Len(frames)].locals = @ \cup {o}]
  /\ last' = [Did(i, {}, {}) EXCEPT !.new = {o}]
  /\ UNCHANGED store

DoStore(i) ==
  LET p == Value(Ins(i).args[2]) IN
  /\ Ins(i).op = "store" /\ Valid(p)
  /\ store' = (p :> Value(Ins(i).args[1])) @@ store
  /\ Done(i, Number, Did(i, {}, {p}))
  /\ UNCHANGED objs

DoLoad(i) ==
  LET p == Value(Ins(i).args[1]) IN
  /\ Ins(i).op = "load" /\ Valid(p) /\ p \in DOMAIN store
  /\ Done(i, store[p], Did(i, {p}, {}))
  /\ UNCHANGED <<objs, store>>

(* An aggregate of two fields, like a vector of two elements.              *)
DoLoadValue(i) ==
  LET p == Value(Ins(i).args[1])
      q == ShiftedBy(p, 1)
  IN  /\ Ins(i).op = "loadvalue" /\ Valid(q) /\ {p, q} \subseteq DOMAIN store
      /\ Done(i, <<"vector", 0, 0, <<store[p], store[q]>>>>, Did(i, {p, q}, {}))
      /\ UNCHANGED <<objs, store>>

DoExchange(i) ==
  LET p == Value(Ins(i).args[1]) IN
  /\ Ins(i).op = "atomicrmw" /\ Valid(p) /\ p \in DOMAIN store
  /\ store' = [store EXCEPT ![p] = Value(Ins(i).args[2])]
  /\ Done(i, store[p], Did(i, {p}, {p}))
  /\ UNCHANGED objs

(* The value of a phi node comes from the block before.                    *)
Incoming(i) ==
  LET preds == SetToSortSeq({b \in DOMAIN Blocks(prog, Top.fun) :
                               Top.block \in Range(Blocks(prog, Top.fun)[b].succ)}, <)
  IN  Ins(i).args[CHOOSE k \in DOMAIN preds : preds[k] = Top.prev]

(* Vectors have two elements.                                              *)
Inserting(i) ==
  LET v == Value(Ins(i).args[1])
      e == IF Len(v) = 4 THEN v[4] ELSE <<Number, Number>>
  IN  <<"vector", 0, 0, [e EXCEPT ![Ins(i).k + 1] = Value(Ins(i).args[2])]>>

Results(i) ==
  LET I == Ins(i) IN
  CASE I.op \in {"gep", "add", "arithmetic"} ->
         {p \in {ShiftedBy(Value(I.args[1]), I.k)} : Exists(p) /\ p[3] <= objs[ObjectOf(p)]}
    [] I.op \in {"bitcast", "ptrtoint", "inttoptr"} -> {Value(I.args[1])}
    [] I.op = "select" -> {Value(v) : v \in Range(I.args)}
    [] I.op = "phi" -> {Value(Incoming(i))}
    [] I.op = "insertelement" -> {Inserting(i)}
    [] I.op \in {"extractelement", "extractvalue"} -> {Value(I.args[1])[4][I.k + 1]}
    [] OTHER -> {}

DoCompute(i) ==
  /\ \E v \in Results(i) : Done(i, v, Did(i, {}, {}))
  /\ UNCHANGED <<objs, store>>

DoBranch(i) ==
  /\ Ins(i).op = "br"
  /\ \E b \in Range(Block.succ) :
       frames' = [frames EXCEPT ![Len(frames)].prev = Top.block,
                                ![Len(frames)].block = b, ![Len(frames)].idx = 1]
  /\ last' = Did(i, {}, {})
  /\ UNCHANGED <<objs, store>>

Frame(f, args, i) ==
  LET params == prog.M.fun[f].args IN
  [fun |-> f, block |-> 1, idx |-> 1, prev |-> 0, call |-> i, locals |-> {},
   regs |-> [a \in Range(params) |-> args[CHOOSE k \in DOMAIN params : params[k] = a]],
   va |-> SubSeq(args, Len(params) + 1, Len(args))]

Called(i) == IF Ins(i).fun \in Functions(prog) THEN Ins(i).fun ELSE Value(Ins(i).fun)[1]

DoCall(i) ==
  LET f == Called(i) IN
  /\ Ins(i).op = "call" /\ f \in DOMAIN prog.M.fun
  /\ Len(Ins(i).args) >= Len(prog.M.fun[f].args)
  /\ Len(frames) < Depth
  /\ frames' = Append(frames, Frame(f, [k \in DOMAIN Ins(i).args |-> Value(Ins(i).args[k])], i))
  /\ last' = [Did(i, {}, {}) EXCEPT !.called = {f}]
  /\ UNCHANGED <<objs, store>>

(* Local variables end.  The run ends with the return from main.           *)
DoReturn(i) ==
  LET v == IF Ins(i).args = <<>> THEN Number ELSE Value(Ins(i).args[1]) IN
  /\ Ins(i).op \in Returning
  /\ objs' = [o \in DOMAIN objs |-> IF o \in Top.locals THEN 0 ELSE objs[o]]
  /\ frames' = IF Len(frames) = 1 THEN <<>>
               ELSE [Front(frames) EXCEPT ![Len(frames) - 1].regs = (Top.call :> v) @@ @,
                                          ![Len(frames) - 1].idx = @ + 1]
  /\ last' = Did(i, {}, {})
  /\ UNCHANGED store

(* Library functions.                                                      *)
DoAllocate(i, kind, o) ==
  /\ kind \in {"malloc", "calloc"} /\ o[2] <= Instances
  /\ objs' = (o :> Ins(i).k) @@ objs
  /\ store' = IF kind = "malloc" THEN store
              ELSE [p \in Places(o, 0, Ins(i).k) |-> Null] @@ store
  /\ Done(i, <<i, o[2], 0>>, [Did(i, {}, {}) EXCEPT !.new = {o}])

(* Memory copied from one object to another.                               *)
CopiedTo(dst, src, len) ==
  [p \in {ShiftedBy(dst, k) : k \in {l \in 0 .. len - 1 : ShiftedBy(src, l) \in DOMAIN store}}
     |-> store[ShiftedBy(src, p[3] - dst[3])]]

Sources(src, len) == Places(src, src[3], len) \cap DOMAIN store

DoReallocate(i, kind, o) ==
  LET old == Value(Ins(i).args[1])
      len == IF objs[ObjectOf(old)] < Ins(i).k THEN objs[ObjectOf(old)] ELSE Ins(i).k
      new == <<i, o[2], 0>>
  IN  /\ kind = "realloc" /\ o[2] <= Instances
      /\ Valid(old) /\ old[3] = 0 /\ IsCall(old[1])
      /\ objs' = (o :> Ins(i).k) @@ [objs EXCEPT ![ObjectOf(old)] = 0]
      /\ store' = CopiedTo(new, old, len) @@ store
      /\ Done(i, new, [Did(i, Sources(old, len), DOMAIN CopiedTo(new, old, len))
                         EXCEPT !.new = {o}])

DoCopy(i, kind) ==
  LET dst == Value(Ins(i).args[1])
      src == Value(Ins(i).args[2])
      end == Ins(i).k - 1
  IN  /\ kind = "memcpy"
      /\ Valid(ShiftedBy(dst, end)) /\ Valid(ShiftedBy(src, end))
      /\ store' = CopiedTo(dst, src, Ins(i).k) @@ store
      /\ Done(i, Number, Did(i, Sources(src, Ins(i).k), Places(dst, dst[3], Ins(i).k)))
      /\ UNCHANGED objs

DoSet(i, kind) ==
  LET dst == Value(Ins(i).args[1]) IN
  /\ kind = "memset" /\ Valid(ShiftedBy(dst, Ins(i).k - 1))
  /\ store' = [p \in Places(dst, dst[3], Ins(i).k) |-> Value(Ins(i).args[2])] @@ store
  /\ Done(i, Number, Did(i, {}, Places(dst, dst[3], Ins(i).k)))
  /\ UNCHANGED objs

(* The variadic arguments, in memory; the list itself is part of the       *)
(* implementation of stdarg.                                               *)
DoVaStart(i, kind, o) ==
  LET list == Value(Ins(i).args[1]) IN
  /\ kind = "vastart" /\ o[2] <= Instances /\ Valid(list)
  /\ objs' = (o :> Len(Top.va)) @@ objs
  /\ store' = (list :> <<i, o[2], 0>>) @@ [p \in Places(o, 0, Len(Top.va)) |-> Top.va[p[3] + 1]]
                @@ store
  /\ Done(i, Number, [Did(i, {}, Places(o, 0, Len(Top.va))) EXCEPT !.new = {o}])

(* An unknown function reads what its arguments point to and may return    *)
(* one of them.                                                            *)
DoUnknown(i, kind) ==
  LET args == {Value(v) : v \in Range(Ins(i).args)} IN
  /\ kind \in {"undef", "void"}
  /\ \E v \in {Null, Number} \cup (IF kind = "void" THEN {} ELSE args) :
       Done(i, v, Did(i, {p \in DOMAIN store : \E a \in args : ObjectOf(p) = ObjectOf(a)}, {}))
  /\ UNCHANGED <<objs, store>>

DoLibrary(i, kind) ==
  \/ DoAllocate(i, kind, Fresh(i)) \/ DoReallocate(i, kind, Fresh(i))
  \/ DoCopy(i, kind) \/ DoSet(i, kind) \/ DoVaStart(i, kind, Fresh(i)) \/ DoUnknown(i, kind)

DoUndefined(i) ==
  /\ Ins(i).op = "call" /\ Called(i) \in DOMAIN prog.M.decl
  /\ DoLibrary(i, prog.M.decl[Called(i)])

(* main is called when the read-write graph is there; a module whose call  *)
(* graph is asked for is not run.                                          *)
Start ==
  /\ rw # <<>> /\ objs = <<>> /\ cg.kind = "none"
  /\ objs' = [o \in {<<prog.M.glob[k].name, 1>> : k \in DOMAIN prog.M.glob} |->
                prog.M.glob[CHOOSE k \in DOMAIN prog.M.glob : prog.M.glob[k].name = o[1]].size]
             @@ (<<"none", 0>> :> 0)
  /\ store' = FoldLeft(LAMBDA s, G :
                FoldLeft(LAMBDA t, part : (<<G.name, 1, part[1]>> :> ConstantValue(part[2])) @@ t,
                         s, G.init), <<>>, prog.M.glob)
  /\ frames' = <<Frame("main", <<>>, "none")>>
  /\ last' = Did("none", {}, {})

Execute ==
  /\ frames # <<>>
  /\ \/ DoAlloca(Current, Fresh(Current)) \/ DoStore(Current) \/ DoLoad(Current)
     \/ DoLoadValue(Current) \/ DoExchange(Current) \/ DoCompute(Current) \/ DoBranch(Current)
     \/ DoCall(Current) \/ DoReturn(Current) \/ DoUndefined(Current)

-----------------------------------------------------------------------------
(* preprocess() and queue_globals(), for the graph that was built.         *)
LLVMInit ==
  /\ \E M \in Modules : prog = BuildLLVMPointerGraph(M)
  /\ flow = "FI" /\ maxIterations = 0
  /\ pc = "globals"
  /\ pointsTo = prog.pts
  /\ gepOffset = Preprocessed(prog, "FI")
  /\ zero = prog.zero
  /\ data = [x \in Node |-> 0]
  /\ mem = [k \in 0 .. N |-> {}]
  /\ to_process = prog.globals
  /\ changed = <<>> /\ n = 0 /\ result = TRUE
  /\ rw = <<>> /\ cg = EmptyCallGraph("none")
  /\ frames = <<>> /\ objs = <<>> /\ store = <<>> /\ last = Did("none", {}, {})

LLVMNext ==
  \/ Analyze
  \/ BuildReadWriteGraph /\ UNCHANGED <<cg, runVars>>
  \/ objs = <<>> /\ (CreateCallGraph \/ Ask) /\ UNCHANGED <<vars, rw, runVars>>
  \/ (Start \/ Execute) /\ UNCHANGED <<vars, rw, cg>>

LLVMSpec == LLVMInit /\ [][LLVMNext]_<<vars, rw, cg, runVars>>

-----------------------------------------------------------------------------
IsMemory(v) == Len(v) = 3 /\ v[1] \notin {"null", "int", "none"}

FoundIn(v, S) == S.unknown \/ <<v[1], v[3]>> \in S.values \/ <<v[1], UNKNOWN>> \in S.values

(* Where a register of a running function points is in its points-to set,  *)
(* with the offset or an unknown one: pointers are followed through        *)
(* memory, calls, returns, variadic arguments and functions that were      *)
(* built during the analysis.                                              *)
PointersFound ==
  \A k \in DOMAIN frames : \A r \in DOMAIN frames[k].regs :
    LET v == frames[k].regs[r] IN
    IsMemory(v) => FoundIn(v, LLVMPointsTo(r))

(* A call made in a run is an edge of the call graph that the analysis     *)
(* registers, the read-write graph has the function among the callees of   *)
(* the call node, and the call graphs that are built from the results, all *)
(* at once or question by question, agree with the one of the analysis.    *)
CallsFound ==
  /\ \A f \in last.called :
       /\ <<FunctionOf(prog, last.ins), f>> \in prog.calls
       /\ f \in rw[last.ins].callees
  /\ CallGraphsAgree(cg.answer)

InPart(p, part) ==
  \/ part = UnknownMemory
  \/ /\ part[1] = p[1]
     /\ \/ part[2] = UNKNOWN
        \/ part[2] <= p[3] /\ (part[3] = UNKNOWN \/ p[3] < part[2] + part[3])

(* What an instruction reads and writes is in its node of the read-write   *)
(* graph.                                                                  *)
AccessesCovered ==
  /\ \A p \in last.rd : \E part \in rw[last.ins].use : InPart(p, part)
  /\ \A p \in last.wr : \E part \in rw[last.ins].def \cup rw[last.ins].over : InPart(p, part)

(* What a node is said to overwrite, the instruction has overwritten, in   *)
(* all objects that the analysis does not tell apart; a variable that      *)
(* several calls or rounds of a loop have is left out.                     *)
Alive(site) == {o \in DOMAIN objs : o[1] = site /\ objs[o] > 0}

OverwritesExact ==
  rw # <<>> /\ last.ins # "none" =>
    \A part \in rw[last.ins].over :
      LET alive == Alive(part[1]) IN
      (Cardinality(alive) <= 1 \/ IsCall(part[1])) =>
        \A o \in alive \ last.new :
          {p \in Places(o, 0, objs[o]) : InPart(p, part)} \subseteq last.wr
=============================================================================
