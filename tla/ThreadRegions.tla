--------------------------- MODULE ThreadRegions ---------------------------
(***************************************************************************)
(* What the dependence graph of a program with threads is made from: the   *)
(* control flow graph over threads (GraphBuilder.cpp), the                 *)
(* threads that a join may wait for (LLVMPointerGraphBuilder, Threads.cpp),*)
(* critical sections (CriticalSectionsBuilder), thread regions             *)
(* (ThreadRegionsBuilder) and the edges LLVMDependenceGraph adds for them. *)
(* The searches are depth-first and go through sets of pointers, that is,  *)
(* in any order, except that threads come before ordinary successors.      *)
(***************************************************************************)
EXTENDS Naturals, Sequences, FiniteSets, SequencesExt

(* The control flow graph over the threads of a program.  A program is a   *)
(* sequence of functions, a function a sequence of blocks, the first one   *)
(* its entry.  A block has instructions and a set of successors.  A call   *)
(* names its callees, several if it goes through a pointer: what pointer   *)
(* analysis says about the called value.                                   *)
Main == 1

Instr(op, v, ptr, to) == [op |-> op, v |-> v, ptr |-> ptr, to |-> to]

(* A callee: a function of the program ("fun"), or a declaration that is   *)
(* called pthread_create, pthread_join, pthread_exit, pthread_mutex_lock,  *)
(* pthread_mutex_unlock or something else.  fns: the function called, or   *)
(* the ones that may be spawned; h: the thread handles or the mutex; now:  *)
(* pointer analysis knows fns and h from the start.                        *)
Callee(k, fns, h, now) == [k |-> k, fns |-> fns, h |-> h, now |-> now]

(* An instruction is named by function, block and position.                *)
InstrAt(P, x) == P[x[1]][x[2]].ins[x[3]]

IsCallInst(P, x) == InstrAt(P, x).op = "call"

predecessorsOf(P, f, b) == {k \in DOMAIN P[f] : b \in P[f][k].succ}

(* What LLVM guarantees of a program: a terminator ends every block and is *)
(* nowhere else, nothing branches to the entry block, and a call that does *)
(* not go through a pointer has one callee.                                *)
IsList(s) == s \in Seq(Range(s)) /\ s # <<>>

LegalCallee(P, callee) ==
  /\ callee.fns \subseteq DOMAIN P
  /\ callee.k = "fun" => \E f \in DOMAIN P : callee.fns = {f}

LegalInstr(P, in) ==
  /\ in.op \in {"load", "store", "br", "ret", "call"}
  /\ in.to = <<>> \/ IsList(in.to)
  /\ in.ptr \in BOOLEAN
  /\ in.op # "call" => in.to = <<>> /\ ~in.ptr
  /\ in.op = "call" /\ ~in.ptr => Len(in.to) = 1
  /\ \A c \in DOMAIN in.to : LegalCallee(P, in.to[c])

LegalBlock(P, f, b) ==
  /\ IsList(P[f][b].ins)
  /\ \A i \in DOMAIN P[f][b].ins :
       /\ LegalInstr(P, P[f][b].ins[i])
       /\ P[f][b].ins[i].op \in {"br", "ret"} <=> i = Len(P[f][b].ins)
       /\ P[f][b].ins[i].op = "ret" => P[f][b].succ = {}
  /\ P[f][b].succ \subseteq DOMAIN P[f]

WellFormed(P) ==
  /\ IsList(P)
  /\ \A f \in DOMAIN P :
       /\ IsList(P[f]) /\ predecessorsOf(P, f, 1) = {}
       /\ \A b \in DOMAIN P[f] : LegalBlock(P, f, b)

(* Nodes: the instruction, the number of the callee for the artificial     *)
(* nodes of a call through a pointer, and the type.                        *)
Node(x, c, type) == <<x[1], x[2], x[3], c, type>>
NodeInstr(n) == <<n[1], n[2], n[3]>>
NodeType(n) == n[5]

EntryNode(f) == <<f, 0, 0, 0, "ENTRY">>
ExitNode(f) == <<f, 0, 0, 0, "EXIT">>

isArtificial(P, n) ==
  \/ NodeType(n) \in {"ENTRY", "EXIT", "CALL_RETURN"}
  \/ n[4] # 0
  \/ NodeType(n) = "RETURN" /\ IsCallInst(P, NodeInstr(n))

CalleeType(k) ==
  CASE k = "create" -> "FORK"
    [] k = "join"   -> "JOIN"
    [] k = "lock"   -> "LOCK"
    [] k = "unlock" -> "UNLOCK"
    [] OTHER        -> "CALL"

(* insertFunction and insertUndefinedFunction: the first and the last node *)
(* for callee c (0: of a call without pointer).                            *)
CalleeOf(P, x, c) == InstrAt(P, x).to[IF c = 0 THEN 1 ELSE c]

CalleeFirst(P, x, c) == Node(x, c, CalleeType(CalleeOf(P, x, c).k))

CalleeLast(P, x, c) ==
  LET callee == CalleeOf(P, x, c) IN
  CASE callee.k = "fun"  -> ExitNode(CHOOSE f \in callee.fns : TRUE)
    [] callee.k = "exit" -> Node(x, c, "RETURN")
    [] OTHER             -> CalleeFirst(P, x, c)

CalleeEdges(P, x, c) ==
  LET callee == CalleeOf(P, x, c) IN
  CASE callee.k = "fun"  -> {<<CalleeFirst(P, x, c), EntryNode(f)>> : f \in callee.fns}
    [] callee.k = "exit" -> {<<CalleeFirst(P, x, c), CalleeLast(P, x, c)>>}
    [] OTHER             -> {}

(* buildInstruction: the first and the last node of what is built.         *)
FirstNode(P, x) ==
  LET in == InstrAt(P, x) IN
  IF in.op = "ret" THEN Node(x, 0, "RETURN")
  ELSE IF in.op # "call" THEN Node(x, 0, "GENERAL")
  ELSE IF in.ptr THEN Node(x, 0, "CALL_FUNCPTR")
  ELSE CalleeFirst(P, x, 0)

LastNode(P, x) ==
  LET in == InstrAt(P, x) IN
  IF in.op # "call" THEN FirstNode(P, x)
  ELSE IF ~in.ptr THEN CalleeLast(P, x, 0)
  ELSE IF Len(in.to) > 1 THEN Node(x, 0, "CALL_RETURN")
  ELSE IF Len(in.to) = 1 THEN CalleeLast(P, x, 1)
  ELSE Node(x, 1, "CALL")

(* insertFunctionPointerCall: without a target there is a plain call node. *)
PointerCallEdges(P, x) ==
  LET in == InstrAt(P, x) IN
  IF Len(in.to) = 0 THEN {<<FirstNode(P, x), LastNode(P, x)>>}
  ELSE UNION {{<<FirstNode(P, x), CalleeFirst(P, x, c)>>} \cup CalleeEdges(P, x, c)
                \cup (IF Len(in.to) > 1 THEN {<<CalleeLast(P, x, c), LastNode(P, x)>>}
                                        ELSE {}) : c \in DOMAIN in.to}

InstrEdges(P, x) ==
  CASE ~IsCallInst(P, x)  -> {}
    [] InstrAt(P, x).ptr  -> PointerCallEdges(P, x)
    [] OTHER              -> CalleeEdges(P, x, 0)

(* buildBlock: nothing is built behind a RETURN node.                      *)
BuiltLength(P, f, b) ==
  LET n == Len(P[f][b].ins)
      returns == {i \in 1 .. n : NodeType(LastNode(P, <<f, b, i>>)) = "RETURN"}
  IN  IF returns = {} THEN n ELSE CHOOSE i \in returns : \A j \in returns : i <= j

BlockInstrs(P, f, b) == {<<f, b, i>> : i \in 1 .. BuiltLength(P, f, b)}

BlockFirst(P, f, b) == FirstNode(P, <<f, b, 1>>)
BlockLast(P, f, b) == LastNode(P, <<f, b, BuiltLength(P, f, b)>>)

BlockEdges(P, f, b) ==
  (UNION {InstrEdges(P, x) : x \in BlockInstrs(P, f, b)}) \cup
  {<<LastNode(P, <<f, b, i - 1>>), FirstNode(P, <<f, b, i>>)>> :
     i \in 2 .. BuiltLength(P, f, b)}

(* isReachable: has a predecessor or is the entry block.                   *)
BuiltBlocks(P, f) == {b \in DOMAIN P[f] : b = 1 \/ predecessorsOf(P, f, b) # {}}

(* buildFunction.                                                          *)
FunctionEdges(P, f) ==
  UNION {BlockEdges(P, f, b)
           \cup {<<EntryNode(f), BlockFirst(P, f, k)>> :
                   k \in {j \in {b} : predecessorsOf(P, f, j) = {}}}
           \cup {<<BlockLast(P, f, k), ExitNode(f)>> : k \in {j \in {b} : P[f][j].succ = {}}}
           \cup {<<BlockLast(P, f, b), BlockFirst(P, f, k)>> : k \in P[f][b].succ} :
           b \in BuiltBlocks(P, f)}

FunctionInstrs(P, f) == UNION {BlockInstrs(P, f, b) : b \in BuiltBlocks(P, f)}

Targets(P, x, kinds) ==
  UNION {InstrAt(P, x).to[c].fns :
           c \in {d \in DOMAIN InstrAt(P, x).to : InstrAt(P, x).to[d].k \in kinds}}

(* createOrGetFunction: the functions that calls and spawned threads reach *)
(* from the entry function: of these every set that has the entry function *)
(* but not all of them is left by a call.                                  *)
Called(P, f) == UNION {Targets(P, x, {"fun", "create"}) : x \in FunctionInstrs(P, f)}

BuiltFunctions(P) ==
  {f \in DOMAIN P : \A S \in SUBSET (DOMAIN P \ {f}) :
     Main \in S => \E g \in S : ~(Called(P, g) \subseteq S)}

Instrs(P) == UNION {FunctionInstrs(P, f) : f \in BuiltFunctions(P)}

(* The nodes for callees of a kind.                                        *)
CalleeNodes(P, k) ==
  UNION {{CalleeFirst(P, x, IF InstrAt(P, x).ptr THEN c ELSE 0) :
            c \in {d \in DOMAIN InstrAt(P, x).to : InstrAt(P, x).to[d].k = k}} :
           x \in Instrs(P)}

CalleeOfNode(P, n) == CalleeOf(P, NodeInstr(n), n[4])

(* insertPthreadCreate: edges to the functions that may be spawned.        *)
ForkEdges(P) ==
  UNION {{<<n, EntryNode(f)>> : f \in CalleeOfNode(P, n).fns} : n \in CalleeNodes(P, "create")}

Edges(P) == UNION {FunctionEdges(P, f) : f \in BuiltFunctions(P)}

(* PointsTo of the value that a call of an undefined function returns: it  *)
(* is the unknown pointer, whatever its arguments are.                     *)
ResultPointsTo(n) == {"unknown"}

(* matchLocksAndUnlocks: all unlocks, since it asks for the points-to sets *)
(* of the two calls.                                                       *)
correspondingUnlocks(P, lock) ==
  {u \in CalleeNodes(P, "unlock") : ResultPointsTo(lock) \cap ResultPointsTo(u) # {}}

-----------------------------------------------------------------------------
CONSTANT Programs

ASSUME ProgramsAssumption == \A P \in Programs : WellFormed(P)

VARIABLES
  prog,      \* the program
  phase,     \* "pta", "locks", "regions", "run"
  pta,       \* joins: what pointer analysis found for them
  cfg,       \* the control flow graph
  cs,        \* CriticalSectionsBuilder
  tr,        \* ThreadRegionsBuilder
  deps       \* interference, fork-join and lock dependencies

vars == <<prog, phase, pta, cfg, cs, tr, deps>>

Joins == CalleeNodes(prog, "join")
Forks == CalleeNodes(prog, "create")
Locks == CalleeNodes(prog, "lock")

(* The order of nodes by function, block and position, in which the graph  *)
(* builder of pointer analysis meets them.                                 *)
Before(m, n) ==
  \/ m[1] < n[1]
  \/ m[1] = n[1] /\ m[2] < n[2]
  \/ m[1] = n[1] /\ m[2] = n[2] /\ m[3] < n[3]

-----------------------------------------------------------------------------
(* Pointer analysis finds out which handles and functions a call of        *)
(* pthread_create has.  A join node is processed whenever something        *)
(* changes.                                                                *)

Learn(fork) ==
  /\ phase = "pta"
  /\ fork \in Forks \ pta.known
  /\ pta' = [pta EXCEPT !.known = @ \cup {fork}, !.fresh = {}]
  /\ UNCHANGED <<prog, phase, cfg, cs, tr, deps>>

Handles(n) == CalleeOfNode(prog, n).h

MatchedForks(join) == {f \in pta.known : Handles(f) \cap Handles(join) # {}}

NewFunctions(join, fork) == CalleeOfNode(prog, fork).fns \ pta.functions[join]

AddedForksAll(join) ==
  {f \in MatchedForks(join) : NewFunctions(join, f) # {} /\ pta.functions[join] = {}}

(* matchJoinToRightCreate: changed is set by the first fork with a new     *)
(* function and stays set for the forks after it.                          *)
AddedForks(join) ==
  {f \in MatchedForks(join) :
     \E g \in MatchedForks(join) : (g = f \/ Before(g, f)) /\ NewFunctions(join, g) # {}}

matchJoinToRightCreate(join) ==
  /\ phase = "pta"
  /\ join \in Joins \ pta.fresh
  /\ pta' = [pta EXCEPT
       !.functions[join] = @ \cup UNION {CalleeOfNode(prog, f).fns : f \in MatchedForks(join)},
       !.forks[join] = @ \cup AddedForks(join),
       !.fresh = @ \cup {join}]
  /\ UNCHANGED <<prog, phase, cfg, cs, tr, deps>>

(* matchForksAndJoins: a fork that is called through a pointer is not      *)
(* found under its instruction.                                            *)
correspondingForks(join) == {f \in pta.forks[join] : f[4] = 0}

JoinEdges ==
  UNION {{<<ExitNode(f), j>> : f \in pta.functions[j]} : j \in Joins}

Outgoing(edges, n) == {e[2] : e \in {d \in edges : d[1] = n}}

ThreadEdges == ForkEdges(prog) \cup JoinEdges

Incoming(edges, n) == {e \in edges : e[2] = n}

(* Predecessors within a thread and those in other threads count together. *)
GraphOf(flow, threads) ==
  [nodes |-> UNION {{e[1], e[2]} : e \in flow},
   succ  |-> [n \in UNION {{e[1], e[2]} : e \in flow} |-> Outgoing(flow, n)],
   thr   |-> [n \in UNION {{e[1], e[2]} : e \in flow} |-> Outgoing(threads, n)],
   preds |-> [n \in UNION {{e[1], e[2]} : e \in flow} |->
                ({"flow"} \X Incoming(flow, n)) \cup ({"threads"} \X Incoming(threads, n))]]

(* ControlFlowGraph::buildFunction up to the searches.                     *)
BuildGraph ==
  /\ phase = "pta"
  /\ Forks \subseteq pta.known /\ Joins \subseteq pta.fresh
  /\ \E flow \in {Edges(prog)}, threads \in {ThreadEdges} : cfg' = GraphOf(flow, threads)
  /\ phase' = "locks"
  /\ UNCHANGED <<prog, pta, cs, tr, deps>>

-----------------------------------------------------------------------------
(* Depth-first search.  A frame: a node, its successors in other threads   *)
(* that are left, its other successors that are left.                      *)
Frame(n) == [node |-> n, thr |-> cfg.thr[n], succ |-> cfg.succ[n]]
LastFrame(n) == [node |-> n, thr |-> {}, succ |-> {}]

(* NodeIterator: successors in other threads come first.                   *)
NextSuccessors(fr) == IF fr.thr # {} THEN fr.thr ELSE fr.succ

Without(fr, s) ==
  IF fr.thr # {} THEN [fr EXCEPT !.thr = @ \ {s}] ELSE [fr EXCEPT !.succ = @ \ {s}]

NoFrames == <<>>
Popped(stack) == Tail(stack)
Advanced(stack, s) == <<Without(Head(stack), s)>> \o Tail(stack)

(* Critical sections.                                                      *)

VisitNodeToUnlock(st, stack, n) ==
  LET unlocks == st.currentUnlocks \ {n} IN
  [st EXCEPT !.visited = @ \cup {n},
             !.currentUnlocks = unlocks,
             !.stack = <<IF unlocks # st.currentUnlocks THEN LastFrame(n) ELSE Frame(n)>>
                         \o stack]

(* preVisit and the test in visit: the successors are not visited once all *)
(* unlocks have been seen.                                                 *)
VisitNode(st, stack, n) ==
  LET unlocks == st.currentUnlocks \ {n} IN
  [st EXCEPT !.visited = @ \cup {n},
             !.currentUnlocks = unlocks,
             !.stack = <<IF unlocks = {} THEN LastFrame(n) ELSE Frame(n)>> \o stack]

buildCriticalSection(lock) ==
  /\ phase = "locks" /\ cs.stack = NoFrames
  /\ lock \in Locks \ DOMAIN cs.sections
  /\ cs' = VisitNode([cs EXCEPT !.currentLock = lock,
                                !.currentUnlocks = correspondingUnlocks(prog, lock)],
                     NoFrames, lock)
  /\ UNCHANGED <<prog, phase, pta, cfg, tr, deps>>

VisitSuccessor(s) ==
  /\ phase = "locks" /\ cs.stack # NoFrames
  /\ s \in NextSuccessors(Head(cs.stack))
  /\ cs' = IF s \in cs.visited \cup cs.examined
           THEN [cs EXCEPT !.stack = Advanced(@, s)]
           ELSE VisitNode(cs, Advanced(cs.stack, s), s)
  /\ UNCHANGED <<prog, phase, pta, cfg, tr, deps>>

(* populateCriticalSection: the lock itself is not part of its section.    *)
Populated(examined) ==
  [cs EXCEPT !.sections = [l \in DOMAIN @ \cup {cs.currentLock} |->
                             IF l = cs.currentLock THEN examined \ {l} ELSE @[l]],
             !.ranOut = IF cs.currentUnlocks = {} THEN @ \cup {cs.currentLock} ELSE @,
             !.stack = NoFrames, !.visited = {}, !.examined = {}]

(* postVisit, and the end of the search when the lock is left.             *)
PostVisit ==
  /\ phase = "locks" /\ cs.stack # NoFrames
  /\ NextSuccessors(Head(cs.stack)) = {}
  /\ LET n == Head(cs.stack).node IN
     cs' = IF Len(cs.stack) = 1
           THEN Populated(cs.examined \cup {n})
           ELSE [cs EXCEPT !.stack = Popped(@), !.visited = @ \ {n},
                           !.examined = @ \cup {n}]
  /\ UNCHANGED <<prog, phase, pta, cfg, tr, deps>>

-----------------------------------------------------------------------------
(* Thread regions.  Regions are numbers; founding is their founding nodes. *)

EnterRegion(st, stack, n, r) ==
  [st EXCEPT !.visited = [m \in DOMAIN @ \cup {n} |-> IF m \in DOMAIN @ THEN @[m] ELSE r],
             !.stack = <<Frame(n)>> \o stack]

build ==
  /\ phase = "locks" /\ cs.stack = NoFrames /\ Locks \subseteq DOMAIN cs.sections
  /\ phase' = "regions"
  /\ tr' = EnterRegion([tr EXCEPT !.founding = <<EntryNode(Main)>>],
                       NoFrames, EntryNode(Main), 1)
  /\ UNCHANGED <<prog, pta, cfg, cs, deps>>

HasRegion(n) == n \in DOMAIN tr.visited \cup DOMAIN tr.examined
RegionOf(n) == IF n \in DOMAIN tr.examined THEN tr.examined[n] ELSE tr.visited[n]

RegionExamined(n) == HasRegion(n) /\ tr.founding[RegionOf(n)] \in DOMAIN tr.examined

NewRegionByType(caller, successor) ==
  \/ NodeType(caller) \in {"EXIT", "FORK"}
  \/ NodeType(successor) \in {"ENTRY", "JOIN"}

shouldCreateNewRegion(caller, successor) ==
  \/ NodeType(caller) \in {"EXIT", "FORK"}
  \/ NodeType(successor) \in {"ENTRY", "JOIN"}
  \/ \E d, e \in cfg.preds[successor] : d # e   \* predecessorsNumber() > 1

(* visit: one successor of the node on top.                                *)
Visit(s) ==
  /\ phase = "regions"
  /\ tr.stack # NoFrames
  /\ s \in NextSuccessors(Head(tr.stack))
  /\ LET n == Head(tr.stack).node
         stack == Advanced(tr.stack, s)
         fresh == Len(tr.founding) + 1
     IN  tr' = IF s \in DOMAIN tr.visited THEN [tr EXCEPT !.stack = stack]
               ELSE IF RegionExamined(s)
               THEN [tr EXCEPT !.stack = stack,
                               !.succ = @ \cup {<<RegionOf(n), RegionOf(s)>>}]
               ELSE IF shouldCreateNewRegion(n, s)
               THEN EnterRegion([tr EXCEPT !.founding = Append(@, s),
                                           !.succ = @ \cup {<<RegionOf(n), fresh>>}],
                                stack, s, fresh)
               ELSE EnterRegion(tr, stack, s, RegionOf(n))
  /\ UNCHANGED <<prog, phase, pta, cfg, cs, deps>>

Examine ==
  /\ phase = "regions"
  /\ tr.stack # NoFrames
  /\ NextSuccessors(Head(tr.stack)) = {}
  /\ LET n == Head(tr.stack).node IN
     tr' = [tr EXCEPT
              !.examined = [m \in DOMAIN @ \cup {n} |->
                              IF m \in DOMAIN @ THEN @[m] ELSE RegionOf(n)],
              !.visited = [m \in DOMAIN @ \ {n} |-> @[m]],
              !.stack = Popped(@)]
  /\ UNCHANGED <<prog, phase, pta, cfg, cs, deps>>

-----------------------------------------------------------------------------
(* The edges of the dependence graph, between instructions.                *)

RegionNodes(r) == {n \in DOMAIN tr.examined : tr.examined[n] = r}

llvmInstructions(nodes) == {NodeInstr(n) : n \in {m \in nodes : ~isArtificial(prog, m)}}

OfType(xs, op) == {x \in xs : InstrAt(prog, x).op = op}

parallelRegionsOthers(r) == DOMAIN tr.founding \ {r}

(* MayHappenInParallel::parallelRegions: all regions.                      *)
parallelRegions(r) == DOMAIN tr.founding

(* An unknown pointer may point anywhere.                                  *)
MayAlias(load, store) ==
  \/ InstrAt(prog, load).v \cap InstrAt(prog, store).v # {}
  \/ 0 \in InstrAt(prog, load).v \cup InstrAt(prog, store).v

computeInterferenceDependentEdges ==
  UNION {UNION {
      {e \in OfType(llvmInstructions(RegionNodes(a[1])), "store") \X
             OfType(llvmInstructions(RegionNodes(a[2])), "load") : MayAlias(e[2], e[1])} :
      a \in UNION {{<<r, p>>, <<p, r>>} : p \in parallelRegions(r)}} :
    r \in DOMAIN tr.founding}

(* A pair <<a, b>>: b is control dependent on a.                           *)
computeForkJoinDependencies ==
  UNION {{<<NodeInstr(j), NodeInstr(f)>> : f \in correspondingForks(j)} : j \in Joins}

computeCriticalSections ==
  UNION {{<<NodeInstr(l), x>> : x \in llvmInstructions(cs.sections[l])} \cup
         {<<NodeInstr(u), NodeInstr(l)>> : u \in correspondingUnlocks(prog, l)} :
         l \in Locks}

(* The end of build(), and what LLVMDependenceGraphBuilder calls after it. *)
ComputeDependencies ==
  /\ phase = "regions" /\ tr.stack = NoFrames
  /\ deps' = [interference |-> computeInterferenceDependentEdges,
              forkjoin |-> computeForkJoinDependencies,
              sections |-> computeCriticalSections]
  /\ phase' = "run"
  /\ UNCHANGED <<prog, pta, cfg, cs, tr>>

-----------------------------------------------------------------------------
NoMap == [n \in {} |-> 0]

BuilderInit ==
  /\ prog \in Programs
  /\ phase = "pta"
  /\ pta = [known |-> {f \in Forks : CalleeOfNode(prog, f).now}, fresh |-> {},
            functions |-> [j \in Joins |-> {}], forks |-> [j \in Joins |-> {}]]
  /\ cfg = [nodes |-> {}, succ |-> NoMap, thr |-> NoMap, preds |-> NoMap]
  /\ cs = [currentLock |-> EntryNode(Main), currentUnlocks |-> {}, visited |-> {},
           examined |-> {}, sections |-> NoMap, ranOut |-> {}, stack |-> NoFrames]
  /\ tr = [founding |-> <<>>, visited |-> NoMap, examined |-> NoMap,
           succ |-> {}, stack |-> NoFrames]
  /\ deps = [interference |-> {}, forkjoin |-> {}, sections |-> {}]

BuilderNext ==
  \/ \E f \in Forks : Learn(f)
  \/ \E j \in Joins : matchJoinToRightCreate(j)
  \/ BuildGraph
  \/ \E l \in Locks : buildCriticalSection(l)
  \/ \E s \in cfg.nodes : VisitSuccessor(s)
  \/ PostVisit
  \/ build
  \/ \E s \in cfg.nodes : Visit(s)
  \/ Examine
  \/ ComputeDependencies

=============================================================================
