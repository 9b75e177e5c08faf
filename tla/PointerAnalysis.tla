-------------------------- MODULE PointerAnalysis ---------------------------
(***************************************************************************)
(* The generic pointer analysis (lib/PointerAnalysis/PointerAnalysis.cpp)  *)
(* with the memory models of PointerAnalysisFI and PointerAnalysisFS       *)
(* (include/dg/PointerAnalysis).  run() processes all nodes, and then      *)
(* those reachable from nodes that changed something, until nothing        *)
(* changes.                                                                *)
(*                                                                         *)
(* A memory map is a set of triples: at this offset of this object there   *)
(* may be that pointer.  The flow-insensitive analysis has one map, number *)
(* 0; in the flow-sensitive one a node has a map of its own or shares the  *)
(* map of its predecessor.                                                 *)
(*                                                                         *)
(* The program representation is the one of PointerGraph.h and PSNode.h:   *)
(* nodes with operands that are connected by control flow, calls and       *)
(* returns, and global nodes that are processed before.  Threads and freed *)
(* memory are left out.                                                    *)
(***************************************************************************)
EXTENDS Integers, FiniteSets, Sequences, SequencesExt

CONSTANTS
  N,          \* the nodes are numbered 1..N
  UNKNOWN     \* Offset::UNKNOWN, the largest offset

ASSUME NAssumption == N \in Nat \ {0}
ASSUME UNKNOWNAssumption == UNKNOWN \in Nat \ {0}

Node == 1 .. N

NULLPTR == 0                 \* PointerGraphReservedIDs
UNKNOWN_MEMORY == N + 1

Target == Node \cup {NULLPTR, UNKNOWN_MEMORY}
Offset == 0 .. UNKNOWN

(* class Pointer: where the memory was allocated, and an offset into it.   *)
Pointer == Target \X Offset

NullPointer    == <<NULLPTR, 0>>
UnknownPointer == <<UNKNOWN_MEMORY, UNKNOWN>>

NodeType == {"ALLOC", "STORE", "LOAD", "GEP", "CAST", "PHI", "MEMCPY", "NOOP",
             "CONSTANT", "FUNCTION", "ENTRY", "RETURN",
             "CALL", "CALL_FUNCPTR", "CALL_RETURN"}

(* A program: for every node its type, operands and successors; the size   *)
(* of what ALLOC allocates; an offset (GEP, CONSTANT) or a length; the     *)
(* allocations that are zero-initialized; the global nodes in the order of *)
(* their creation; the root of the entry procedure; and the roots that     *)
(* calls lead to and the nodes that returns lead to.                       *)
PSNodes == [type : [Node -> NodeType],
            op   : [Node -> Seq(Target)],
            succ : [Node -> Seq(Node)],
            size : [Node -> Offset],
            off  : [Node -> Offset],
            zero : SUBSET Node,
            globals : Seq(Node),
            root : Node,
            callees : [Node -> Seq(Node)],
            returns : [Node -> Seq(Node)]]

(* What the constructors of PSNode ask for, and what createGlobal makes:   *)
(* global nodes are not connected with others and need no second visit.    *)
WellFormed(P) ==
  /\ \A x \in Node :
       /\ P.type[x] \in {"LOAD", "GEP", "CAST", "CONSTANT"} => Len(P.op[x]) = 1
       /\ P.type[x] \in {"STORE", "MEMCPY"} => Len(P.op[x]) = 2
       /\ P.type[x] = "FUNCTION" => P.size[x] = 0
  /\ \A g \in Range(P.globals) :
       /\ P.type[g] \in {"ALLOC", "FUNCTION", "CONSTANT", "STORE"}
       /\ g # P.root
       /\ \A x \in Node : g \notin Range(P.succ[x]) \cup Range(P.callees[x])
                                       \cup Range(P.returns[x])

Succ(P, n) == Range(P.succ[n])
Preds(P, n) == {m \in Node : n \in Succ(P, m)}

(* Parallel edges are counted.                                             *)
PredecessorsNum(P, n) ==
  Cardinality(UNION {{<<m, i>> : i \in {j \in DOMAIN P.succ[m] : P.succ[m][j] = n}} :
                       m \in Node})

(* EdgeChooser: calls lead into the called procedures, returns back to the *)
(* calls.                                                                  *)
Dispatched(P, n) ==
  IF P.callees[n] # <<>> THEN P.callees[n]
  ELSE IF P.returns[n] # <<>> THEN P.returns[n] ELSE P.succ[n]

(* getNodes(start): a breadth-first walk; a node is marked when it is put  *)
(* into the queue, so the order of the queue is the order of the result.   *)
(* From n the nodes that are not yet marked are queued, each once.         *)
Walked(P, seen, n) ==
  LET d   == Dispatched(P, n)
      new == {j \in DOMAIN d : /\ d[j] \notin Range(seen)
                              /\ \A i \in 1 .. j - 1 : d[i] # d[j]}
  IN  seen \o [i \in 1 .. Cardinality(new) |->
                 d[CHOOSE j \in new : Cardinality({k \in new : k <= j}) = i]]

(* The k-th node is visited; the walk so far is the only element of S.     *)
Visiting(P, S, k) ==
  CHOOSE walk \in {IF k > Len(seen) THEN seen ELSE Walked(P, seen, seen[k]) : seen \in S} : TRUE

GetNodes(P, start) ==
  LET w[k \in 0 .. N] == IF k = 0 THEN start ELSE Visiting(P, {w[k - 1]}, k)
  IN  w[N]

(* Nodes that control flow leads to from n, n itself only if it is on a    *)
(* cycle.                                                                  *)
After(P, n) ==
  LET r[k \in 0 .. N] ==
        IF k = 0 THEN Succ(P, n)
        ELSE UNION {prev \cup UNION {Succ(P, m) : m \in prev} : prev \in {r[k - 1]}}
  IN  r[N]

(* computeLoops(): strongly connected components, a component of one node  *)
(* only if the node is its own single successor.                           *)
OnLoop(P, n) ==
  \/ \E m \in Node \ {n} : m \in After(P, n) /\ n \in After(P, m)
  \/ P.succ[n] = <<n>>

-----------------------------------------------------------------------------
CONSTANTS
  Programs,          \* the programs that are analysed
  Limits,            \* values of options.maxIterations; 0 is no limit
  FieldSensitivity   \* options.fieldSensitivity

ASSUME OptionsAssumption ==
  /\ Programs \subseteq {P \in PSNodes : WellFormed(P)}
  /\ Limits \subseteq Nat
  /\ FieldSensitivity \in Offset

VARIABLES
  prog,           \* the program
  flow,           \* "FI" or "FS"
  maxIterations,  \* options.maxIterations
  pc,             \* "globals", "fixpoint" or "done"
  pointsTo,       \* node->pointsTo
  gepOffset,      \* gep->getOffset()
  zero,           \* target->isZeroInitialized()
  data,           \* the number of the node's memory map, -1: none yet
  mem,            \* the memory maps
  to_process,     \* the nodes of this iteration that are still to be processed
  changed,        \* nodes that changed something in this iteration
  n,              \* the number of iterations
  result          \* what run() returns

vars == <<prog, flow, maxIterations, pc, pointsTo, gepOffset, zero, data, mem,
          to_process, changed, n, result>>

Cell == Node \X Offset \X Pointer

TypeOK ==
  /\ prog \in PSNodes
  /\ flow \in {"FI", "FS"}
  /\ maxIterations \in Nat
  /\ pc \in {"globals", "fixpoint", "done"}
  /\ pointsTo \in [Node -> SUBSET Pointer]
  /\ gepOffset \in [Node -> Offset]
  /\ zero \in SUBSET Node
  /\ data \in [Node -> -1 .. N]
  /\ mem \in [0 .. N -> SUBSET Cell]
  /\ to_process \in Seq(Node)
  /\ changed \in Seq(Node)
  /\ n \in Nat
  /\ result \in BOOLEAN

(* Objects, which point to themselves.                                     *)
Allocates(x) == prog.type[x] \in {"ALLOC", "FUNCTION"}

(* What the constructors of the nodes let them point to.                   *)
Constructed(x) ==
  IF Allocates(x) THEN {<<x, 0>>}
  ELSE IF prog.type[x] = "CONSTANT" THEN {<<prog.op[x][1], prog.off[x]>>} ELSE {}

(* preprocessGEPs(), the option's default in the flow-insensitive analysis.*)
Preprocessed(P, f) ==
  [x \in Node |-> IF f = "FI" /\ P.type[x] = "GEP" /\ OnLoop(P, x) THEN UNKNOWN
                                                                   ELSE P.off[x]]

(* preprocess() and queue_globals().                                       *)
Init ==
  /\ prog \in Programs
  /\ flow \in {"FI", "FS"}
  /\ maxIterations \in Limits
  /\ pc = "globals"
  /\ pointsTo = [x \in Node |-> Constructed(x)]
  /\ gepOffset = Preprocessed(prog, flow)
  /\ zero = prog.zero
  /\ data = [x \in Node |-> IF flow = "FI" THEN 0 ELSE -1]
  /\ mem = [k \in 0 .. N |-> {}]
  /\ to_process = prog.globals
  /\ changed = <<>>
  /\ n = 0
  /\ result = TRUE

-----------------------------------------------------------------------------
(* Points-to sets (PointerIdPointsToSet).                                  *)
(***************************************************************************)
(* Pointers added one by one: an unknown offset replaces the other offsets *)
(* of its target, and stands for them from then on.  (The union of two     *)
(* sets, in contrast, keeps all pointers.)                                 *)
AddEach(S, P) ==
  {q \in S \cup P : \/ <<q[1], UNKNOWN>> \in S /\ q \in S
                    \/ <<q[1], UNKNOWN>> \notin S
                       /\ (<<q[1], UNKNOWN>> \in P => q[2] = UNKNOWN)}

(* The same for the sets in the cells of a memory map.                     *)
AddEachCell(m, C) ==
  {c \in m \cup C :
     LET any == <<c[1], c[2], <<c[3][1], UNKNOWN>>>> IN
     \/ any \in m /\ c \in m
     \/ any \notin m /\ (any \in C => c[3][2] = UNKNOWN)}

PointsTo(x) == IF x = NULLPTR THEN {NullPointer}
               ELSE IF x = UNKNOWN_MEMORY THEN {UnknownPointer} ELSE pointsTo[x]

SizeOf(t) == IF t \in Node THEN prog.size[t] ELSE 0

(* canBeDereferenced().                                                    *)
Memory(S) == {ptr \in S : ptr[1] \in Node /\ prog.type[ptr[1]] # "FUNCTION"}

-----------------------------------------------------------------------------
(* processNode(x), with the memory map m.                                  *)
(***************************************************************************)
At(m, t, o) == {c[3] : c \in {d \in m : d[1] = t /\ d[2] = o}}
Anywhere(m, t) == {c[3] : c \in {d \in m : d[1] = t}}

(* Mutant: pointers stored at unknown offsets are forgotten.               *)
LoadedExactOffset(m, ptr) ==
  IF ptr[2] = UNKNOWN THEN Anywhere(m, ptr[1]) ELSE At(m, ptr[1], ptr[2])

(* processLoad: what the memory that ptr points to may hold.               *)
Loaded(m, ptr) ==
  IF ptr[2] = UNKNOWN THEN Anywhere(m, ptr[1])
  ELSE At(m, ptr[1], ptr[2]) \cup At(m, ptr[1], UNKNOWN)

(* Zero-initialized memory without pointers there is loaded as null.       *)
LoadsNull(m, ptr) ==
  /\ ptr[1] \in zero
  /\ IF ptr[2] = UNKNOWN THEN Anywhere(m, ptr[1]) = {} ELSE At(m, ptr[1], ptr[2]) = {}

(* (A null that (null, UNKNOWN) stands for may also be kept, depending on  *)
(* the order of pointers; here it is not.)                                 *)
ProcessLoad(x, m) ==
  LET P == PointsTo(prog.op[x][1]) IN
  AddEach(pointsTo[x],
          {UnknownPointer : ptr \in P \cap {UnknownPointer}}
            \cup {NullPointer : ptr \in {q \in Memory(P) : LoadsNull(m, q)}})
    \cup UNION {Loaded(m, ptr) : ptr \in Memory(P)}

(* processGep; offsets are unsigned and wrap.                              *)
Shifted(x, ptr) ==
  LET o == (ptr[2] + gepOffset[x]) % (UNKNOWN + 1) IN
  IF /\ ptr[2] # UNKNOWN /\ gepOffset[x] # UNKNOWN
     /\ o = 0 \/ o < SizeOf(ptr[1])
     /\ o < FieldSensitivity
  THEN <<ptr[1], o>>
  ELSE <<ptr[1], UNKNOWN>>

(* processMemcpy for one source and one destination pointer.               *)
CopiedNull(src, dst, len) ==
  /\ src[1] \in zero
  /\ ~(SizeOf(src[1]) # UNKNOWN /\ SizeOf(src[1]) = SizeOf(dst[1])
         /\ len = SizeOf(src[1]) /\ src[2] = 0)

InRange(o, src, len) ==
  \/ o = UNKNOWN \/ src[2] = UNKNOWN
  \/ src[2] <= o /\ (len = UNKNOWN \/ o - src[2] < len)

Moved(o, src, dst) ==
  LET new == o - src[2] + dst[2] IN
  IF \/ UNKNOWN \in {o, src[2], dst[2]}
     \/ UNKNOWN - dst[2] <= o - src[2]
     \/ new >= SizeOf(dst[1]) \/ new >= FieldSensitivity
  THEN UNKNOWN ELSE new

Copied(m, src, dst, len) ==
  {<<dst[1], Moved(c[2], src, dst), c[3]>> :
     c \in {d \in m : d[1] = src[1] /\ InRange(d[2], src, len)}}

Copies(x) == Memory(PointsTo(prog.op[x][1])) \X Memory(PointsTo(prog.op[x][2]))

(* The points-to set after processNode(x) ...                              *)
PointsToAfter(x, m) ==
  LET ops == prog.op[x] IN
  CASE prog.type[x] = "LOAD" -> ProcessLoad(x, m)
    [] prog.type[x] = "GEP" ->
         AddEach(pointsTo[x], {Shifted(x, ptr) : ptr \in PointsTo(ops[1])})
    [] prog.type[x] \in {"CAST", "PHI", "RETURN", "CALL_RETURN"} ->
         pointsTo[x] \cup UNION {PointsTo(o) : o \in Range(ops)}
    [] OTHER -> pointsTo[x]

(* ... the memory map (where the objects that memcpy copies from and to    *)
(* overlap, the code may copy a pointer on in the same visit; here that    *)
(* takes another one) ...                                                  *)
MemoryAfter(x, m) ==
  LET ops == prog.op[x] IN
  CASE prog.type[x] = "STORE" ->
         m \cup {<<ptr[1], ptr[2], v>> : ptr \in Memory(PointsTo(ops[2])),
                                         v \in PointsTo(ops[1])}
    [] prog.type[x] = "MEMCPY" ->
         AddEachCell(m, {<<c[2][1], UNKNOWN, NullPointer>> :
                           c \in {d \in Copies(x) : CopiedNull(d[1], d[2], prog.off[x])}})
           \cup UNION {Copied(m, c[1], c[2], prog.off[x]) : c \in Copies(x)}
    [] OTHER -> m

(* ... and the zero-initialized objects: a memcpy of a whole object.       *)
ZeroAfter(x) ==
  zero \cup
  IF prog.type[x] # "MEMCPY" THEN {}
  ELSE {c[2][1] : c \in {d \in Copies(x) : d[1][1] \in zero
                                       /\ ~CopiedNull(d[1], d[2], prog.off[x])}}

-----------------------------------------------------------------------------
(* The hooks of the flow-sensitive analysis.                               *)
(***************************************************************************)
NeedsMerge(x) ==
  \/ PredecessorsNum(prog, x) # 1
  \/ prog.type[x] \in {"STORE", "MEMCPY", "CALL_FUNCPTR", "CALL_RETURN"}

(* The nodes whose maps flow into the map of x: predecessors, the returns  *)
(* of a called procedure, the calls of an entered one.                     *)
FlowsInto(x) ==
  Preds(prog, x)
    \cup {p \in Node : prog.type[x] = "CALL_RETURN" /\ x \in Range(prog.returns[p])}
    \cup {p \in Node : prog.type[x] = "ENTRY" /\ x \in Range(prog.callees[p])}

(* beforeProcessed(x): the number of the map, and the map itself.          *)
MapOf(x) ==
  IF data[x] # -1 THEN data[x]
  ELSE IF NeedsMerge(x) THEN x
  ELSE data[CHOOSE p \in Preds(prog, x) : TRUE]

GlobalsState ==
  AddEachCell({}, UNION {mem[data[g]] :
                           g \in {h \in Range(prog.globals) : data[h] # -1}})

Before(x) ==
  IF data[x] = -1 /\ NeedsMerge(x) /\ x = prog.root THEN GlobalsState
                                                    ELSE mem[MapOf(x)]

(* Mutant: memory allocated in a loop is overwritten, too.                 *)
OverwrittenInLoops(x) ==
  IF prog.type[x] = "STORE" THEN PointsTo(prog.op[x][2]) ELSE {}

(* Every store to memory that was not allocated in a loop overwrites what  *)
(* its operand points to.                                                  *)
Overwritten(x) ==
  IF /\ prog.type[x] = "STORE"
     /\ \A ptr \in Memory(PointsTo(prog.op[x][2])) : ~OnLoop(prog, ptr[1])
  THEN PointsTo(prog.op[x][2]) ELSE {}

(* afterProcessed(x): what these maps add.                                 *)
Merged(x) ==
  IF flow = "FI" \/ ~NeedsMerge(x) THEN {}
  ELSE LET dataNow == [data EXCEPT ![x] = MapOf(x)]
           maps == {dataNow[p] : p \in {q \in FlowsInto(x) : dataNow[q] # -1}}
       IN  {c \in UNION {mem[k] : k \in maps} : <<c[1], c[2]>> \notin Overwritten(x)}

-----------------------------------------------------------------------------
(* One turn of the loop in iteration().                                    *)
Process(x) ==
  LET k      == MapOf(x)
      before == Before(x)
      stored == MemoryAfter(x, before)
      after  == AddEachCell(stored, Merged(x))
  IN
  /\ pc # "done"
  /\ to_process # <<>>
  /\ x = Head(to_process)
  /\ pointsTo' = [pointsTo EXCEPT ![x] = PointsToAfter(x, before)]
  /\ mem' = [mem EXCEPT ![k] = after]
  /\ zero' = ZeroAfter(x)
  /\ data' = [data EXCEPT ![x] = k]
  /\ changed' = IF data[x] = -1 \/ pointsTo' # pointsTo \/ after # before
                THEN Append(changed, x) ELSE changed
  /\ to_process' = Tail(to_process)
  /\ UNCHANGED <<prog, flow, maxIterations, pc, gepOffset, n, result>>

IterationEnds == pc # "done" /\ to_process = <<>>

(* The globals are done; initialize_queue() and the first iteration.       *)
EndGlobals ==
  /\ IterationEnds
  /\ pc = "globals"
  /\ pc' = "fixpoint"
  /\ to_process' = GetNodes(prog, <<prog.root>>)
  /\ changed' = <<>>
  /\ n' = 1
  /\ UNCHANGED <<prog, flow, maxIterations, pointsTo, gepOffset, zero, data, mem,
                 result>>

LimitReached == maxIterations > 0 /\ n > maxIterations

(* queue_changed(), and another iteration.                                 *)
Repeat ==
  /\ IterationEnds
  /\ pc = "fixpoint"
  /\ changed # <<>>
  /\ ~LimitReached
  /\ to_process' = GetNodes(prog, changed)
  /\ changed' = <<>>
  /\ n' = n + 1
  /\ UNCHANGED <<prog, flow, maxIterations, pc, pointsTo, gepOffset, zero, data,
                 mem, result>>

(* Mutant: what is not finished is kept.                                   *)
GiveUpKeepsSets ==
  /\ IterationEnds
  /\ pc = "fixpoint"
  /\ changed # <<>>
  /\ LimitReached
  /\ changed' = <<>>
  /\ result' = FALSE
  /\ pc' = "done"
  /\ UNCHANGED <<prog, flow, maxIterations, pointsTo, gepOffset, zero, data, mem,
                 to_process, n>>

(* Too many iterations: what is queued is set to empty (setToEmpty).       *)
GiveUp ==
  /\ IterationEnds
  /\ pc = "fixpoint"
  /\ changed # <<>>
  /\ LimitReached
  /\ pointsTo' = [x \in Node |-> IF /\ x \in Range(GetNodes(prog, changed))
                                    /\ prog.type[x] \notin {"ALLOC", "CONSTANT"}
                                 THEN {} ELSE pointsTo[x]]
  /\ changed' = <<>>
  /\ result' = FALSE
  /\ pc' = "done"
  /\ UNCHANGED <<prog, flow, maxIterations, gepOffset, zero, data, mem,
                 to_process, n>>

(* Mutant: the loop is left only below the limit, also if there is none.   *)
FinishBelowLimit ==
  /\ IterationEnds
  /\ pc = "fixpoint"
  /\ changed = <<>>
  /\ n <= maxIterations
  /\ result' = TRUE
  /\ pc' = "done"
  /\ UNCHANGED <<prog, flow, maxIterations, pointsTo, gepOffset, zero, data, mem,
                 to_process, changed, n>>

(* Nothing changed any more.                                               *)
Finish ==
  /\ IterationEnds
  /\ pc = "fixpoint"
  /\ changed = <<>>
  /\ result' = (maxIterations > 0 => n <= maxIterations)
  /\ pc' = "done"
  /\ UNCHANGED <<prog, flow, maxIterations, pointsTo, gepOffset, zero, data, mem,
                 to_process, changed, n>>

Run == \/ \E x \in Node : Process(x)
       \/ EndGlobals \/ Repeat \/ GiveUp \/ Finish

Spec == Init /\ [][Run]_vars

=============================================================================
