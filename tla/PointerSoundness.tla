------------------------- MODULE PointerSoundness ---------------------------
(***************************************************************************)
(* What the pointer analysis promises.  When the analysis has finished, an *)
(* execution of the analysed program begins, and every pointer that a node *)
(* computes must be one that the analysis has found ("PTA is               *)
(* over-approximation", lib/PointerAnalysis/PointerAnalysis.cpp:11).       *)
(*                                                                         *)
(* The execution defines the meaning of the nodes that the analysis        *)
(* assumes.  A pointer occupies one cell, operations that are undefined in *)
(* C stop the execution, and null pointers are not asked for: loads from   *)
(* zero-initialized memory find them only while nothing else is stored     *)
(* there.                                                                  *)
(***************************************************************************)
EXTENDS PointerAnalysis

CONSTANT Instances   \* bound: how often an allocation is executed

ASSUME InstancesAssumption == Instances \in Nat \ {0}

VARIABLES
  rest,    \* the nodes that are executed next: globals, then one at a time
  env,     \* what the nodes have computed
  heap,    \* the defined cells of the objects, one object for every execution
           \* of an allocation
  live     \* how often every allocation was executed

svars == <<rest, env, heap, live>>
allVars == <<vars, svars>>

UNDEFINED == <<-1, 0, 0>>
NULL      == <<NULLPTR, 0, 0>>

Address == Node \X (1 .. Instances) \X Offset
Value == Address \cup {UNDEFINED, NULL}
Place == Node \X (1 .. Instances) \X (0 .. UNKNOWN - 1)

SoundInit ==
  /\ Init
  /\ rest = prog.globals \o <<prog.root>>
  /\ env = [x \in Node |-> UNDEFINED]
  /\ heap = <<>>
  /\ live = [x \in Node |-> 0]

-----------------------------------------------------------------------------
(* The values of an operand; UNKNOWN_MEMORY is any address of an object.   *)
Values(o) ==
  IF o = NULLPTR THEN {NULL}
  ELSE IF o = UNKNOWN_MEMORY THEN {v \in Address : v[2] <= live[v[1]]}
  ELSE {env[o]}

(* One of these pointers stands for the address.                           *)
Covered(v, S) ==
  \/ v \notin Address
  \/ <<v[1], v[3]>> \in S
  \/ <<v[1], UNKNOWN>> \in S
  \/ UnknownPointer \in S

(* The cell can be accessed.                                               *)
Inside(v) == v \in Address /\ v[3] < prog.size[v[1]] /\ v \in Place

Add(v, d) == <<v[1], v[2], (v[3] + d) % (UNKNOWN + 1)>>

Amounts(x) == IF prog.off[x] = UNKNOWN THEN Offset ELSE {prog.off[x]}

(* h with the cells of f written.                                          *)
HeapWith(h, f) == [l \in DOMAIN f \cup DOMAIN h |-> IF l \in DOMAIN f THEN f[l] ELSE h[l]]

(* The outcomes of executing x: its value and the heap afterwards.         *)
Allocated(x) ==
  LET cells == {l \in Place : l[1] = x /\ l[2] = live[x] + 1 /\ x \in prog.zero} IN
  {[val |-> <<x, live[x] + 1, 0>>, heap |-> HeapWith(heap, [l \in cells |-> NULL])]}

Stored(x) ==
  {[val |-> UNDEFINED, heap |-> HeapWith(heap, [l \in {w[2]} |-> w[1]])] :
     w \in {u \in Values(prog.op[x][1]) \X Values(prog.op[x][2]) :
              u[1] # UNDEFINED /\ Inside(u[2])}}

(* memcpy of len cells from s to d, undefined cells included.              *)
HeapWithCopy(s, d, len) ==
  LET written == {Add(d, i) : i \in 0 .. len - 1}
      from(l) == Add(s, l[3] - d[3])
  IN  [l \in {k \in written : from(k) \in DOMAIN heap} \cup (DOMAIN heap \ written) |->
         IF l \in written THEN heap[from(l)] ELSE heap[l]]

CopiedCells(x) ==
  {[val |-> UNDEFINED, heap |-> HeapWithCopy(w[1], w[2], w[3])] :
     w \in {u \in Values(prog.op[x][1]) \X Values(prog.op[x][2]) \X (Amounts(x) \ {0}) :
              /\ Inside(u[1]) /\ u[1][3] + u[3] <= prog.size[u[1][1]]
              /\ Inside(u[2]) /\ u[2][3] + u[3] <= prog.size[u[2][1]]}}

Computed(x) ==
  LET ops == prog.op[x] IN
  CASE prog.type[x] = "LOAD" -> {heap[a] : a \in {v \in Values(ops[1]) : Inside(v)} \cap DOMAIN heap}
    [] prog.type[x] = "GEP" -> {Add(v, d) : v \in Values(ops[1]) \cap Address,
                                            d \in Amounts(x)}
    [] prog.type[x] = "CONSTANT" ->
         {NULL : o \in {NULLPTR} \cap Range(ops)}
           \cup {v \in Address : v[2] <= live[v[1]] /\ Covered(v, {<<ops[1], prog.off[x]>>})}
    [] OTHER -> UNION {Values(o) : o \in Range(ops)}

Outcomes(x) ==
  CASE Allocates(x) -> Allocated(x)
    [] prog.type[x] = "STORE" -> Stored(x)
    [] prog.type[x] = "MEMCPY" -> CopiedCells(x)
    [] prog.type[x] \in {"NOOP", "ENTRY", "CALL", "CALL_FUNCPTR"} ->
         {[val |-> UNDEFINED, heap |-> heap]}
    [] prog.type[x] \in {"RETURN", "CALL_RETURN"} ->
         {[val |-> v, heap |-> heap] : v \in Computed(x) \cup {UNDEFINED}}
    [] OTHER -> {[val |-> v, heap |-> heap] : v \in Computed(x) \ {UNDEFINED}}

Execute(x) ==
  /\ pc = "done"
  /\ rest # <<>>
  /\ x = Head(rest)
  /\ Allocates(x) => live[x] < Instances
  /\ \E o \in Outcomes(x) :
       /\ env' = [env EXCEPT ![x] = o.val]
       /\ heap' = o.heap
  /\ live' = [live EXCEPT ![x] = IF Allocates(x) THEN @ + 1 ELSE @]
  /\ \/ Len(rest) > 1 /\ rest' = Tail(rest)
     \/ Len(rest) = 1 /\ \E s \in Range(Dispatched(prog, x)) : rest' = <<s>>
     \/ Len(rest) = 1 /\ Dispatched(prog, x) = <<>> /\ rest' = <<>>
  /\ UNCHANGED vars

SoundNext ==
  \/ Run /\ UNCHANGED svars
  \/ \E x \in Node : Execute(x)

(* run() is one sequential computation that nothing interrupts.            *)
SoundSpec ==
  /\ SoundInit
  /\ [][SoundNext]_allVars
  /\ WF_allVars(Run /\ UNCHANGED svars)

-----------------------------------------------------------------------------
FoundEverything == \A x \in Node : Covered(env[x], pointsTo[x])

(* Stores and copies through unknown pointers change no memory of the      *)
(* analysis; its results are about programs in which it meets none.        *)
WritesKnown ==
  /\ \A x \in Node : prog.type[x] \in {"STORE", "MEMCPY"} =>
                       UnknownPointer \notin PointsTo(prog.op[x][2])
  /\ \A x \in Node : prog.type[x] = "MEMCPY" =>
                       UnknownPointer \notin PointsTo(prog.op[x][1])

(* "Queue only reachable nodes" (the NOTE in run()): what was generated    *)
(* elsewhere can never get to a node at run time.                          *)
ReachableSuffice ==
  pc = "done" /\ result /\ flow = "FI" /\ WritesKnown => FoundEverything

(* The nodes behind x, and x itself.                                       *)
Reached(x) == Range(GetNodes(prog, <<x>>))

(* The objects that x may write, with the targets of the pointers that it  *)
(* may write there.                                                        *)
Written(x) ==
  CASE prog.type[x] = "STORE" ->
         {<<a[1], v[1]>> : a \in Memory(PointsTo(prog.op[x][2])),
                           v \in PointsTo(prog.op[x][1])}
    [] prog.type[x] = "MEMCPY" ->
         {a[1] : a \in Memory(PointsTo(prog.op[x][2]))} \X Target
    [] OTHER -> {}

(* Nodes that read memory after x.                                         *)
ReadsBehind(x) ==
  {y \in Reached(IF x \in Range(prog.globals) THEN prog.root ELSE x) :
     prog.type[y] \in {"LOAD", "MEMCPY"}}

(* Processing x once more would change nothing.                            *)
Settled(x) ==
  PointsToAfter(x, mem[0]) = pointsTo[x] /\ MemoryAfter(x, mem[0]) = mem[0]

(* It can: where two nodes write the same pointer to the same object, the  *)
(* second one to do so changes nothing, and only nodes behind the first    *)
(* one are queued.  Reads that are behind only one of them must be settled.*)
ReadsSettled ==
  \A x, z \in Reached(prog.root) \cup Range(prog.globals) :
    Written(x) \cap Written(z) # {} =>
      \A y \in ReadsBehind(x) \ ReadsBehind(z) : Settled(y)

(* But for such reads the flow-insensitive analysis finds every pointer,   *)
(* although it queues only what is reachable from changed nodes.           *)
SoundFI ==
  pc = "done" /\ result /\ flow = "FI" /\ WritesKnown =>
    FoundEverything \/ ~ReadsSettled

(* The same for the flow-sensitive analysis.                               *)
SoundFS ==
  pc = "done" /\ result /\ flow = "FS" /\ WritesKnown => FoundEverything

(* A strong update is one of a single cell that exists once.               *)
StrongUpdatesJustified ==
  \A x \in Node : prog.type[x] = "STORE" =>
    LET S == PointsTo(prog.op[x][2]) IN
    /\ Cardinality(S) <= 1
    /\ \A ptr \in Memory(S) : /\ ptr[2] # UNKNOWN
                              /\ ptr[1] \in After(prog, ptr[1]) => OnLoop(prog, ptr[1])

(* The flow-sensitive analysis finds every pointer in programs whose       *)
(* stores each have one target.                                            *)
SoundFSWhereJustified ==
  /\ pc = "done" /\ result /\ flow = "FS" /\ WritesKnown /\ StrongUpdatesJustified
  => FoundEverything

(* When run() gives up, it empties the sets that it could not finish; the  *)
(* others can be relied on, but for reads that are not settled and that    *)
(* are not behind all writes.                                              *)
SoundWhereNotEmptied ==
  pc = "done" /\ ~result /\ flow = "FI" /\ WritesKnown =>
    \/ \A x \in Node : pointsTo[x] = {} \/ Covered(env[x], pointsTo[x])
    \/ \E y \in ReadsBehind(prog.root), z \in Node :
         /\ prog.type[z] \in {"STORE", "MEMCPY"} /\ y \notin ReadsBehind(z)
         /\ pointsTo[y] = {} => prog.type[y] = "MEMCPY"
         /\ ~Settled(y)

(* The analysis ends.                                                      *)
Terminates == <>(pc = "done")

-----------------------------------------------------------------------------
(***************************************************************************)
(* Programs for model checking: two global objects with two cells and an   *)
(* entry procedure with a local object, a pointer, two writes and a read,  *)
(* in several control-flow graphs.                                         *)
(***************************************************************************)
Instr(type, op, off) == [type |-> type, op |-> op, off |-> off]

Alloc == Instr("ALLOC", <<>>, 0)

Pointers == {Alloc, Instr("PHI", <<1, 3>>, 0), Instr("PHI", <<3, 4>>, 0),
             Instr("PHI", <<3, 6>>, 0), Instr("GEP", <<3>>, UNKNOWN),
             Instr("LOAD", <<1>>, 0), Instr("CAST", <<UNKNOWN_MEMORY>>, 0)}

Writes1 == {Instr("STORE", <<v, a>>, 0) : v \in {1, 2}, a \in {3, 4}}
             \cup {Instr("STORE", <<7, 1>>, 0), Instr("LOAD", <<3>>, 0)}

Writes2 == {Instr("STORE", <<v, a>>, 0) : v \in {2, 4}, a \in {3, 4}}
             \cup {Instr("STORE", <<2, 5>>, 0), Instr("GEP", <<4>>, 1)}
             \cup {Instr("MEMCPY", <<s, 1>>, len) : s \in {3, 4}, len \in {1, 2}}

Reads == {Instr("LOAD", <<a>>, 0) : a \in {1, 3, 4}}

(* A branch around the second write, a loop that reads first, a loop that  *)
(* allocates, and a read behind the second write only, which the walk      *)
(* comes to before both.                                                   *)
Branch   == <<<<>>, <<>>, <<4>>, <<5>>, <<6, 7>>, <<7>>, <<>>, <<3>>>>
Loop     == <<<<>>, <<>>, <<4>>, <<7>>, <<6>>, <<4>>, <<5>>, <<3>>>>
Repeated == <<<<>>, <<>>, <<4>>, <<5>>, <<6, 3>>, <<7>>, <<3>>, <<3>>>>
Shortcut == <<<<>>, <<>>, <<7, 5, 4>>, <<6>>, <<>>, <<7>>, <<>>, <<3>>>>

(* A procedure that writes and returns a pointer, from which its caller    *)
(* loads; one of the objects may be a function or a constant pointer.      *)
CallPrograms ==
  {[type |-> <<"ALLOC", g, "CALL", "ENTRY", "STORE", "RETURN",
               "CALL_RETURN", "LOAD">>,
    op   |-> <<<<>>, IF g = "CONSTANT" THEN <<1>> ELSE <<>>, <<>>, <<>>,
               <<v, a>>, <<r>>, <<6>>, <<7>>>>,
    succ |-> <<<<>>, <<>>, <<>>, <<5>>, <<6>>, <<>>, <<8>>, <<>>>>,
    size |-> [x \in 1 .. 8 |-> IF x = 1 \/ (x = 2 /\ g = "ALLOC") THEN 2 ELSE 0],
    off  |-> [x \in 1 .. 8 |-> IF x = 2 /\ g = "CONSTANT" THEN 1 ELSE 0],
    zero |-> {1},
    globals |-> <<1, 2>>,
    root |-> 3,
    callees |-> [x \in 1 .. 8 |-> IF x = 3 THEN <<4>> ELSE <<>>],
    returns |-> [x \in 1 .. 8 |-> IF x = 6 THEN <<7>> ELSE <<>>]] :
   g \in {"ALLOC", "CONSTANT", "FUNCTION"},
   v \in {1, 2}, a \in {1, 2}, r \in {1, 2}}

MCPrograms == CallPrograms \cup
  {[type |-> [x \in 1 .. 8 |-> c[x].type],
    op   |-> [x \in 1 .. 8 |-> c[x].op],
    succ |-> s,
    size |-> [x \in 1 .. 8 |-> IF c[x].type = "ALLOC" THEN 2 ELSE 0],
    off  |-> [x \in 1 .. 8 |-> c[x].off],
    zero |-> {1, 3},
    globals |-> <<1, 2>>,
    root |-> 8,
    callees |-> [x \in 1 .. 8 |-> <<>>],
    returns |-> [x \in 1 .. 8 |-> <<>>]] :
   c \in {<<Alloc, Alloc, Alloc, p, w1, w2, r, Instr("NOOP", <<>>, 0)>> :
            p \in Pointers, w1 \in Writes1, w2 \in Writes2, r \in Reads},
   s \in {Branch, Loop, Repeated, Shortcut}}

=============================================================================
