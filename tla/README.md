# A verification project for DG

DG (`mchalupa/dg`) is a C++ library of static analyses for LLVM bitcode: pointer
analysis, data dependence through memory SSA, control dependence, call graphs,
thread regions, value relations, and the dependence graphs and program slicer
built on them. This directory holds TLA+ models of its algorithms, TLC
configurations that check them on small instances, and TLAPS proofs that hold for
every instance. `PROJECT.json` lists the components, runs, mutants, hazards,
findings and theorems, and maps every definition to the lines of the source it
stands for.

DG runs in one thread and keeps nothing on disk. What makes it hard is not
concurrency but fixed-point iteration: work lists that are filled and served in
an order nobody chose (pointer order, hash order, edge order), tables shared
between searches and never cleared, results computed on demand and cached while
a recursive computation is still under way, graphs that grow while they are
analysed, and approximations that must be sound for every execution of the
analysed program. The models keep that control exactly; the order of a hash map
or a set of pointers is a nondeterministic choice.

Most components promise something about *executions* of the analysed program.
Their abstract specification is therefore an interpreter: a module named
`…Soundness` lets the analysis finish, then runs the program it has analysed, and
compares. The interpreters do not look at how the analysis works.

## 1. Inventory

| Component | State | Operations | Used by | What makes it correct |
|---|---|---|---|---|
| Control dependence graph, `lib/ControlDependence/CDGraph.h` | nodes with successor and predecessor lists, predicates | `createNode`, `addNodeSuccessor` | all control dependence algorithms | successors and predecessors are inverse |
| `NTSCD`, `NTSCD2`, `NTSCDRanganath`, `NTSCD.h` | colour table, frontier; counters and a queue; symbol sets and a work bag | `compute(graph)` | LLVM control dependence | exactly non-termination sensitive control dependence and its inverse; `compute` returns |
| `DOD`, `DODNTSCD`, `DODRanganath`, `DOD.h` | colours of the cycle's nodes, the graph Ap, the current triple | `compute(graph)`, `onallpaths` | the same | exactly decisive order dependence |
| `StrongControlClosure`, `ControlClosure.h` | the growing set X, gamma(X) | `closeSet` | LLVM wrapper | the least strongly control-closed superset |
| LLVM control dependence, `lib/llvm/ControlDependence` | per function or module: graph, results, `_computed`; `_funcInfos` (points of no return), dependencies on calls | `getDependencies` of an instruction or a block, `getNoReturns`, `compute`, graph builders for functions and for modules | slicer, SDG, tools | an answer is exact and does not depend on earlier questions, also with recursion |
| Pointer graph and pointer analysis, `PointerGraph.h`, `PointerAnalysis.cpp`, FI, FS | nodes, procedures, points-to set and memory map of every node, two work lists | `run`, `enqueue`, `processNode`, `functionPointerCall` … | read-write graph, call graph, threads | every pointer of every execution is found; `run` returns |
| LLVM pointer graph builder, `lib/llvm/PointerAnalysis` | tables from values to nodes, procedures that are built, deferred operands | one builder function per instruction, `insertFunctionCall` during the analysis | pointer analysis | a register points where its node says |
| LLVM read-write graph builder, `lib/llvm/ReadWriteGraph` | what every node defines, overwrites, uses; callees | one builder function per instruction, models of functions | memory SSA | covers every access, overwrites only what is overwritten |
| Call graphs, `include/dg/llvm/CallGraph` | nodes and edges, built or lazily populated | `functions`, `callees`, `callers`, `calls`, `getCalledFunctions`, `build` | interprocedural analyses, tools | every call that happens; the graphs agree |
| Memory SSA, `lib/MemorySSA`, `lib/ReadWriteGraph` | definitions, kills and unknown writes of a block, PHI nodes, procedure summaries, modref | `findDefinitions`, `computeModRef`, `getDefinitions` … | data dependence | every write that an execution may read is returned |
| Interval map `DisjunctiveIntervalMap` | disjoint intervals of offsets with sets of values | `add`, `update`, `get`, `uncovered` | memory SSA | intervals stay disjoint and cover exactly what was added |
| Dependence graph, `include/dg/{Node,BBlock,DependenceGraph,DGParameters}.h` | nodes, blocks, parameters, six kinds of edges | adding and removing, isolating nodes and blocks | slicer | both ends of an edge agree |
| LLVM dependence graph, `lib/llvm/LLVMDependenceGraph.cpp` | graphs of the functions constructed so far, call sites | `build`, `buildSubgraph`, def-use and control dependence edges | slicer | dependencies are those of the definition |
| Slicer, `Slicing.h`, `LLVMSlicer.h`, `tools/llvm-slicer*` | slice ids, walk queue, the module that is changed | `mark`, forward slice, `sliceGraph`, cutting off diverging branches, making the module complete | `llvm-slicer` | the slice is a valid module that does at its instructions what the original does |
| Thread regions, `lib/llvm/ThreadRegions`, `Threads.cpp` | control flow graph over threads, stack and tables of two searches, forks matched to joins | builders of graph, regions, critical sections | LLVM dependence graph | what one thread reads from another, and what runs under a lock, is a dependence |
| Value relations, `lib/llvm/ValueRelations` | graph of relations per location, flag `changed` | `set`, `areRelated`, `merge`, passes over the code graph | `llvm-vr-dump`, other projects | a claimed relation holds in every execution |
| System dependence graph, legacy control dependence, FSInv, optimiser, tools | - | - | - | see "Not modelled" |

Interactions are plain calls. The slicer asks the data and control dependence
analyses for dependencies, these compute on the first question about a function
and keep the answer; memory SSA asks the read-write graph what a node writes, whose
builder asks pointer analysis where it may go; pointer analysis calls back into
its graph builder when a call through a pointer finds a new target, so that the
graph grows while it is analysed, and the call graph is registered on the way.

The behaviours that are hard here:

* **Order.** Work lists are sets of pointers, hash maps or queues over edge order.
  A result must not depend on it, nor on the order of questions.
* **Stale state.** Colours shared between targets; an entry of `_funcInfos` made before
  it is filled; strong updates decided from a points-to set that still grows; gamma used
  after X has grown; modref information of a recursive procedure; predecessors of removed
  blocks; relations of a location that a later pass weakens; a set of unlocks shared by the
  branches of a search.
* **Numbers.** 16-bit successor counters that pass below zero; offsets that wrap around or
  become unknown; machine words at the ends of their range; an iteration limit.
* **Termination.** Every analysis is a loop "until nothing changes".

## 2. Modules

    CDGraph ─┬─ NTSCD ──────────────────────────┬── LLVMControlDependence ─┬─ NTSCDProofs
             ├─ NTSCDRanganath ─────────────────┤                          └─ BackwardWaveProofs
             ├─ BackwardWave ─┬─ NTSCD2 ────────┤
             │                ├─ ControlClosure ┘
             │                └─ DOD ───────────┬── LLVMDOD
             ├─ DODRanganath ───────────────────┤
             ├─ OnAllPaths ─┬───────────────────┘
             │              └─ OnAllPathsProofs
             └─ InterproceduralCD ─┬─ MCInterproceduralCD
                                   └─ InterproceduralCDProofs

    PointerAnalysis ── PointerSoundness ── PointerSoundnessProofs
       └── LLVMPointerGraph ── LLVMReadWriteGraph ── LLVMCallGraph
                └── LLVMPointerSoundness ── MCLLVMPointers
    OffsetMap ── DisjunctiveIntervalMap ── DisjunctiveIntervalMapProofs
    MemorySSA ── MemorySSASoundness ── MCMemorySSA

    DependenceGraph ── Slicing ── SlicingProofs
       │                  └───────┐
       └── LLVMDependenceGraph ── LLVMSlicer ── SliceSoundness ── MCSlicing
    LLVMProgram ──┘

    ThreadRegions ── ThreadSoundness ── ThreadSoundnessProofs
    ValueRelations ── RelationsAnalyzer ── RelationsSoundness ── MCRelations

The programs and graphs for model checking are in a module `MC…`, or, where they are few, at
the end of the module that is checked. Modules named `…Proofs` hold theorems.

### Control dependence

* **CDGraph** – graphs as functions from nodes to successor sets, and the reference
  definitions that do not mention any algorithm: a set of nodes *avoids* m if every
  node in it has a successor in it or none at all and m is outside; m is on all
  maximal paths from n if no avoiding set holds n. NTSCD and DOD are stated with it.
  This co-inductive form is what makes the proofs possible: no path has to be
  constructed.
* **NTSCD** – class `NTSCD`: one action for the start of a target, one for every
  node visited in a pass (in any order, colouring takes effect at once as in the
  code), one for the end of a pass, one for reading the dependencies off the last
  frontier.
* **BackwardWave** – what `NTSCD2`, `DOD`'s `AllMaxPath` and `gamma` share: counters
  and a queue that spreads backwards. **NTSCD2**, **ControlClosure**, **DOD** extend
  it with the rest of their classes.
* **NTSCDRanganath**, **DODRanganath**, **OnAllPaths** – the algorithms after
  Ranganath et al., with the work bag that never takes an element twice, the
  recursion of `coloredDAG` and the search of `onallpaths` as explicit stacks.
* **LLVMControlDependence**, **LLVMDOD** – the choice of the algorithm by the options
  and its run on one graph. The algorithms are `INSTANCE`s over shared result maps; a
  variable of an algorithm that is not running has the value `None`. `LLVMDOD` extends
  `OnAllPaths`, since a call of `onallpaths` is an option of its own there.
* **InterproceduralCD** – class `LLVMControlDependenceAnalysis` with both of its
  implementations. `_impl` is one of SCD, NTSCD, DOD, InterproceduralNTSCD and
  InterproceduralDOD: graphs of blocks or instructions, of one function
  (`CDGraphBuilder`) or of the module (`ICDGraphBuilder`), results kept per function or
  once. What the algorithms compute is taken from CDGraph, as the runs `cda` and `dod`
  show. `_interprocImpl` is `LLVMInterprocCD`: the recursion of `computeFuncInfo` is a
  stack of frames, so that a function's information can be read while it is unfinished; the
  calls that a frame still has to look at are a set, taken in any order.
  Questions come in any order, and each goes to one implementation and then the other.

### Pointers and memory

* **PointerAnalysis** – the pointer graph and `run()` with the memory models of the
  flow-insensitive and the flow-sensitive analysis: a memory map for all nodes, or one for
  every node that needs its own, shared with the predecessor otherwise.
* **PointerSoundness** – an execution of the graph runs after the analysis; every pointer
  it computes must be in the set that the analysis found.
* **LLVMPointerGraph** – the builder: from functions, blocks, instructions, constants,
  globals and library functions to nodes; parameters, returns and variadic arguments are
  connected, procedures called through pointers are built while the analysis runs. Operators
  take the graph built so far and return it with what they add.
* **LLVMReadWriteGraph** – what every instruction defines, overwrites for sure and uses,
  from the results of the pointer analysis, with the summary of calls.
* **LLVMCallGraph** – the three call graphs: registered by the analysis, built from points-to
  sets, and lazy, with or without pointer analysis, which grows with the questions.
* **LLVMPointerSoundness** – an interpreter of LLVM modules with objects, offsets, calls
  and library functions; `last` is what the last instruction did with memory.
* **OffsetMap**, **DisjunctiveIntervalMap** – class `DisjunctiveIntervalMap`, in which
  memory SSA keeps the definitions of a block. `OffsetMap` is what it promises: a set of
  values for every offset, and operations that change exactly the offsets of their
  interval. `DisjunctiveIntervalMap` is `_add` step by step (splitting entries on the right
  and on the left, filling gaps, adding to what is there) and implements it. `MAX` is
  `Offset::UNKNOWN`, at which `PlusOne` and `MinusOne` stay as Offset's operators do; operations
  are given intervals that begin at a known offset (`Argument`), which is what
  `DefinitionsMap::getInterval` makes of every definition site.
* **MemorySSA** – the read-write graph of a program and class `MemorySSATransformation`. A
  question (`getDefinitions`) is one action, because nothing can interrupt it; what later
  questions meet is the state it leaves behind. Inside, the methods are operators on a record
  with the state of the analysis, each of which returns the changed state, in the order in
  which the code changes it: a PHI is stored before its operands are searched, mod-ref
  information counts as initialised before the callees are visited. A `DefinitionsMap` is a set
  of (memory, byte, node), which the run `intervals` shows the interval map to be, and of borders,
  because intervals that were split are never joined again and `joinDefinitions` goes through them
  one by one. `Uncovered` returns what `undefinedIntervals` does, bytes behind the site included.
* **MemorySSASoundness** – all questions are asked in any order, then an execution of the
  program remembers the last writer of every byte, through branches, loops, calls and returns.
  `beyond` is the memory of which the questions left a PHI that hides bytes outside of its own
  site. `Reaching` is a second reference, reaching definitions inside of a procedure.

### Slicing

* **LLVMProgram** – the part of LLVM that the dependence graph and the slicer work on,
  modelled from their use of it: modules, blocks, what instructions do, and the answer that is
  expected of data dependence.
* **DependenceGraph** – nodes, blocks, parameters, edges and their removal. Predecessors of
  blocks are kept apart from successors because the code lets them go stale.
* **LLVMDependenceGraph** – building: the recursion `build` → `handleInstruction` →
  `buildSubgraph` is a stack of frames, one step per instruction or callee; then def-use edges,
  control dependencies (standard from post-dominance frontiers, or NTSCD) and no-return
  dependencies in the order of the builder.
* **Slicing** – `WalkAndMark` and `Slicer::mark`, forward and backward, one step per node, any
  order of the queue.
* **LLVMSlicer** – the tool: cutting off diverging branches, building, marking, removing blocks
  and nodes one by one in any order, reconnecting, single entry blocks, the saved module.
* **SliceSoundness** – original and slice are executed side by side from the same memory; each
  runs until it is at an instruction to compare and waits there for the other.

### Threads and value relations

* **ThreadRegions** – the control flow graph over threads, `matchJoinToRightCreate`, both
  depth-first searches step by step, and the edges `LLVMDependenceGraph` adds for them. `WellFormed`
  is what LLVM guarantees of a program: a terminator ends every block and is nowhere else, nothing
  branches to an entry block, and a call that does not go through a pointer has one callee.
* **ThreadSoundness** – the program runs, its threads interleaved, with locks, joins and calls
  through pointers.
* **ValueRelations** – the graph of relations: buckets of equal values, `set`, `unset`, merging
  of buckets, the searches with their shared visited edges, bounds, `merge` of two graphs.
* **RelationsAnalyzer** – the code graph of a function (locations, edges, loops, inductivity) and
  the passes with joins and loop heads, operations and conditions.
* **RelationsSoundness** – two references: a graph that is told facts one by one is compared
  with all assignments of machine words that satisfy them; a function that was analysed runs,
  and what the analysis claims at a location is compared with its values.

## 3. Runs

| Run | Instance | Shows |
|---|---|---|
| `cda` | all graphs with 3 nodes (512), every option, all orders | the colouring of `NTSCD` is exact at the end of every search and its results are exactly NTSCD; `NTSCD2` is exact for targets that are not pushed twice; `NTSCDRanganath`, with repeated passes, computes NTSCD; `closeSet` stays inside every strongly closed superset and is closed where gamma was exact; everything returns |
| `dod` | rooted graphs on 4 nodes with a branch or a switch; a predicate, two entries and a cycle of 4 nodes entered at one or two places by each (7 nodes) | `DOD` and `DODNTSCD` are exact wherever `AllMaxPath` is, and only otherwise run into assertions; Ranganath's DOD is exact for branches; `onallpaths` answers right; everything returns |
| `interproc` | call graphs of 3 functions with calls through pointers and recursion; a function with cyclic flow and calls; all rooted graphs of 4 blocks without calls; a diamond whose blocks call others; all options | `NoretExact`: points of no return. `DependenciesExact`: dependencies on calls that may not return and, for each relation, inside a function are those of the definition, by block and by instruction, whatever was asked before; the graph of the whole module finds nothing that the two analyses together miss, and its two granularities agree. `Answered` |
| `pta` | 8 nodes: two globals and one local object with two cells, a pointer computed by one of seven instructions, two writes and a read, in a branch, a loop, a loop that allocates, and a graph where the read is behind one write only; a call of a procedure that writes and returns a pointer, one of the globals being a function or a constant pointer; limits 0 (none) and 1; both analyses | every pointer of an execution is in the flow-insensitive result, where reads between two writes of the same pointer are settled; in the flow-sensitive result, where each store has one target that exists once; and in the sets kept when the limit is hit; `run` returns |
| `pta_fi` | the same | **violation**: the flow-insensitive result without the condition |
| `pta_fs` | the same | **violation**: the flow-sensitive result without the condition |
| `llvm_pta` | 193 modules: functions called through pointers (also found late), recursion, variadic functions, lists, globals with initialisers, copies, pointers disguised as integers, aggregates and vectors, undefined functions | registers point where the analysis says; calls and accesses are in the read-write graph; what counts as overwritten is; the three call graphs contain every call and agree, in any order of three questions |
| `intervals` | offsets 0 to 4, of which 4 is the unknown one, two values, any sequence of `add` and `update` of intervals that begin before 4, and of adding to everything | entries stay disjoint inside an operation, the map implements `OffsetMap`, lookups return what is stored |
| `memssa` | two objects of two bytes, or one of four bytes that is written in pieces; in `main`: two blocks, a branch, a branch in a loop, with every choice of three writes (none, part, whole, weak, other object, unknown) and two reads; with a procedure `f`: called twice, called in a loop, one of two callees, recursive; all orders of the questions | `ReadsFound`: whatever an execution reads was written by a node that the answer names, for known memory, if nothing is written through unknown pointers and no two procedures call each other, and inside of a procedure also with unknown writes in blocks of their own; with calls for memory that the accesses cut into at most three parts, without calls for memory that is not in `beyond`. `AnswersIndependent`: an answer is the one that the first question would get, if objects are accessed as a whole. `ReachingExact`: inside of a procedure the answer is exactly the reaching definitions, where `undefinedIntervals` does not look behind the read (`Within`) |
| `slicing` | all reachable control flow graphs of 4 blocks with a criterion, writes and branches on them; programs with calls, recursion, exits, function pointers, arguments, PHIs; backward and forward, standard and NTSCD, with and without cutting off and removing criteria | marked sets are closed; post-dominance frontiers are Ferrante's control dependencies (but see below); the sliced module is valid, meets the instructions it keeps in the same order with the same operands, and gets as far |
| `threads` | programs that spawn in four ways, branch or loop, and join; several forks and joins; nested, branching and looping critical sections; calls through pointers | control enters a region at its founding node only; in every interleaving a read of another thread's write depends on it; what runs under a lock depends on it (unless the search ran out of unlocks before the rest of a branch); a join depends on the right `pthread_create`, unless another call may spawn the same function |
| `relations` | three facts out of four vocabularies about up to four values; functions with branches on every predicate, loops with counters, aliases, shifts and arithmetic at the ends of the range; words of two bits | a graph of relations answers only what follows from the facts and finds every chain of signed ones; what the analysis claims of contents, equality and signed order holds in every run; no assertion fails |

**Why the bounds are enough.** With three nodes a control-flow graph already has self
loops, cycles with and without exit, branches into them, unreachable nodes and nodes
without successors; a target is searched after another one has left its colours, and a
node can be pushed twice. For NTSCD the bound does not matter: the theorems hold for
every graph. DOD needs two nodes on a cycle and a predicate outside it, so four nodes
are the least; all alternations of colours on a cycle need a longer cycle, hence the
ring. Three functions give direct, mutual and self recursion with a bystander, where the
order of queries decides which call of the cycle is cut off. For pointers, two cells per
object distinguish offsets, two instances per allocation distinguish an object allocated
in a loop or by a second call from its next one, a small `UNKNOWN` lets offset arithmetic
leave the object, wrap and become unknown; a limit of 1 stops the iteration in
mid-computation. Three questions to a lazy call graph are enough to have one populate what the
next one meets. Five offsets give an interval with an entry sticking out on either side and a
gap or a second entry between them; two values tell adding from replacing; the greatest offset is the unknown one, and entries end and
begin there. For memory SSA two bytes tell parts from wholes, and four are what it takes for
`undefinedIntervals` to return bytes behind a site (something defined in it, its end, the bytes
behind, something defined there): without the condition on `beyond` the run finds `ReadsFound`
violated. The families reach every method, a PHI met while it is being
filled (loop, recursion), a summary used by a second call, and a callee that is only a model.
Four blocks are the least with a loop and a branch in it next to an entry and an exit. Three
threads give a thread that reads what a sibling wrote. Two bits have a sign and both ends
of the range at distance one; five passes are more than any of the functions needs.

**Bounds and what they cut.** `N`, `F`, `B`, `MaxNodes` are sizes; `UNKNOWN` is 2^64-1 in the
code and the modulus of offset arithmetic; `Instances`, `Depth`, `MaxDepth` and `MaxThreads`
bound the *execution* (objects per allocation, nested calls, threads), not the analysis;
`Limits` and `MaxPass` are values of options; `Questions` and `MaxFacts` bound how often a call
graph is asked and how many facts a graph of relations is told. No counter of an algorithm is
capped.

**Fairness.** Each analysis is one sequential computation that nothing interrupts, so weak
fairness of its next step (`WF(Next)`; in `InterproceduralCD` only between a question and its
answer, in `PointerSoundness` only of `run()`) says no more than that the program goes on.
The orders inside a step stay arbitrary. In `SliceSoundness` the executions of the original
and of the slice go on while they wait for nothing. The other modules state no liveness: where a
whole question or phase is one step of TLC's, one that did not end would end no run. Deadlock
is checked except where the execution of the analysed program may end or stop at an operation
that C leaves undefined (`pta`, `llvm_pta`, `memssa`, `threads`, `relations`); finished
algorithms stutter explicitly.

**Mutants.** For each property of each passing run `PROJECT.json` names a definition and a
changed version of it that models a plausible bug (a dropped guard, an off-by-one, a
missing reset, the wrong order); TLC refutes the property with it.

## 4. Proofs

A theorem holds for every value of the constants that satisfies the assumptions of the modules
(sizes are positive numbers, `Inputs` are graphs, `Programs` are programs). Where a run checks the
property as well, the theorem names the same definition.

**NTSCDProofs**, for runs of `LLVMControlDependence` with the option "ntscd":

* `TypeCorrect`, `ColoringCorrect` (after the last pass exactly the nodes that cannot avoid the
  target are coloured), `ColoringNeverAhead` (at any time a coloured node cannot avoid the target),
  `NTSCDCorrect` (the result is exactly NTSCD) and `NTSCDInverse` (the two result maps are inverse
  to each other).
* None is inductive. `IInv` adds: nodes without colour that have a coloured successor are
  waiting in `pending`, `newFrontier` or the frontier (`FrontierCovers`); a pass without
  progress leaves behind only nodes with an uncoloured successor (`NoProgressStuck`); no
  coloured node other than the target has an uncoloured successor, and colours of later
  targets are unused (`ColorDiscipline`), which is what makes a table that is never
  cleared safe; dependencies of later targets are untouched.
* The key step is `CollectExact`: at the end of the search the uncoloured nodes form a set
  that avoids the target, so they can avoid it by definition. One lemma per action.

Also in **NTSCDProofs**, for the two options of Ranganath's algorithm:

* `SymbolsCorrect`: in both modes, whatever the order of the work bag, a symbol is copied only to
  nodes that all maximal paths from it meet. The induction needs only that `S[n][p]` are successors
  of `p`; `AllSymbols` turns the code's comparison of two cardinalities into equality of sets.
* `RanganathCorrect`: with repeated passes the result is exactly NTSCD. `FInv` adds that a
  successor of a predicate has its own symbol (`OwnSymbols`); that, as long as a pass has changed
  nothing, the nodes it is through with would not change anything again (`PassSettles`,
  `Settled`); and how the collected result follows from the symbols (`Collected`). The key lemma is
  `SettledComplete`: when all nodes are settled and n lacks a symbol, the nodes that have the symbol
  form a set that avoids n. For the original work bag, which takes no node twice, only soundness is
  stated.

**BackwardWaveProofs**, for NTSCD2 and the control closure. Both theorems assume `CountersFit`: no
node has 2^16 successors or more, because the counters are `unsigned short`.

* `NTSCD2Correct`: on every target that is not pushed twice, exactly the dependencies are found. While
  such a search runs (`SearchInv`), nothing is in the queue twice, a counter is the number of
  successors that have not been popped, and the coloured nodes are the target and those whose
  successors have all been popped.
* `ClosureCorrect`: `closeSet` stays inside every strongly control-closed superset, and is one itself
  if gamma was exact in its last round. For the counters of gamma only a bound holds, as nodes of `X` may
  be pushed again: they are at most the number of successors that have not been popped (`GammaInv`).
  `ScanInv` says of the walk over edges that what it is through with distinguishes no edge. A node
  that is added lies in every closed superset (`DistinguishedInside`): colours do not get into a set
  that can be left through one node only but through that node, and X is met there first
  (`ConfinedMeets`). At the end no edge reachable from X is distinguished (`ClosedAtEnd`).

**OnAllPathsProofs** proves `OnAllPathsCorrect` for a call of `onallpaths` on any graph and for any
order of its depth-first search: the answer is whether `goal` is on all maximal paths from `from`.
The stack is a path from `from` that does not meet `goal` (`StackChain`), so a successor on the stack
closes a cycle that avoids `goal`; what the loop over the successors of an active node is through with
is the goal, finished, or the next active node (`LoopsCovered`); and what is finished cannot avoid the
goal (`FinishedGood`), so that it need not be entered again for another predecessor: the first negative
answer ends the whole search.

**InterproceduralCDProofs** proves `NoretCorrect`: in any module, recursive or not, and for any order
of questions, the points of no return of functions that are not being computed are exactly the calls
that may not return and the exits. The hard part is that `_funcInfos` has an entry of a function
before it is filled, and an inner call reads it. `Chain` says that each active function is called from
those further out; `FrameCovered` that a frame has dealt with all targets but those that it still
lists; `FoundRight` that nothing wrong is found. A call of a function that is on the stack is
recursion, so that its caller is right to count it as a point of no return; a call of a function that
is not has the finished, exact answer to read. `NoretExact` follows when the frame ends.

`InterprocCorrect` adds `InterprocExact`, the part of `DependenciesExact` about `computeCD`: whenever
`hasCD` is set, an instruction depends on exactly the calls that may not return and may be executed
before it. `CDInv` says what holds while the fixpoint is computed: the functions that are called have
their final entries, as no call of `computeFuncInfo` is active (so `BlockNoretIs`); what has reached a
block may be executed before it (`ReachedRight`); along every edge everything has been handed on, or
the block it leads to is queued (`HandedOn`, needed because a block that gained nothing does not queue
its successors). When the queue is empty, the blocks that a call has reached form a set closed under
successors (`Finished`).

**DisjunctiveIntervalMapProofs** proves for every unknown offset `MAX` (`OffsetAssumption`) and every
set of values, for operations on intervals that begin at a known offset, `DisjointCorrect`, `Refinement` (the detailed map implements `OffsetMap`) and
`LookupsCorrect` (`gather` and `uncovered`). An operation takes effect when it begins: `Content` counts
offsets that the loop has not reached as done, so `Add` maps to the abstract operation and every later
step to a stutter. The invariant adds that stored sets are not empty (`NonEmpty`, needed because
`AddAll` skips offsets without values), what holds at the unknown offset (`Edge`: an entry that begins
there follows one that ends right before it, because only a split makes such an entry; without that,
filling the gap in front of it would overlap it, as `MAX` minus one is `MAX`) and where the walk is (`Walk`): after the split on the right no
entry that begins inside `I` ends outside, after the split on the left none that begins before `rest`
reaches it, so each entry met by the loop lies between `rest` and the end of `I`. Lemmas say what
splitting, filling and replacing do to the values at an offset; each action then has one step for
disjointness and one for the content. The lookups are walks from one entry to the next: the first entry
that ends at an offset or behind it exists and is least (`FirstExists`), between two neighbours nothing
is mapped (`GapFacts`), so the values gathered and the gaps listed are those of the content
(`GatherExact`, `UncoveredExact`).

**SlicingProofs** proves `MarkingCloses`: on any dependence graph, for any criteria in any
order, forward or backward, `SliceClosed` holds. There is no assumption on the graph:
`MarkSpec` is marking alone. `SliceClosed` speaks of the moments between two walks; `MarkInv`
says what holds inside of one: what a marked node depends on is marked or waiting, or the node
itself will be walked from again, because it is in the queue or in a block from which the
backward walk that follows a forward one starts. One lemma per action.

**PointerSoundnessProofs** proves `SoundFICorrect`: for every program, the flow-insensitive analysis
that ends without being stopped by its limit has found every pointer of every execution, unless a
write goes through an unknown pointer or a read is left unsettled (`ReadsSettled`; see the finding
`pta_fi`, which is why a condition is needed). The assumption on programs, `WellFormed`, is what the
constructors of `PSNode` and `createGlobal` make of a node: numbers of operands, which kinds of nodes
are global, and that no control flow leads to a global node. The argument has three parts.

* *The queue.* `getNodes` returns what control flow, calls and returns reach, each node once
  (`WalkedFacts`, `GetNodesFacts`); it is a fold whose length the proof bounds by the number of nodes.
* *The analysis.* Every node is pending or has been applied (`AnalysisInv`). `Pending` is being in the
  queue, or behind a changed node; `Applied` is that the pointers of its operands and the cells of
  memory are delivered to its own set and to memory. Since a node is not queued again for changes that
  it is not behind, it is applied only to pointers that may be computed before it (`Effective`) and to
  cells that are `Visible`: not `Exposed`, that is, which no node may have written that it is not
  behind. Points-to sets grow, except that an unknown offset replaces the others; hence `Stands`.
* *The execution.* What has been computed lies before what comes next (`Ahead`, `RestInv`), it is found
  (`EnvInv`), and a cell that holds an address has one in the memory of the analysis, written by a node
  that lies before (`HeapInv`). One lemma per kind of node; `ReadFound` is where an exposed cell is
  read and `ReadsSettled` is used.

**ThreadSoundnessProofs** proves the four properties of the run `threads` for every program, number
of threads, nesting of calls and interleaving: `RegionsSingleEntryHolds`, `InterferenceFoundHolds`,
`HeldCoveredHolds` and `ForksMatchedWhereDistinctHolds`. It assumes that programs are `WellFormed`
(`ProgramsAssumption`), that they access the variables of `Objects` (`ObjectsAssumption`), and that
`MaxThreads` is a number. The inductive invariant has a part for each phase and one for the execution.

* *The graph* (`BuildInv`). It is that of the program and of the forks matched to joins; a function
  found for a join comes from a fork added for it (`JoinsMatched`). What needs most lemmas is that the
  graph has an edge for whatever a thread does next: from the last node of an instruction to the first
  of the next one, to the entry of a callee, and from its exit back.
* *Regions* (`RegionsInv`). `Visit` takes a successor from the frame on top; all others of a node on the
  stack are left in its frame or have a region (`RegionsOnStack`). A node that does not found its region
  inherited it from its only predecessor (`Inherited`), because `shouldCreateNewRegion` counts
  predecessors within the thread and in other threads together; hence no other node leads to it.
* *Critical sections* (`SectionsInv`). As long as there are unlocks to be seen the search leaves out
  nothing (`SearchClosed`), so the section is closed under successors. Where nothing branches, the
  stack is a path (`SearchStraight`), and once all unlocks have been seen, every node u of it has a part
  of the path that starts at the lock and can be left through u only (`SearchConfined`). That is enough
  when u unlocks the same mutex, and it is why `HeldCovered` has its condition.
* *The execution* (`ExecInv`). A thread is where its frames and calls say, all its points have been
  examined (`ExecLocated`), and a set that holds the lock and that control leaves only by unlocking the
  mutex holds what the thread executes while it has the mutex (`HeldConfined`). A handle that is set
  names a thread made by a fork with that handle (`HandlesOwned`).

**Only model-checked.** All liveness properties (termination and progress). `DOD` and Ranganath's DOD:
their loops walk round cycles whose parity of colours would need induction over paths.
What `DependenciesExact` says beyond `InterprocExact`, a comparison of five implementations. In pointer analysis `SoundWhereNotEmptied`
and the flow-sensitive analysis, whose memory maps per node need a theory of their own. Memory SSA,
the builders of pointer and read-write graphs, the call graphs and the graph of relations are written
with RECURSIVE operators, as their sources are recursive; the prover cannot treat these. The
construction of dependence graphs and the slicer behind marking are stated over executions of bounded
programs, in which the bounds take part.

## 5. Findings

* Flow-insensitive pointer analysis (`PointerAnalysis.cpp:540`), run `pta_fi`: after an iteration only
  nodes that are reachable from changed nodes are queued, and all nodes share one memory map. A load is
  processed; a store that it is not behind writes a pointer; then a store in front of the load writes
  the same pointer to the same object and changes nothing. The load is not queued again, and an
  execution through the second store loads a pointer that has not been found. The comment at line 545
  argues that what was generated elsewhere can never get to a node at run time; `SoundFI` states what
  remains, and `SoundFICorrect` proves it.
* Flow-sensitive pointer analysis (`PointerAnalysisFS.h:79`), run `pta_fs`: a store through a
  pointer with two possible targets overwrites both. `SoundFSWhereJustified` states what remains.

## 6. Disagreements that no run states

Met while modelling. The models follow the code; a property that such a place would refute
carries the condition named here, or the programs that reach it are left out of the instances.

*Control dependence*

* `NTSCD2` (`NTSCD.h:139`) does not compute NTSCD: a node is pushed whenever its counter reaches
  zero, the target included, whose predecessors are then counted down twice; a predecessor that
  can avoid the target is coloured and its dependency lost. `AllMaxPath` (`DOD.h:52`) and `gamma`
  (`ControlClosure.h:70`) repeat the pattern; `cda` and `dod` state their properties where these
  are exact.
* `DODRanganath` (`DOD.h:630`): `revCD[n]` gets `m` and `n` instead of `m` and `p`
  (`doc/CDA.md:34`).
* `NTSCD.h:70-72` asserts something of the last frontier that is false for the target itself
  (`succ = <<{1,2}, {}, {2}>>`). The assertion `DOD.h:306` fails on `succ = <<{1}, {2}, {1,2}>>`;
  `closeSet` returns a set that is not closed for `succ = <<{1}, {3}, {1,3}>>`, X = {1,2}.
* Successor counts are cut to 16 bits (`NTSCD.h:123`).
* The graph of a module by blocks: the edges of a return leave from the node of the returning
  block, before the calls in it (`IGraphBuilder.h:249`), so that a returning block with a call
  looks like a branch (condition of `InlinedAgree`). The nodes for the rest of a block behind a
  call have no value: a dependence on the end of such a block is null, and fails an assertion in
  builds that have them.
* The graph of a module returns to every call of a function, and sees loops in called functions
  that the other analysis does not look for (conditions `CalledOnce`, `CalleesLoopFree`). The other
  way round NTSCD with the interprocedural analysis alone misses that a call that may not return
  decides the order of instructions on an irreducible cycle; `Separately` therefore includes DOD.
* `doc/CDA.md` says that `getNoReturns` returns an empty vector if the interprocedural analysis is
  disabled; it always answers (`ControlDependence.h:102-106`).
* `compute(F)` computes all functions if `F` has been computed already; the interprocedural NTSCD
  ignores `ntscdRanganathOrig`; `getDependent` of a block aborts except for the standard relation;
  `ICDGraphBuilder` aborts if it is given a call graph.
* `InterproceduralCD.h` speaks of functions that "cause infinite looping"; loops inside a function
  are not looked for.

*Pointer analysis and its builder*

* `options.maxIterations = k` allows k + 1 iterations (`PointerAnalysisOptions.h:30`).
* `PointerGraph.cpp:89` says "self-loop is also loop"; a node whose successors are itself and
  another node is not counted. `StrongUpdatesJustified` leaves such allocations out.
* `memcpy` of a zero-initialised object marks the destination without reporting a change. Stores
  and copies through unknown pointers change nothing (condition `WritesKnown`).
* A recursive function built during the analysis: the inner call's return node gets neither
  operands nor edge (lib/llvm `PointerGraph.cpp:143`; the comment at `Interprocedural.cpp:132`
  says otherwise). Direct calls through a bitcast are not connected. A call through a pointer
  that resolves to defined and to undefined functions: nodes behind it are dropped from the queue
  once callees exist, and disconnecting asserts.
* `handleConstantGep` replaces the offset instead of adding; `memset` of zero on memory other than
  an alloca creates nodes that no block holds; results of `memcpy` calls and of `atomicrmw`, and
  `extractvalue` directly on a load, lose pointers; variadic arguments of a function without
  fixed ones use an index of 2^32-1 (`Interprocedural.cpp:79`); external globals load nothing;
  operands of PHIs in unreachable blocks are null (`Block.cpp:22`).

*Read-write graph and memory SSA*

* The argument for the length of a model of a function is added to the offset (`RWNode.h:239`),
  so a strong update may cover too much; intrinsics overwrite several possible targets and heap
  memory. An alloca's address counts as taken only by a direct store or intrinsic. A store to a
  local of a recursive function counts as overwriting all its instances (`OverwritesExact` leaves
  variables with several live instances out).
* `RWNodeCall::_summarizeAnnotation`: with several undefined callees a strong write of only one is
  dropped (`RWNode.h:352`); with a defined one next to it the overwrites count as certain
  (`RWNode.h:343`). A call through a pointer to `malloc` and an undefined function recurses for
  ever (`LLVMReadWriteGraphBuilder.cpp:131`). `createUnknownCall` ignores unknown and empty
  points-to sets and constant GEPs of globals; `va_start`'s write is not recorded.
* `MemorySSA.cpp:582`: the blocks visited by the search for all definitions are shared by all
  paths, although what is still missing differs from path to path. With `G = 1; if (c) G = 2;` a
  later read of unknown memory finds `G = 2` only (`doc/DDA.md`).
* `ModRef.cpp:33` marks a procedure as summarised before its callees are. Of two procedures that
  call each other, the one that is summarised second keeps a summary without the writes that the
  first one had not collected yet; `ReadsFound` and `AnswersIndependent` leave mutual recursion out.
* `Definitions.h:18-20` says "if you find the sought memory here, you got all definitions from this
  block"; `get` adds writes through unknown pointers only if there is nothing else, and `update`
  only adds them to memory that the block has defined before. Hence "in blocks of their own".
* `joinDefinitions` (`MemorySSA.cpp:493`) says it copies "only those that are not already killed
  by 'to' map"; it leaves out what `to` has any definition of, weak ones included. Where
  `undefinedIntervals` returns bytes behind an entry, these get that entry's definitions, and their
  own entry is then skipped.
* A procedure that writes only unknown memory: the first call that is searched continues before
  the call (`MemorySSA.cpp:315`), the second one finds the output PHI of the first one covering the
  memory and does not. `MemorySSA.cpp:332` searches for `ds` where the PHI stands for `subgds`;
  hence "accessed as a whole". `findEscapingDefinitionsInBlock` asks `canEscape()` of the node that
  writes. `callMayDefineTarget` ignores writes of undefined callees to unknown memory.
* `DefinitionsMap.h:121` says of `undefinedIntervals` that it returns "intervals of bytes from
  'ds' that are not defined by this map"; `uncovered` may return an interval that ends behind the
  one asked for. This loses writes: if a block kills bytes 0 and 3 and is asked for [0,1], the answer
  is [1,2]; `createPhi` (`MemorySSA.cpp:112-120`) makes a PHI the definition of byte 2 that is searched
  for [0,1] only, and a later read of byte 2 that gets to the block ends there and misses the writes
  before it. Hence the condition on `beyond` in `ReadsFound`, which leaves out memory with such a PHI,
  and `Within` in `ReachingExact`.
* `Offset::operator-` returns `UNKNOWN` for an `UNKNOWN` left operand (`Offset.h:56-59`), so the
  interval map fails for operations that begin there and next to entries that do: with
  {[UNKNOWN,UNKNOWN]} in it, adding [0,UNKNOWN] inserts the overlapping gap [0,UNKNOWN]
  (`DisjunctiveIntervalMap.h:563`); 452 and 484 split at the wrong place, and `uncovered` returns a
  mapped offset (274). `getInterval` passes [0,UNKNOWN] for every unknown offset, so definition sites
  never begin there; `add(target, elems)` (`DefinitionsMap.h:86`) passes the entries of another map,
  and one of those could, if some site ended exactly at UNKNOWN - 1. `overlaps` and `overlapsFull` answer no if an earlier entry covers the interval
  and a later one exists; they serve assertions and tests. `intersection` never advances its
  iterator; nothing calls it.

*Call graph* (`include/dg/llvm/CallGraph/CallGraph.h`)

* `callees(F)` and `calls(F, G)` of the lazy graph skip population when `F` is already a node, so
  answers depend on the order of questions, while lines 292-296 say it "is sound even without it (by
  overapproximating)"; `sure` in `LLVMCallGraph` marks the answers that do not. Asking for the callees
  of a function without calls dereferences null, asking for the callers of an uncalled one asserts;
  without pointer analysis declared functions called through pointers are missed.

*Dependence graph and slicer*

* `PostDominanceFrontiers.h:48` leaves out `df == BB`: a block that depends on itself along a loop of
  several blocks misses that dependence (`doc/CDA.md:6`); `StandardCDExact` says exactly this,
  `NoneLoopDependent` is the condition of the slices.
* If the entry block is sliced away the slice begins with the first block in list order
  (`LLVMSlicer.h:561`; condition `EntryKept`). Cutting off diverging branches erases functions that
  cannot return, and the slice runs on behind their calls (`CalleesReturn`). With standard control
  dependence exits two call levels deep are missed (`LLVMDependenceGraph.cpp:1189`; `ExitsKnown`).
  Removing the criteria can empty a block whose LLVM block stays without terminator (`NoneEmptied`).
* `BBlock::remove` means to "not leave any dangling reference"; interference edges stay.
  `computeNTSCD` asserts an algorithm other than the one it is also called for (line 908, 1154);
  `Node::isolate` uses the block after it was removed from it.

*Threads*

* `matchJoinToRightCreate` (`Threads.cpp:220`) adds a fork only if it, or an earlier fork of the same
  call, brought a new function, while `ForkJoin.h:20-22` promises all; forks through a pointer are lost
  (`GraphBuilder.cpp:283`). `matchLocksAndUnlocks` asks for the points-to set of the call's result,
  so every lock corresponds to every unlock (`GraphBuilder.cpp:309`). The search for a critical
  section shares the set of unlocks between branches (`CriticalSectionsBuilder.cpp:83`; condition of
  `HeldCovered`). `pthread_join` through a pointer dereferences null; `ThreadRegionsBuilder.cpp:133`
  compares iterators of different maps, and edges to regions still on the stack are missing.

*Value relations*

* `getBoundOnPointedToValue` with UGE never lowers its bound, because `compare()` reports only signed
  relations (`ValueRelations.cpp:242-268`): `RelationsHold` leaves unsigned order out.
* A join or an operation recreates "pointer PT placeholder" for memory that the instruction
  overwrites (`RelationsAnalyzer.cpp:1238`); `solveDifferent` moves a bound by one without looking for
  overflow; `getShift` of `const - x` in a loop asserts; `x % d < d` is claimed for negative `d`; the
  dead branch of a ≠ b, a ≥ m, m ≥ b, a ≤ b is not recognised and fails an assertion. Functions
  that show these are not among the programs of `relations`.
* Unsigned predicates become signed ones where the condition holds (`ICMPToRel`); chains that mix
  signed and unsigned order are not always found; merging x and y with x ≤ m ≤ y leaves m apart;
  increments in loops ignore wrapping without nsw.

## 7. Abstractions

* Nodes, blocks and functions are numbers; names, identifiers, printing and dumps are left out.
* A memory map is a set of triples (object, offset, pointer). Null pointers are found only while
  nothing else is stored; the soundness properties do not ask for them. `memcpy` between an object
  and itself reads the map as it was before the copy.
* The input programs are constants. LLVM's modules, dominator trees and what C library functions do
  are external and modelled from their use; standard control dependence is modelled for functions
  that can end from everywhere (LLVM adds virtual roots otherwise).
* Unknown offsets in memory SSA are all bytes of an object. Where the code iterates over a hash
  map to fill a call block with everything, the model takes the sites in a fixed order.
* In `InterproceduralCD` the algorithms are what CDGraph defines; DOD is taken for nodes with at most
  two successors, for which the run `dod` shows Ranganath's algorithm to compute it.
* In `ThreadRegions` the pointer analysis is given by what it says of called values, handles and
  accesses, and forks are met in program order.
* Data dependence in the slicer is the answer expected of it (`LLVMProgram`), so that the slicer's
  own steps are what the run checks; memory SSA has a run of its own.

## 8. Not modelled

* **System dependence graph** – a second dependence graph that is only printed.
* **Legacy control dependence** – superseded by class `NTSCD`; whole modules from Tarjan components.
* **Pointer analysis with invalidated memory** – the flow-sensitive analysis with more kinds of strong
  updates; that analysis loses pointers as it stands.
* **Pointer graph optimiser and validator** – the only call of the first is commented out, the second
  reports.
* **Tools** other than the slicer: command lines, input, output. Wrappers that translate questions
  (`LLVMDataDependenceAnalysis`) and thin containers.
* Inside modelled parts: forks and joins as nodes of the pointer graph, freed memory, inline
  assembly; variadic and dynamic-memory parameters of the dependence graph, secondary criteria and
  untouched functions of the slicer; in value relations arguments with their border buckets and
  preconditions, calls, GEPs, casts, PHI nodes, switches and the areas of allocated memory.

## 9. Plan

Done: control dependence and its LLVM front end; pointer analysis, graph builders and call graphs; the
interval map; memory SSA; dependence graph, marking and slicer; threads; value relations. Proved: see
section 4.

Next, as proofs, each from an invariant that TLC has agreed to:

1. `DOD`: where `AllMaxPath` is exact, the searches it is made of, with the lemmas of
   BackwardWaveProofs.
2. `PointerAnalysis`: `SoundWhereNotEmptied`, from `AnalysisInv` for the nodes that are not emptied; then
   the flow-sensitive analysis, with the memory map of a node in place of the global one.
3. `MemorySSA`: definitions of one block, with its recursion over blocks as recursive functions.

Then, as models: values that cross calls in the relations (arguments, border buckets), and forks as nodes
of the pointer graph.
