----------------------------- MODULE LLVMSlicer -----------------------------
(***************************************************************************)
(* The slicer: cutting off diverging branches                              *)
(* (tools/llvm-slicer-preprocess.cpp), building and marking                *)
(* (tools/llvm-slicer.cpp, tools/include/dg/tools/llvm-slicer.h), and      *)
(* removing what is not marked from the module                             *)
(* (include/dg/llvm/LLVMSlicer.h).  Blocks are removed and adjusted one    *)
(* by one in any order, as the containers are ordered by addresses.        *)
(***************************************************************************)
EXTENDS LLVMDependenceGraph, Slicing

VARIABLES
  phase,    \* what the tool does next
  unmark,   \* nodes whose slice id was reset
  fn,       \* the function being sliced
  work,     \* blocks of fn the current loop has still to process
  newExit   \* newExitBB of fn exists

sliceVars == <<phase, unmark, fn, work, newExit>>

(* Numbers of the blocks and instructions the slicer creates.              *)
SafeReturn == 90
SingleEntry == 91
DivergeOf(k) == 50 + k
NewInstr == 9

JumpTo(k) == Instr(NewInstr, "jmp", 0, <<>>, <<k>>, <<>>)
ReturnOf(f) ==
  Instr(NewInstr, "ret", 0, <<<<0, IF f = Main THEN 0 ELSE Undef>>>>, <<>>, <<>>)

(* A reference dropped by dropAllUses.                                     *)
Null == 4

MapCode(fun, Op(_, _)) == [fun EXCEPT !.code = [k \in DOMAIN @ |-> Op(k, @[k])]]

(* Every instruction of a function changed by Op.                          *)
MapInstrs(fun, Op(_)) ==
  MapCode(fun, LAMBDA k, c : [j \in DOMAIN c |-> Op(c[j])])

Retarget(in, j, k) ==
  IF in.op = "phi" THEN in
  ELSE [in EXCEPT !.to = [i \in DOMAIN @ |-> IF @[i] = j THEN k ELSE @[i]]]

ReplaceOperands(in, A, c) ==
  [in EXCEPT !.args = [i \in DOMAIN @ |-> IF @[i] \in A THEN <<0, c>> ELSE @[i]]]

(* The references to instructions with numbers I of block k.               *)
RefsTo(k, I) == {<<k, i>> : i \in I}

Erased(fun) == [fun EXCEPT !.list = <<>>]

(* removeUnusedFromModule.                                                 *)
UnusedFunctions(m) ==
  {f \in DOMAIN m : f # Main /\ HasBody(m, f) /\ CallsTo(m, f) = {}}

WithoutUnused(m) ==
  LET r[n \in 0 .. Len(m)] ==
        IF n = 0 THEN m
        ELSE [f \in DOMAIN m |-> IF f \in UnusedFunctions(r[n - 1]) THEN Erased(m[f])
                                                                   ELSE r[n - 1][f]]
  IN  r[Len(m)]

Criteria(m) == {x \in Instructions(m) : x[3].op = "crit"}

-----------------------------------------------------------------------------
(* cutoffDivergingBranches.                                                *)
(***************************************************************************)
ReturnBlocks(m, f) ==
  {<<f, k>> : k \in {j \in Range(BlockList(m, f)) :
                       \E in \in TermOf(m, f, j) : in.op = "ret"}}

(* The blocks queued for block b: the returns of what it calls, and its    *)
(* predecessors, or the callers if it has none.                            *)
CameFrom(m, b) ==
  (UNION {UNION {ReturnBlocks(m, h) : h \in Range(in.fns)} : in \in Range(CodeOf(m, b[1], b[2]))})
  \cup IF PredBlocks(m, b[1], b[2]) = {}
       THEN {<<x[1], x[2]>> : x \in CallsTo(m, b[1])}
       ELSE {<<b[1], j>> : j \in PredBlocks(m, b[1], b[2])}

RelevantBlocks(m) ==
  LET all == {<<x[1], x[2]>> : x \in Instructions(m)}
      r[n \in 0 .. Cardinality(all)] ==
        IF n = 0 THEN {<<x[1], x[2]>> : x \in Criteria(m)}
        ELSE UNION {prev \cup UNION {CameFrom(m, b) : b \in prev} : prev \in {r[n - 1]}}
  IN  r[Cardinality(all)]

Diverge ==
  <<Instr(1, "exit", 0, <<>>, <<>>, <<>>), Instr(2, "unreachable", 0, <<>>, <<>>, <<>>)>>

(* A function without its irrelevant blocks: where a relevant block leads  *)
(* to one, a new block exits.                                              *)
CutFunction(m, f, relevant) ==
  LET irrelevant == SelectSeq(BlockList(m, f), LAMBDA k : <<f, k>> \notin relevant)
      cut == SelectSeq(irrelevant, LAMBDA k : \E j \in PredBlocks(m, f, k) : <<f, j>> \in relevant)
      keep == SelectSeq(BlockList(m, f), LAMBDA k : <<f, k>> \in relevant)
      moved(in) == IF in.op = "phi" THEN in
                   ELSE [in EXCEPT !.to = [i \in DOMAIN @ |->
                           IF @[i] \in Range(cut) THEN DivergeOf(@[i]) ELSE @[i]]]
      new == [j \in DOMAIN cut |-> DivergeOf(cut[j])]
      code == MapInstrs(m[f], moved).code
  IN  [m[f] EXCEPT !.list = keep \o new,
                   !.code = [k \in DOMAIN code \cup Range(new) |->
                               IF k \in Range(new) THEN Diverge ELSE code[k]]]

CutoffDivergingBranches(m) ==
  LET relevant == RelevantBlocks(m)
  IN  [f \in DOMAIN m |-> CutFunction(m, f, relevant)]

-----------------------------------------------------------------------------
(* The tool up to slicing.                                                 *)
(***************************************************************************)
InitSlicer ==
  /\ phase = "start" /\ unmark = {} /\ fn = 0 /\ work = {} /\ newExit = FALSE
  /\ InitGraph
  /\ InitWalks /\ todo = {}

(* createEmptyMain.                                                        *)
EmptyMain(m) ==
  WithoutUnused([m EXCEPT ![Main] =
    [list |-> <<1>>, code |-> <<<<ReturnOf(Main)>>>>, arg |-> FALSE]])

(* Up to buildDG.                                                          *)
Preprocess ==
  /\ phase = "start"
  /\ IF opts.cutoff /\ Criteria(WithoutUnused(ir)) = {}
     THEN ir' = EmptyMain(WithoutUnused(ir)) /\ phase' = "done"
     ELSE /\ ir' = IF opts.cutoff THEN CutoffDivergingBranches(WithoutUnused(ir))
                                  ELSE WithoutUnused(ir)
          /\ phase' = "build"
  /\ UNCHANGED <<opts, buildVars, markVars, unmark, fn, work, newExit>>

BuildStep ==
  /\ phase = "build" /\ ~Built
  /\ Build
  /\ UNCHANGED <<ir, opts, markVars, sliceVars>>

(* getSlicingCriteriaNodes finds nodes of functions that were built.       *)
CriteriaNodes == {NodeAt(x) : x \in {y \in Criteria(ir) : y[1] \in constructed}}

FindCriteria ==
  /\ phase = "build" /\ Built
  /\ IF CriteriaNodes = {}
     THEN ir' = EmptyMain(ir) /\ phase' = "done" /\ UNCHANGED todo
     ELSE todo' = CriteriaNodes /\ phase' = "defuse" /\ UNCHANGED ir
  /\ UNCHANGED <<opts, buildVars, dir, queue, walked, slice, sliceB, markedBlocks,
                 unmark, fn, work, newExit>>

ComputeDefUse ==
  /\ phase = "defuse"
  /\ AddDefUseEdges
  /\ phase' = "cd"
  /\ UNCHANGED <<ir, opts, markVars, unmark, fn, work, newExit>>

ComputeCD ==
  /\ phase = "cd"
  /\ ComputeControlDependencies
  /\ phase' = "mark"
  /\ UNCHANGED <<ir, opts, markVars, unmark, fn, work, newExit>>

(* Slicer::mark; the order in which nodes are walked does not matter.      *)
MarkStep ==
  /\ phase = "mark" /\ ~Marked
  /\ \/ queue = {} /\ dir = "none" /\ StartMark(CHOOSE c \in todo : TRUE)
     \/ queue # {} /\ MarkNode(CHOOSE n \in queue : TRUE)
     \/ FinishWalk
  /\ UNCHANGED <<ir, opts, buildVars, sliceVars>>

(* The criteria are unmarked if they are to be removed.                    *)
FinishMark ==
  /\ phase = "mark" /\ Marked
  /\ unmark' = IF opts.rmcrit THEN CriteriaNodes ELSE {}
  /\ phase' = "slice" /\ fn' = 1
  /\ UNCHANGED <<ir, opts, buildVars, markVars, work, newExit>>

(* The nodes with the slice id.                                            *)
Kept == slice \ unmark

-----------------------------------------------------------------------------
(* sliceGraph.                                                             *)
(***************************************************************************)
BlocksOf(f) == {b \in dg.blocks : b[1] = f}

(* slice: the next function of the module; one that was not built is       *)
(* erased.  After the last one, cleanAndSaveModule.                        *)
BeginGraph ==
  /\ phase = "slice" /\ fn \in DOMAIN ir
  /\ IF fn \in constructed
     THEN /\ phase' = "remove"
          /\ work' = BlocksOf(fn) \ sliceB
          /\ newExit' = FALSE
          /\ UNCHANGED <<ir, fn>>
     ELSE /\ ir' = [ir EXCEPT ![fn] = Erased(@)]
          /\ fn' = fn + 1
          /\ UNCHANGED <<phase, work, newExit>>
  /\ UNCHANGED <<opts, buildVars, markVars, unmark>>

Clean ==
  /\ phase = "slice" /\ fn \notin DOMAIN ir
  /\ ir' = WithoutUnused(ir)
  /\ phase' = "done"
  /\ UNCHANGED <<opts, buildVars, markVars, unmark, fn, work, newExit>>

(* adjustPhiNodes: a PHI forgets its first value from block k.             *)
ForgetIncoming(in, k) ==
  IF in.op # "phi" \/ k \notin Range(in.to) THEN in
  ELSE LET j == CHOOSE i \in DOMAIN in.to : /\ in.to[i] = k
                                           /\ \A h \in 1 .. i - 1 : in.to[h] # k
       IN  [in EXCEPT !.to = RemoveAt(@, j), !.args = RemoveAt(@, j)]

(* removeBlock: PHIs of the block's successors in the graph, references to *)
(* the block and to its instructions, and the block itself.                *)
BlockRemoved(fun, g, b) ==
  LET k == b[2]
      next == {e[3][2] : e \in {d \in Successors(g, b) : d[2] # Artificial /\ d[3] # b}}
      forgets == MapCode(fun, LAMBDA j, c :
                   IF j \in next THEN [i \in DOMAIN c |-> ForgetIncoming(c[i], k)] ELSE c)
      refs == RefsTo(k, {in.i : in \in Range(fun.code[k])})
  IN  [MapInstrs(forgets, LAMBDA in : ReplaceOperands(Retarget(in, k, 0), refs, Null))
       EXCEPT !.list = SelectSeq(@, LAMBDA j : j # k)]

SliceBBlock(b) ==
  /\ phase = "remove" /\ b \in work
  /\ ir' = [ir EXCEPT ![fn] = BlockRemoved(@, dg, b)]
  /\ dg' = RemoveBlock(dg, b)
  /\ work' = work \ {b}
  /\ UNCHANGED <<opts, constructed, stack, markVars, phase, unmark, fn, newExit>>

SliceBBlocksDone ==
  /\ phase = "remove" /\ work = {}
  /\ phase' = "adjust" /\ work' = BlocksOf(fn)
  /\ UNCHANGED <<ir, opts, buildVars, markVars, unmark, fn, newExit>>

OldExit == <<fn, 0>>
NewExit == <<fn, SafeReturn>>
IsCut(b) == LastNode(dg, b) \notin Kept

SingleSuccessor(g, b, c) == AddSuccessor(RemoveSuccessors(g, b), b, 0, c)

(* A self-loop of a branch that is going to be removed.                    *)
WithoutSelfLoop(g, b) ==
  IF /\ IsCut(b) /\ b \in Targets(g, b)
     /\ Cardinality(Successors(g, b)) = 2 /\ ~SuccessorsAreSame(g, b)
  THEN RemoveSuccessorsTarget(g, b, b)
  ELSE g

Labels(g, b) ==
  {e[2] : e \in {d \in Successors(g, b) : d[2] # Artificial /\ d[3] # OldExit}}

(* The labels of the block's terminator that lead nowhere any more.        *)
MissingLabels(g, b) ==
  {l[1] : l \in SuccEdges(ir, fn, b[2])} \ Labels(g, b)

(* The jumps under missing labels go to the new exit.                      *)
FilledLabels(g, b, missing, exits) ==
  LET filled == [g EXCEPT !.succ = @ \cup {<<b, l, NewExit>> : l \in missing},
                          !.pred = @ \cup {<<NewExit, b>> : l \in missing}]
      moved == IF exits THEN RemoveSuccessorsTarget(filled, b, OldExit) ELSE filled
  IN  IF Cardinality(Successors(moved, b)) > 1 /\ SuccessorsAreSame(moved, b)
      THEN SingleSuccessor(moved, b, CHOOSE c \in Targets(moved, b) : TRUE)
      ELSE moved

(* createNewExitBB.                                                        *)
WithNewExit(fun, f) ==
  [fun EXCEPT !.list = Append(@, SafeReturn),
              !.code = [k \in DOMAIN @ \cup {SafeReturn} |->
                          IF k = SafeReturn THEN <<ReturnOf(f)>> ELSE @[k]]]

(* The body of the loop of adjustBBlocksSucessors, with the graph and      *)
(* whether the new exit is there afterwards.                               *)
Adjusted(b, g) ==
  IF Successors(g, b) = {} THEN <<g, newExit>>
  ELSE IF IsCut(b) /\ Cardinality(Successors(g, b)) = 1
  THEN IF Targets(g, b) = {OldExit} THEN <<SingleSuccessor(g, b, NewExit), TRUE>>
       ELSE <<SingleSuccessor(g, b, CHOOSE c \in Targets(g, b) : TRUE), newExit>>
  ELSE LET missing == MissingLabels(g, b)
       IN  <<FilledLabels(g, b, missing, newExit \/ missing # {}), newExit \/ missing # {}>>

AdjustBBlock(b) ==
  /\ phase = "adjust" /\ b \in work
  /\ \E r \in {Adjusted(b, WithoutSelfLoop(dg, b))} :
       /\ newExit' = r[2]
       /\ IF r[2] /\ ~newExit
          THEN /\ ir' = [ir EXCEPT ![fn] = WithNewExit(@, fn)]
               /\ dg' = AddNodes(r[1], {InstrNode(fn, SafeReturn, NewInstr)})
          ELSE dg' = r[1] /\ UNCHANGED ir
  /\ work' = work \ {b}
  /\ UNCHANGED <<opts, constructed, stack, markVars, phase, unmark, fn>>

(* The instructions that sliceGraph removes; nothing else is, as the exit  *)
(* nodes and unreachable instructions stay.                                *)
Removable(b) ==
  {n \in NodesOf(dg, b) \ Kept : ~\E in \in Range(CodeOf(ir, b[1], b[2])) :
                                     n = InstrNode(b[1], b[2], in.i) /\ in.op = "unreachable"}

SlicedCode(fun, f, gone) ==
  LET keep(k, c) == SelectSeq(c, LAMBDA in : InstrNode(f, k, in.i) \notin gone)
  IN  MapInstrs(MapCode(fun, keep),
                LAMBDA in : ReplaceOperands(in, {<<n[2][2], n[2][3]>> : n \in gone}, Undef))

AdjustBBlocksDone ==
  /\ phase = "adjust" /\ work = {}
  /\ dg' = IF newExit THEN [dg EXCEPT !.blocks = @ \cup {NewExit}] ELSE dg
  /\ phase' = "nodes" /\ work' = BlocksOf(fn)
  /\ UNCHANGED <<ir, opts, constructed, stack, markVars, unmark, fn, newExit>>

(* The nodes of one block; a block that loses all of them leaves the graph.*)
SliceNodes ==
  /\ phase = "nodes" /\ work # {}
  /\ LET b == CHOOSE c \in work : TRUE IN
     /\ ir' = [ir EXCEPT ![fn] = SlicedCode(@, fn, Removable(b))]
     /\ dg' = DeleteNodes(dg, b, Removable(b))
     /\ work' = work \ {b}
  /\ UNCHANGED <<opts, constructed, stack, markVars, phase, unmark, fn, newExit>>

SliceNodesDone ==
  /\ phase = "nodes" /\ work = {}
  /\ phase' = "reconnect"
  /\ work' = BlocksOf(fn)
  /\ UNCHANGED <<ir, opts, buildVars, markVars, unmark, fn, newExit>>

(* reconnectBBlock: the codes a block may get.  Of several edges with the  *)
(* same label the last one wins.                                           *)
Retargeted(in, edges) ==
  {[in EXCEPT !.to = t] :
     t \in {u \in [DOMAIN in.to -> {e[3][2] : e \in edges} \cup Range(in.to)] :
             \A j \in DOMAIN u :
               IF \E e \in edges : e[2] = j - 1
               THEN \E e \in edges : e[2] = j - 1 /\ u[j] = e[3][2]
               ELSE u[j] = in.to[j]}}

ReconnectedCodes(code, f, edges) ==
  IF \E in \in Range(code) : IsTerm(in)
  THEN {Front(code) \o <<in>> : in \in Retargeted(Last(code), {e \in edges : e[2] # Artificial})}
  ELSE IF edges = {} THEN {code \o <<ReturnOf(f)>>}
  ELSE {code \o <<JumpTo(e[3][2])>> :
          e \in {d \in edges : d[2] # Artificial /\ Cardinality(edges) = 1}}

ReconnectBBlock ==
  /\ phase = "reconnect" /\ work # {}
  /\ LET b == CHOOSE c \in work : TRUE
         codes == ReconnectedCodes(CodeOf(ir, fn, b[2]), fn, Successors(dg, b))
     IN  /\ work' = work \ {b}
         /\ IF codes = {} THEN phase' = "aborted" /\ UNCHANGED ir
            ELSE /\ \E c \in codes : ir' = [ir EXCEPT ![fn].code[b[2]] = c]
                 /\ UNCHANGED phase
  /\ UNCHANGED <<opts, buildVars, markVars, unmark, fn, newExit>>

(* Mutant: the entry block stays as it is.                                 *)
EnsuredEntryNot(m, f) == m[f]

(* ensureEntryBlock.                                                       *)
EnsuredEntry(m, f) ==
  IF HasBody(m, f) /\ PredBlocks(m, f, EntryOf(m, f)) # {}
  THEN [m[f] EXCEPT !.list = <<SingleEntry>> \o @,
                    !.code = [k \in DOMAIN @ \cup {SingleEntry} |->
                       IF k = SingleEntry THEN <<JumpTo(EntryOf(m, f))>> ELSE @[k]]]
  ELSE m[f]

EnsureEntryBlock ==
  /\ phase = "reconnect" /\ work = {}
  /\ ir' = [ir EXCEPT ![fn] = EnsuredEntry(ir, fn)]
  /\ phase' = "slice" /\ fn' = fn + 1
  /\ UNCHANGED <<opts, buildVars, markVars, unmark, work, newExit>>

SlicerNext ==
  \/ Preprocess \/ BuildStep \/ FindCriteria \/ ComputeDefUse \/ ComputeCD
  \/ MarkStep \/ FinishMark
  \/ BeginGraph \/ Clean
  \/ (\E b \in work : SliceBBlock(b)) \/ SliceBBlocksDone
  \/ (\E b \in work : AdjustBBlock(b)) \/ AdjustBBlocksDone
  \/ SliceNodes \/ SliceNodesDone
  \/ ReconnectBBlock \/ EnsureEntryBlock

=============================================================================
