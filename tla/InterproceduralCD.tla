------------------------- MODULE InterproceduralCD --------------------------
(***************************************************************************)
(* class LLVMControlDependenceAnalysis, which answers questions about the  *)
(* control dependencies of a module from two analyses.                     *)
(*                                                                         *)
(* _impl (llvmdg::SCD, NTSCD, DOD and their interprocedural variants) is   *)
(* chosen by the options.  It builds a graph of the blocks or of the       *)
(* instructions, of one function or of all of them, runs an algorithm on   *)
(* it, and keeps the result.                                               *)
(*                                                                         *)
(* _interprocImpl (llvmdg::LLVMInterprocCD): instructions after a call     *)
(* that may not return depend on that call.  computeFuncInfo finds,        *)
(* recursively over the calls, the points from which a function may not    *)
(* return to its caller; computeCD spreads them over the blocks of one     *)
(* function.  The recursion of computeFuncInfo is a stack of frames; its   *)
(* argument stack, a set passed by value, holds the functions of these     *)
(* frames.                                                                 *)
(*                                                                         *)
(* Everything is computed on demand and kept, so later answers rest on     *)
(* what earlier questions left behind.                                     *)
(***************************************************************************)
EXTENDS Naturals, FiniteSets, Sequences, SequencesExt

CONSTANTS
  F,          \* the number of defined functions
  B,          \* the number of blocks of a function
  MaxNodes,   \* no graph that is built has more nodes
  Programs,   \* the modules that are analysed
  Options(_)  \* the options with which a module is analysed

ASSUME SizesAssumption == F \in Nat \ {0} /\ B \in Nat \ {0} /\ MaxNodes \in Nat

Fun == 1 .. F
Block == 1 .. B

(* The parts of a module the analysis looks at: control-flow edges, for    *)
(* every block the calls in it, each given by the defined functions it may *)
(* call (getCalledFunctions; declarations are skipped), and the blocks     *)
(* that end without a successor and without a return.                      *)
Program == [succ  : [Fun -> [Block -> SUBSET Block]],
            calls : [Fun -> [Block -> Seq(SUBSET Fun)]],
            exits : [Fun -> SUBSET Block]]

NumberOfNodes(p) ==
  F * B + Len(FlattenSeq([f \in Fun |-> FlattenSeq(p.calls[f])]))

ASSUME ProgramsAssumption ==
  Programs \subseteq Program /\ \A p \in Programs : NumberOfNodes(p) <= MaxNodes

(* LLVMControlDependenceAnalysisOptions: the algorithm, nodePerInstruction,*)
(* ICFG and interproceduralCD.  There is no ICFG for the standard relation.*)
Option ==
  {o \in [alg : {"standard", "ntscd", "dodRanganath"}, instr : BOOLEAN,
          icfg : BOOLEAN, interproc : BOOLEAN] : o.alg = "standard" => ~o.icfg}

ASSUME OptionsAssumption == \A p \in Programs : Options(p) \subseteq Option

VARIABLES
  prog,       \* the module
  opts,       \* the options
  graphs,     \* functions in _graphs (NTSCD, DOD) or _computed (SCD)
  computed,   \* _computed of the interprocedural variants
  cd,         \* controlDependence or dependencies: <<value, its dependence>>
  pc,         \* "idle" between queries, "info", "cd", or "aborted"
  todo,       \* functions compute() still has to go through
  want,       \* getDependencies was asked for this function; 0: it was not
  stack,      \* the active calls of computeFuncInfo, innermost first
  known,      \* the functions that have an entry in _funcInfos
  noret,      \* _funcInfos[f].noret
  cds, queue, \* locals of computeCD
  hasCD,      \* the functions whose hasCD is set
  blockCD,    \* _blockCD
  instrCD     \* _instrCD, for the call instructions

front == <<prog, opts, graphs, computed, cd>>
vars == <<front, pc, todo, want, stack, known, noret, cds, queue, hasCD,
          blockCD, instrCD>>

(* A call instruction: the i-th call of a block.  A terminator that is a   *)
(* point of no return is number 0.                                         *)
Point == Fun \X Block \X Nat

Targets(c) == prog.calls[c[1]][c[2]][c[3]]

CallsIn(f, b) == [i \in 1 .. Len(prog.calls[f][b]) |-> <<f, b, i>>]

(* All calls of a function, which come in the order of its blocks.         *)
CallsOf(f) == UNION {Range(CallsIn(f, b)) : b \in Block}

Before(c, d) == c[2] < d[2] \/ (c[2] = d[2] /\ c[3] < d[3])

Exits(f) == {<<f, b, 0>> : b \in prog.exits[f]}

(* A frame: the calls that are still to come, and the current one with the *)
(* targets that are still to be looked at.                                 *)
Frame == [fun : Fun, rest : SUBSET Point, left : SUBSET (Point \X Fun)]

OnStack == {stack[i].fun : i \in DOMAIN stack}

TypeOK ==
  /\ prog \in Program /\ opts \in Option
  /\ graphs \subseteq Fun /\ computed \in BOOLEAN
  /\ pc \in {"idle", "info", "cd", "aborted"}
  /\ todo \in Seq(Fun)
  /\ want \in {0} \cup Fun
  /\ stack \in Seq(Frame)
  /\ Cardinality(OnStack) = Len(stack)
  /\ OnStack \subseteq known
  /\ known \in SUBSET Fun
  /\ \A f \in Fun : noret[f] \subseteq Exits(f) \cup CallsOf(f)
  /\ queue \in Seq(Block)
  /\ DOMAIN cds = Block
  /\ hasCD \subseteq known
  /\ DOMAIN blockCD = Fun /\ DOMAIN instrCD = Fun

Init ==
  /\ prog \in Programs
  /\ opts \in Options(prog)
  /\ graphs = {}
  /\ computed = FALSE
  /\ cd = {}
  /\ pc = "idle"
  /\ todo = <<>>
  /\ want = 0
  /\ stack = <<>>
  /\ known = {}
  /\ noret = [f \in Fun |-> {}]
  /\ cds = [b \in Block |-> {}]
  /\ queue = <<>>
  /\ hasCD = {}
  /\ blockCD = [f \in Fun |-> [b \in Block |-> {}]]
  /\ instrCD = [f \in Fun |-> {}]

-----------------------------------------------------------------------------
(* Graphs.  An instruction is a point, a block <<f, b>>.  A graph has its  *)
(* nodes in the order of their creation, and edges between values.         *)
(***************************************************************************)
Instructions(f, b) == Append(CallsIn(f, b), <<f, b, 0>>)

InstructionsOf(f) == FlattenSeq([b \in Block |-> Instructions(f, b)])

Entry(f) == Instructions(f, 1)[1]

(* The blocks that end in a return instruction.                            *)
Returns(f) == {b \in Block : prog.succ[f][b] = {}} \ prog.exits[f]

(* Edges between consecutive instructions of a block, except behind those  *)
(* in inlined, and from its terminator to the blocks that follow.          *)
BlockEdges(f, b, inlined) ==
  LET is == Instructions(f, b) IN
  {<<is[i], is[i + 1]>> : i \in {j \in 1 .. Len(is) - 1 : is[j] \notin inlined}}
    \cup {<<Last(is), Instructions(f, s)[1]>> : s \in prog.succ[f][b]}

(* CDGraphBuilder.                                                         *)
buildInstructions(f) ==
  [nodes |-> InstructionsOf(f),
   edges |-> UNION {BlockEdges(f, b, {}) : b \in Block}]

buildBlocks(f) ==
  [nodes |-> [b \in Block |-> <<f, b>>],
   edges |-> {<<<<f, e[1]>>, <<f, e[2]>>>> :
                e \in {d \in Block \X Block : d[2] \in prog.succ[f][d[1]]}}]

build(f) == IF opts.instr THEN buildInstructions(f) ELSE buildBlocks(f)

(* ICDGraphBuilder: a call of defined functions is followed by their       *)
(* entries, and their returns by what comes after the call.                *)
Inlined(f, b) == SelectSeq(CallsIn(f, b), LAMBDA c : Targets(c) # {})

AllInlined == UNION {Range(Inlined(f, b)) : f \in Fun, b \in Block}

ibuildInstructions ==
  [nodes |-> FlattenSeq([f \in Fun |-> InstructionsOf(f)]),
   edges |->
     (UNION {BlockEdges(f, b, AllInlined) : f \in Fun, b \in Block})
     \cup UNION {UNION {{<<c, Entry(g)>>} \cup
                      {<<<<g, r, 0>>, Instructions(c[1], c[2])[c[3] + 1]>> : r \in Returns(g)} :
                        g \in Targets(c)} : c \in AllInlined}]

(* Every call begins a new node for the rest of its block, which is known  *)
(* by the call and stands for no value; but the function's returns leave   *)
(* from the node of the block itself.                                      *)
Parts(f, b) == <<<<f, b>>>> \o Inlined(f, b)

ibuildBlocks ==
  LET parts == FlattenSeq([f \in Fun |-> FlattenSeq([b \in Block |-> Inlined(f, b)])]) IN
  [nodes |-> FlattenSeq([f \in Fun |-> [b \in Block |-> <<f, b>>]]) \o parts,
   edges |-> UNION {
     LET ps == Parts(f, b) IN
     (UNION {UNION {{<<ps[i], <<g, 1>>>>} \cup {<<<<g, r>>, ps[i + 1]>> : r \in Returns(g)} :
                      g \in Targets(ps[i + 1])} : i \in 1 .. Len(ps) - 1})
     \cup {<<Last(ps), <<f, s>>>> : s \in prog.succ[f][b]} : f \in Fun, b \in Block}]

ibuild == IF opts.instr THEN ibuildInstructions ELSE ibuildBlocks

(* getValue: the value a node stands for.                                  *)
NoValue == <<>>

getValue(v) == IF Len(v) = 3 /\ ~opts.instr THEN NoValue ELSE v

-----------------------------------------------------------------------------
(* The algorithms.  The relations they compute are those of CDGraph, which *)
(* is what the modules NTSCD and DODRanganath are about.                   *)
(***************************************************************************)
CDG == INSTANCE CDGraph WITH N <- MaxNodes, Inputs <- {}

Successors(g) ==
  [n \in CDG!Node |-> {m \in DOMAIN g.nodes :
                          n \in DOMAIN g.nodes /\ <<g.nodes[n], g.nodes[m]>> \in g.edges}]

(* The nodes of g and what they depend on, as values.                      *)
AsValues(g, R) == {<<g.nodes[r[1]], g.nodes[r[2]]>> : r \in R}

NTSCDOf(g) ==
  AsValues(g, UNION {UNION {UNION {
    {<<t, p>> : p \in {q \in DOMAIN g.nodes : \E s1, s2 \in G[q] : s1 \notin A /\ s2 \in A}} :
      A \in {CDG!Avoiders(G, t)}} : t \in DOMAIN g.nodes} : G \in {Successors(g)}})

(* All maximal paths from s meet a; and before b.                          *)
Meets(G, s, a) == s \notin CDG!Avoiders(G, a)
MeetsBefore(G, s, a, b) == Meets([G EXCEPT ![b] = {}], s, a)

(* The nodes of S, all on all maximal paths from p, that come first for    *)
(* one successor of p and after another one of S for another successor.    *)
Ordered(G, p, S) ==
  {a \in S : \E b \in S \ {a} : /\ \E s \in G[p] : MeetsBefore(G, s, a, b)
                               /\ \E s \in G[p] : MeetsBefore(G, s, b, a)}

DODOf(g) ==
  AsValues(g, UNION {UNION {UNION {
    {<<a, p>> : a \in Ordered(G, p, S)} :
      S \in {{a \in DOMAIN g.nodes \ {p} : Meets(G, p, a)}}} :
      p \in {n \in DOMAIN g.nodes : CDG!IsPredicate(G, n)}} : G \in {Successors(g)}})

(* LLVM's post-dominator tree of a function: the blocks on all ways from b *)
(* to its end, and the next of them (0 if it is the root).                 *)
Reaching(f, Avoid) ==
  LET r[k \in 0 .. B] ==
        IF k = 0 THEN {b \in Block : prog.succ[f][b] = {}} \ Avoid
        ELSE UNION {{b \in Block \ Avoid : b \in prev \/ prog.succ[f][b] \cap prev # {}} :
                      prev \in {r[k - 1]}}
  IN  r[B]

PostDoms(f, b) == {c \in Block : b \notin Reaching(f, {c})}

IDom(f, b) ==
  LET up == PostDoms(f, b) \ {b} IN
  IF up = {} THEN 0 ELSE CHOOSE c \in up : up \subseteq PostDoms(f, c)

(* PostDominanceFrontiers::calculate, for all blocks at once: the own      *)
(* predecessors, then what the children in the tree pass up.               *)
Frontiers(f) ==
  LET local(b) == {p \in Block : b \in prog.succ[f][p] /\ IDom(f, p) # b}
      up(df) == [b \in Block |-> df[b] \cup
                   UNION {{x \in df[c] : b \notin PostDoms(f, x) \ {x}} :
                            c \in {d \in Block : IDom(f, d) = b}}]
      df[k \in 0 .. B] == IF k = 0 THEN [b \in Block |-> local(b)] ELSE up(df[k - 1])
  IN  df[B]

(* SCD::computePostDominators.                                             *)
SCDOf(f) ==
  UNION {UNION {{<<<<f, b>>, <<f, p>>>> : p \in df[b]} : b \in Block} : df \in {Frontiers(f)}}

-----------------------------------------------------------------------------
(* The implementations.  Demands: the functions whose dependencies a       *)
(* question q makes an implementation compute, unless it has them.  q is   *)
(* "instruction" or "block" (getDependencies), "compute" for compute(f),   *)
(* "all" for compute() without an argument.                                *)
(***************************************************************************)
SCDDemands(q, f) == CASE q = "instruction" -> {}
                      [] q = "all" -> Fun
                      [] OTHER -> {f}

NTSCDDemands(q, f) == CASE q = "instruction" -> IF opts.instr THEN {f} ELSE {}
                        [] q = "block" -> IF opts.instr THEN {} ELSE {f}
                        [] q = "compute" -> IF f \in graphs THEN Fun ELSE {f}
                        [] q = "all" -> Fun

NTSCDOnDemand(f) == NTSCDOf(build(f))

(* Class DOD repeats class NTSCD.                                          *)
DODDemands(q, f) == NTSCDDemands(q, f)

DODOnDemand(f) == DODOf(build(f))

(* InterproceduralNTSCD: does the question call _compute?                  *)
INTSCDDemands(q) == q \in {"compute", "all", IF opts.instr THEN "instruction" ELSE "block"}

INTSCDCompute == NTSCDOf(ibuild)

(* InterproceduralDOD repeats InterproceduralNTSCD.                        *)
IDODDemands(q) == INTSCDDemands(q)

IDODCompute == DODOf(ibuild)

(* What the implementation chosen by initializeImpl computes and keeps;    *)
(* onDemand[f] is what it computes for f.                                  *)
Compute(fs, onDemand) ==
  /\ graphs' = graphs \cup fs
  /\ cd' = cd \cup UNION {onDemand[f] : f \in fs \ graphs}
  /\ UNCHANGED computed

ComputeModule(demanded, result) ==
  /\ computed' = (computed \/ demanded)
  /\ cd' = IF demanded /\ ~computed
            THEN {<<e[1], getValue(e[2])>> : e \in result} ELSE cd
  /\ UNCHANGED graphs

AskImpl(q, f) ==
  CASE opts.alg = "standard" -> Compute(SCDDemands(q, f), [g \in Fun |-> SCDOf(g)])
    [] opts.alg = "ntscd" /\ ~opts.icfg -> Compute(NTSCDDemands(q, f), [g \in Fun |-> NTSCDOnDemand(g)])
    [] opts.alg = "ntscd" /\ opts.icfg -> ComputeModule(INTSCDDemands(q), INTSCDCompute)
    [] opts.alg = "dodRanganath" /\ ~opts.icfg -> Compute(DODDemands(q, f), [g \in Fun |-> DODOnDemand(g)])
    [] opts.alg = "dodRanganath" /\ opts.icfg -> ComputeModule(IDODDemands(q), IDODCompute)

-----------------------------------------------------------------------------
(* Questions: first to _impl, then to _interprocImpl, which has to find    *)
(* out about the functions fs and computes the dependencies of f (0: of    *)
(* none).                                                                  *)
(***************************************************************************)
AskInterproc(fs, f) ==
  /\ IF fs # <<>> THEN pc' = "info" /\ todo' = fs /\ want' = f
                  ELSE UNCHANGED <<pc, todo, want>>
  /\ UNCHANGED <<prog, opts, stack, known, noret, cds, queue, hasCD, blockCD, instrCD>>

(* getDependencies(I) for an instruction I of f.                           *)
GetDependencies(f) ==
  /\ pc = "idle"
  /\ AskImpl("instruction", f)
  /\ AskInterproc(IF opts.interproc /\ f \notin hasCD THEN <<f>> ELSE <<>>, f)

(* getDependencies(b) for a block b of f; LLVMInterprocCD has none.        *)
GetBlockDependencies(f) ==
  /\ pc = "idle"
  /\ AskImpl("block", f)
  /\ AskInterproc(<<>>, 0)

(* compute(f).                                                             *)
ComputeFunction(f) ==
  /\ pc = "idle"
  /\ AskImpl("compute", f)
  /\ AskInterproc(IF opts.interproc /\ f \notin known THEN <<f>> ELSE <<>>, 0)

(* compute().                                                              *)
ComputeAll ==
  /\ pc = "idle"
  /\ AskImpl("all", 0)
  /\ AskInterproc(IF opts.interproc /\ known # Fun THEN [f \in Fun |-> f] ELSE <<>>, 0)

(* getNoReturns(f), which the option interproceduralCD does not turn off.  *)
GetNoReturns(f) ==
  /\ pc = "idle"
  /\ f \notin known
  /\ AskInterproc(<<f>>, 0)
  /\ UNCHANGED <<graphs, computed, cd>>

-----------------------------------------------------------------------------
(* computeFuncInfo.                                                        *)
(***************************************************************************)
(* The call computeFuncInfo(f): an entry with the points of no return that *)
(* are not calls, and then the calls one by one.                           *)
Enter(f) ==
  /\ known' = known \cup {f}
  /\ noret' = [noret EXCEPT ![f] = Exits(f)]
  /\ stack' = <<[fun |-> f, rest |-> CallsOf(f), left |-> {}]>> \o stack

(* Mutant: a function that has its entry is not taken off the list.        *)
EnterNextAgain ==
  /\ pc = "info"
  /\ stack = <<>>
  /\ todo # <<>>
  /\ IF Head(todo) \in known THEN UNCHANGED <<todo, known, noret, stack>>
                             ELSE todo' = Tail(todo) /\ Enter(Head(todo))
  /\ UNCHANGED <<front, pc, want, cds, queue, hasCD, blockCD, instrCD>>

(* The next function of the query, unless it has its entry already.        *)
EnterNext ==
  /\ pc = "info"
  /\ stack = <<>>
  /\ todo # <<>>
  /\ todo' = Tail(todo)
  /\ IF Head(todo) \in known THEN UNCHANGED <<known, noret, stack>>
                             ELSE Enter(Head(todo))
  /\ UNCHANGED <<front, pc, want, cds, queue, hasCD, blockCD, instrCD>>

Top == Head(stack)
InCall == pc = "info" /\ stack # <<>>

(* Mutant: functions on the stack are not told apart.                      *)
CallIsNoretOnlyInfo(g) == noret[g] # {}

(* A call of g is a point of no return: a recursive call, or g has one.    *)
CallIsNoret(g) == g \in OnStack \/ noret[g] # {}

(* A target without an entry, and not on the stack: descend into it.       *)
Descend(g) ==
  /\ InCall
  /\ \E d \in Top.left : d[2] = g
  /\ g \notin known
  /\ Enter(g)
  /\ UNCHANGED <<front, pc, todo, want, cds, queue, hasCD, blockCD, instrCD>>

(* A target g of the call c that is on the stack or has its entry.         *)
Account(c, g) ==
  /\ InCall
  /\ <<c, g>> \in Top.left
  /\ g \in known
  /\ noret' = [noret EXCEPT ![Top.fun] = IF CallIsNoret(g) THEN @ \cup {c} ELSE @]
  /\ stack' = <<[Top EXCEPT !.left = @ \ {<<c, g>>}]>> \o Tail(stack)
  /\ UNCHANGED <<front, pc, todo, want, known, cds, queue, hasCD, blockCD, instrCD>>

NextCall(c) ==
  /\ InCall
  /\ Top.left = {}
  /\ c \in Top.rest
  /\ \A d \in Top.rest : ~Before(d, c)
  /\ stack' = <<[Top EXCEPT !.rest = @ \ {c}, !.left = {c} \X Targets(c)]>> \o Tail(stack)
  /\ UNCHANGED <<front, pc, todo, want, known, noret, cds, queue, hasCD, blockCD,
                 instrCD>>

Return ==
  /\ InCall
  /\ Top.left = {} /\ Top.rest = {}
  /\ stack' = Tail(stack)
  /\ UNCHANGED <<front, pc, todo, want, known, noret, cds, queue, hasCD, blockCD,
                 instrCD>>

InfoDone == pc = "info" /\ stack = <<>> /\ todo = <<>>

AnswerNoReturns ==
  /\ InfoDone
  /\ want = 0
  /\ pc' = "idle"
  /\ UNCHANGED <<front, todo, want, stack, known, noret, cds, queue, hasCD,
                 blockCD, instrCD>>

-----------------------------------------------------------------------------
(* computeCD(want).                                                        *)
(***************************************************************************)
(* (1) The calls in a block that may not return.                           *)
BlockNoret(b) ==
  {c \in Range(CallsIn(want, b)) : \E g \in Targets(c) : noret[g] # {}}

Succ(b) == prog.succ[want][b]
Pred(b) == {a \in Block : b \in Succ(a)}

(* The edges that leave blocks with such calls, in the order of a hash map.*)
NoretEdges ==
  {e \in Block \X Block : BlockNoret(e[1]) # {} /\ e[2] \in Succ(e[1])}

(* The assertion that all defined functions that are called have an entry. *)
StartCD ==
  /\ InfoDone
  /\ want # 0
  /\ IF \A c \in CallsOf(want) : Targets(c) \subseteq known
     THEN /\ cds' = [b \in Block |-> {}]
          /\ \E order \in SetToSeqs(NoretEdges) :
               queue' = [i \in DOMAIN order |-> order[i][2]]
          /\ pc' = "cd"
     ELSE pc' = "aborted" /\ UNCHANGED <<cds, queue>>
  /\ UNCHANGED <<front, todo, want, stack, known, noret, hasCD, blockCD, instrCD>>

(* Mutant: the block's own points are merged, not its predecessors'.       *)
MergedOwn(b) == cds[b] \cup BlockNoret(b)

Merged(b) == cds[b] \cup UNION {cds[a] \cup BlockNoret(a) : a \in Pred(b)}

(* (2) One round of the fixpoint computation.                              *)
PopBlock ==
  /\ pc = "cd"
  /\ queue # <<>>
  /\ LET b == Head(queue) IN
     /\ cds' = [cds EXCEPT ![b] = Merged(b)]
     /\ IF Merged(b) # cds[b]
        THEN \E order \in SetToSeqs(Succ(b)) : queue' = order \o Tail(queue)
        ELSE queue' = Tail(queue)
  /\ UNCHANGED <<front, pc, todo, want, stack, known, noret, hasCD, blockCD, instrCD>>

(* (3) Within a block, the instructions after a call that may not return:  *)
(* pairs of an instruction and the call it depends on.                     *)
InstrDeps ==
  {d \in CallsOf(want) \X CallsOf(want) :
     /\ d[1][2] = d[2][2] /\ d[2][3] < d[1][3]
     /\ d[2] \in BlockNoret(d[2][2])}

EndCD ==
  /\ pc = "cd"
  /\ queue = <<>>
  /\ blockCD' = [blockCD EXCEPT ![want] = cds]
  /\ instrCD' = [instrCD EXCEPT ![want] = InstrDeps]
  /\ hasCD' = hasCD \cup {want}
  /\ want' = 0
  /\ pc' = "idle"
  /\ UNCHANGED <<front, todo, stack, known, noret, cds, queue>>

(* No client has to ask again.                                             *)
Idle == pc = "idle" /\ UNCHANGED vars

Next ==
  \/ \E f \in Fun : \/ GetDependencies(f) \/ GetBlockDependencies(f)
                    \/ ComputeFunction(f) \/ GetNoReturns(f)
                    \/ Descend(f)
  \/ InCall /\ \/ \E c \in Top.rest : NextCall(c)
               \/ \E d \in Top.left : Account(d[1], d[2])
  \/ ComputeAll \/ EnterNext \/ Return \/ AnswerNoReturns
  \/ StartCD \/ PopBlock \/ EndCD
  \/ Idle

Spec == Init /\ [][Next]_vars

(* A query, once begun, runs; nobody has to ask one.                       *)
FairSpec == Spec /\ WF_vars(pc # "idle" /\ Next)

-----------------------------------------------------------------------------
(* The functions some chain of calls leads to from f.                      *)
Calls(f) == UNION {Targets(c) : c \in CallsOf(f)}

CalledFrom(f) ==
  LET calls == [g \in Fun |-> Calls(g)]
      Closed == {A \in SUBSET Fun : calls[f] \subseteq A /\ \A g \in A : calls[g] \subseteq A}
  IN  {g \in Fun : \A A \in Closed : g \in A}

Recursive(f) == f \in CalledFrom(f)

(* f may not return: a block from which the program does not go on, or     *)
(* recursion, in f or somewhere below it.                                  *)
MayNotReturn(f) ==
  \E g \in {f} \cup CalledFrom(f) : prog.exits[g] # {} \/ Recursive(g)

NoretPoints(f) ==
  LET N == {g \in Calls(f) : MayNotReturn(g)} IN
  Exits(f) \cup {c \in CallsOf(f) : Targets(c) \cap N # {}}

(* The points of no return of a finished function are right whichever      *)
(* query came first: what is kept never depends on the order of queries,   *)
(* although a function is entered only once and recursion is cut off.      *)
NoretExact == \A f \in known \ OnStack : noret[f] = NoretPoints(f)

(* Blocks that can be reached from the end of block b.                     *)
After(f, b) ==
  LET succ == prog.succ[f]
      Closed == {A \in SUBSET Block : succ[b] \subseteq A /\ \A a \in A : succ[a] \subseteq A}
  IN  {a \in Block : \A A \in Closed : a \in A}

Noret(f) == NoretPoints(f) \ Exits(f)

(* An instruction depends on exactly the calls that may not return and may *)
(* be executed before it, in whatever order blocks were served.            *)
CallDependencies(f, x) ==
  {c \in Noret(f) : x[2] \in After(f, c[2]) \/ (x[2] = c[2] /\ (x[3] = 0 \/ c[3] < x[3]))}

InterprocExact ==
  \A f \in hasCD : \A x \in CallsOf(f) :
    blockCD[f][x[2]] \cup {d[2] : d \in {e \in instrCD[f] : e[1] = x}} = CallDependencies(f, x)

(* The dependencies of a block, by their definitions.                      *)
BG == INSTANCE CDGraph WITH N <- B, Inputs <- {}

(* Ferrante's: b is on all ways from a successor of p to the end, and is p *)
(* or is not on all ways from p.                                           *)
StandardDependent(f, b, p) ==
  /\ \E s \in prog.succ[f][p] : b \in PostDoms(f, s)
  /\ b = p \/ b \notin PostDoms(f, p)

NTSCDependent(f, b, p) == BG!NTSCDependent(prog.succ[f], b, p)

Depends(f, b, p) ==
  CASE opts.alg = "standard" -> StandardDependent(f, b, p)
    [] opts.alg = "ntscd" -> NTSCDependent(f, b, p)
    [] opts.alg = "dodRanganath" -> b \in BG!DODof(prog.succ[f], p)

ByInstruction == opts.instr /\ opts.alg # "standard"

Dependencies(v) == {e[2] : e \in {d \in cd : d[1] = v}}

(* Whatever was asked before, the dependencies of a function are those of  *)
(* its blocks, nodes for instructions give the same ones as nodes for      *)
(* blocks, and functions that nobody asked for have none.                  *)
IntraExact ==
  ~opts.icfg =>
    /\ \A f \in graphs : \A b \in Block : \A P \in {{q \in Block : Depends(f, b, q)}} :
         \A v \in IF ByInstruction THEN Range(Instructions(f, b)) ELSE {<<f, b>>} :
           Dependencies(v) = {IF ByInstruction THEN <<f, p, 0>> ELSE <<f, p>> : p \in P}
    /\ \A e \in cd : e[1][1] \in graphs

(* The values reached from those of X along R in one or more steps.        *)
Image(R, X) == {e[2] : e \in {d \in R : d[1] \in X}}

Closure(R, x) ==
  LET r[k \in 0 .. MaxNodes] ==
        IF k = 0 THEN Image(R, {x})
        ELSE UNION {prev \cup Image(R, prev) : prev \in {r[k - 1]}}
  IN  r[MaxNodes]

(* What the two analyses find separately (NTSCD and DOD of one function,   *)
(* and calls that may not return), with the ways in which a dependence     *)
(* graph joins functions: an instruction depends on the calls of its       *)
(* function, and a call on the points of no return in what it calls.       *)
Separately ==
  UNION {UNION {{x} \X ({<<f, p, 0>> :
                           p \in {q \in Block : \/ NTSCDependent(f, x[2], q)
                                               \/ x[2] \in BG!DODof(prog.succ[f], q)}}
                         \cup CallDependencies(f, x)
                         \cup {c \in AllInlined : f \in Targets(c)}
                         \cup (IF x \in AllInlined
                               THEN UNION {NoretPoints(g) : g \in Targets(x)} ELSE {})) :
                  x \in Range(InstructionsOf(f))} : f \in Fun}

(* No function is called from two places, where the whole graph returns to *)
(* the wrong one, and no function that is called loops, which only the     *)
(* whole graph takes into account.                                         *)
CalledOnce == \A c, d \in AllInlined : c # d => Targets(c) \cap Targets(d) = {}

CalleesLoopFree ==
  \A c \in AllInlined : \A g \in Targets(c) : \A b \in Block : b \notin After(g, b)

(* One graph for the whole module finds no dependence that the two         *)
(* analyses together miss.                                                 *)
InlinedCovered ==
  computed /\ opts.alg = "ntscd" /\ opts.instr /\ CalledOnce /\ CalleesLoopFree =>
    \A sep \in {Separately} : \A x \in {e[1] : e \in cd} : Closure(cd, x) \subseteq Closure(sep, x)

(* The node of ibuildBlocks in which an instruction lies.                  *)
PartOf(i) ==
  LET before == {c \in Range(Inlined(i[1], i[2])) : i[3] = 0 \/ c[3] < i[3]} IN
  IF before = {} THEN <<i[1], i[2]>> ELSE NoValue

(* With blocks as nodes it finds what it finds with instructions, if no    *)
(* block that returns has a call; a dependence on the end of a block that  *)
(* has one is lost.                                                        *)
InlinedAgree ==
  computed /\ ~opts.instr
      /\ (\A f \in Fun : \A b \in Returns(f) : Inlined(f, b) = <<>>) =>
    \A R \in {IF opts.alg = "ntscd" THEN NTSCDOf(ibuildInstructions)
                                     ELSE DODOf(ibuildInstructions)} :
      \A f \in Fun : \A b \in Block :
        Dependencies(<<f, b>>) = {PartOf(d) : d \in Image(R, {Instructions(f, b)[1]})}

(* DependenciesExact: whatever was asked before and in whatever order      *)
(* blocks are served, both analyses answer with exactly the dependencies   *)
(* of what they were asked for, and the graph of the whole module agrees   *)
(* with them.                                                              *)
DependenciesExact ==
  pc = "idle" => InterprocExact /\ IntraExact /\ InlinedCovered /\ InlinedAgree

(* Every query is answered, on recursive programs and cyclic functions.    *)
Answered == (pc # "idle") ~> (pc = "idle")

=============================================================================
