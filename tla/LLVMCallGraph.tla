---------------------------- MODULE LLVMCallGraph ---------------------------
(***************************************************************************)
(* Which functions call which (include/dg/llvm/CallGraph/CallGraph.h).     *)
(* There are three call graphs: the one that the pointer analysis has      *)
(* registered (DGCallGraphImpl), one built from the points-to sets         *)
(* (LLVMPTACallGraphImpl), and one that grows with the questions it is     *)
(* asked (LazyLLVMCallGraph), with or without a pointer analysis.          *)
(***************************************************************************)
EXTENDS LLVMReadWriteGraph

CONSTANT Questions     \* bound: how many questions are asked

ASSUME QuestionsAssumption == Questions \in Nat

VARIABLE cg            \* kind, nodes and edges of the graph; the number of
                       \* questions and the last answer

NoAnswer == [question |-> "none", fun |-> "none", funs |-> {}, sure |-> FALSE]

EmptyCallGraph(kind) ==
  [kind |-> kind, nodes |-> {}, edges |-> {}, built |-> FALSE, asked |-> 0,
   answer |-> NoAnswer]

-----------------------------------------------------------------------------
(* GenericCallGraph.                                                       *)
(***************************************************************************)
CreateNode(g, f) == [g EXCEPT !.nodes = @ \cup {f}]

(* addCall() for pairs of functions.                                       *)
AddCalls(g, E) ==
  [g EXCEPT !.nodes = @ \cup {e[1] : e \in E} \cup {e[2] : e \in E}, !.edges = @ \cup E]

GetCallers(g, f) == {e[1] : e \in {x \in g.edges : x[2] = f}}
GetCalls(g, f)   == {e[2] : e \in {x \in g.edges : x[1] = f}}

-----------------------------------------------------------------------------
(* Graphs that are built at once.                                          *)
(***************************************************************************)
CallsIn(f) ==
  IF f \in DOMAIN prog.M.fun
  THEN {i \in UNION {Range(Blocks(prog, f)[b].ins) : b \in DOMAIN Blocks(prog, f)} : IsCall(i)}
  ELSE {}

(* processBBlock() for the blocks of f.                                    *)
PointedCalls(f) ==
  UNION {{f} \X Compatible(i, CalledFunctions(Ins(i).fun)) : i \in CallsIn(f)}

(* The loop over the queue that begins with the entry function.            *)
ReachedCalls ==
  LET r[k \in 0 .. Cardinality(DOMAIN prog.M.fun)] ==
        IF k = 0 THEN {"main"}
        ELSE UNION {prev \cup {e[2] : e \in UNION {PointedCalls(f) : f \in prev}} :
                      prev \in {r[k - 1]}}
  IN  UNION {PointedCalls(f) : f \in r[Cardinality(DOMAIN prog.M.fun)]}

BuildReached(g) == AddCalls(CreateNode(g, "main"), ReachedCalls)

(* The constructors.                                                       *)
NewCallGraph(kind) ==
  CASE kind = "DG" -> AddCalls(CreateNode(EmptyCallGraph(kind), "main"), prog.calls)
    [] kind = "PTA" -> BuildReached(EmptyCallGraph(kind))
    [] OTHER -> EmptyCallGraph(kind)

-----------------------------------------------------------------------------
(* The lazy call graph.  Its caches hold what would be computed again.     *)
(***************************************************************************)
(* funHasAddressTaken(): a use of f other than by a call of f.             *)
FunHasAddressTaken(f) ==
  \/ \E i \in DOMAIN prog.M.ins : f \in Range(Ins(i).args) /\ ~(IsCall(i) /\ Ins(i).fun = f)
  \/ \E e \in DOMAIN prog.M.expr : prog.M.expr[e].arg = f
  \/ \E k \in DOMAIN prog.M.glob : \E part \in Range(prog.M.glob[k].init) : part[2] = f

(* _getAddressTakenFuns().                                                 *)
AddressTakenFuns(i) == Compatible(i, {f \in DOMAIN prog.M.fun : FunHasAddressTaken(f)})

(* getCalledFunctions().                                                   *)
GetCalledFunctions(g, i) ==
  IF Ins(i).fun \in Functions(prog) THEN {Ins(i).fun}
  ELSE IF g.kind = "Lazy" THEN Compatible(i, CalledFunctions(Ins(i).fun))
  ELSE AddressTakenFuns(i)

CallEdges(g, f) == UNION {{f} \X GetCalledFunctions(g, i) : i \in CallsIn(f)}

PopulateCalledFunctions(g, f) == AddCalls(g, CallEdges(g, f))

PopulateModule(g) == AddCalls(g, UNION {CallEdges(g, f) : f \in DOMAIN prog.M.fun})

(* getCallsOf() and getCallsOfAddressTaken(): all calls of the module are  *)
(* resolved for a function whose address is taken, only the calls of f for *)
(* another one.                                                            *)
CallsOf(g, f) ==
  IF FunHasAddressTaken(f) THEN PopulateModule(g)
  ELSE AddCalls(g, {h \in DOMAIN prog.M.fun : \E i \in CallsIn(h) : Ins(i).fun = f} \X {f})

IsLazy(g) == g.kind \in {"Lazy", "LazyWithoutPTA"}

WithCallers(g, f) == IF IsLazy(g) THEN CallsOf(g, f) ELSE g

(* callees() looks at the calls of f only when f is no node yet.           *)
WithCallees(g, f) ==
  IF IsLazy(g) /\ f \notin g.nodes THEN PopulateCalledFunctions(g, f) ELSE g

(* build().                                                                *)
WithBuild(g) ==
  CASE g.kind = "Lazy" -> BuildReached(g)
    [] g.kind = "LazyWithoutPTA" -> PopulateModule(g)
    [] OTHER -> g

-----------------------------------------------------------------------------
(* Questions.  For a function that is no node even afterwards, callers()   *)
(* and callees() of the graphs other than DGCallGraphImpl dereference null *)
(* (assert in callers()); the answer is then empty here.                   *)
(***************************************************************************)
CreateCallGraph ==
  /\ rw # <<>> /\ cg.kind = "none"
  /\ \E kind \in {"DG", "PTA", "Lazy", "LazyWithoutPTA"} : cg' = NewCallGraph(kind)

Answered(g, question, f, funs, sure) ==
  [g EXCEPT !.asked = @ + 1,
            !.answer = [question |-> question, fun |-> f, funs |-> funs, sure |-> sure]]

AskCallers(f) ==
  LET g == WithCallers(cg, f) IN
  cg' = Answered(g, "callers", f, GetCallers(g, f), TRUE)

(* An answer of callees() is sure if f was looked at because of it, or if  *)
(* the graph was complete.  (calls() looks at f in the same way.)          *)
AskCallees(f) ==
  LET g == WithCallees(cg, f) IN
  cg' = Answered(g, "callees", f, GetCalls(g, f), ~IsLazy(g) \/ g.built \/ f \notin cg.nodes)

AskCalledFunctions(i) ==
  /\ IsLazy(cg)
  /\ cg' = Answered(AddCalls(cg, {FunctionOf(prog, i)} \X GetCalledFunctions(cg, i)),
                    "called", i, GetCalledFunctions(cg, i), TRUE)

AskBuild == cg' = [WithBuild(cg) EXCEPT !.built = TRUE, !.asked = @ + 1]

(* The graphs that are not lazy do not change: one question is enough.     *)
Ask ==
  /\ cg.kind # "none" /\ cg.asked < Questions
  /\ (~IsLazy(cg) => cg.asked = 0)
  /\ \/ \E f \in DOMAIN prog.M.fun : AskCallers(f) \/ AskCallees(f)
     \/ \E i \in DOMAIN prog.M.ins : IsCall(i) /\ AskCalledFunctions(i)
     \/ AskBuild

-----------------------------------------------------------------------------
(* What the pointer analysis has found out about the question.             *)
KnownAnswer(a) ==
  CASE a.question = "callers" -> {e[1] : e \in {x \in prog.calls : x[2] = a.fun}}
    [] a.question = "callees" -> {e[2] : e \in {x \in prog.calls : x[1] = a.fun}}
    [] a.question = "called" /\ a.fun \in DOMAIN rw -> rw[a.fun].callees \cap DOMAIN prog.M.fun
    [] OTHER -> {}

(* Every call graph has the calls that the pointer analysis has found, in  *)
(* whichever order it is asked; where pointers are resolved by it there    *)
(* are no others between functions that run.                               *)
CallGraphsAgree(a) ==
  /\ a.sure => KnownAnswer(a) \subseteq a.funs
  /\ cg.kind # "LazyWithoutPTA" /\ a.fun \in GraphFunctions \cup DOMAIN rw =>
       a.funs \cap GraphFunctions \cap DOMAIN prog.M.fun \subseteq KnownAnswer(a)
=============================================================================
