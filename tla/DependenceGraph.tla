-------------------------- MODULE DependenceGraph ---------------------------
(***************************************************************************)
(* The generic dependence graph (include/dg/Node.h, BBlock.h,              *)
(* DependenceGraph.h, DGParameters.h).  All graphs of a program, one per   *)
(* function, are one record: nodes belong to the function they name, and   *)
(* edges may cross graphs.  Each kind of edge is a set of pairs; the code  *)
(* keeps both directions, in containers it always changes together, but    *)
(* predecessors of blocks are kept apart because they can go stale.        *)
(***************************************************************************)
EXTENDS Naturals, Sequences, FiniteSets, SequencesExt, FiniteSetsExt

VARIABLES
  opts,   \* the options: cda ("standard" or "ntscd"), forward, rmcrit, cutoff
  dg      \* the dependence graphs

(* A node is <<kind, owner, key>>.  Owners: <<f>> for a function's graph,  *)
(* <<f, k, i>> for an instruction.  Blocks: <<f, k>>; block 0 is the       *)
(* unified exit block, <<0, d>> \o owner the blocks of parameters.         *)
InstrNode(f, k, i) == <<"inst", <<f, k, i>>, 0>>
EntryNode(f) == <<"entry", <<f>>, 0>>
ExitNode(f) == <<"exit", <<f>>, 0>>        \* of a function that returns
SingleExit(f) == <<"noexit", <<f>>, 0>>    \* of one that does not
GlobalNode(v) == <<"global", <<>>, v>>
ParamIn(owner, v) == <<"in", owner, v>>
ParamOut(owner, v) == <<"out", owner, v>>
NoReturn(owner) == <<"noret", owner, 0>>

(* Node::getDG: global, no-return and unified exit nodes have no graph.    *)
GetDG(n) == IF n[1] \in {"global", "noret", "exit"} THEN 0 ELSE n[2][1]

(* Node::getBBlock, <<>> for none: parameters are in the blocks BBIn and   *)
(* BBOut of their DGParameters.                                            *)
GetBBlock(n) ==
  CASE n[1] = "inst" -> <<n[2][1], n[2][2]>>
    [] n[1] \in {"exit", "noexit"} -> <<n[2][1], 0>>
    [] n[1] = "in"   -> <<0, 0>> \o n[2]
    [] n[1] = "out"  -> <<0, 1>> \o n[2]
    [] OTHER -> <<>>

EmptyGraph ==
  [nodes |-> {}, cd |-> {}, dd |-> {}, use |-> {}, id |-> {},
   blocks |-> {},               \* getBlocks of all graphs
   succ |-> {},                 \* nextBBs: <<from, label, to>>
   pred |-> {},                 \* prevBBs: <<block, predecessor>>
   bcd |-> {},                  \* controlDeps: <<block, dependent block>>
   params |-> {},               \* DGParameters: <<owner, key>>
   callers |-> {}]              \* addSubgraph, addCaller: <<call node, function>>

-----------------------------------------------------------------------------
(* Nodes and edges.                                                        *)
(***************************************************************************)
AddNodes(g, N) == [g EXCEPT !.nodes = @ \cup N]

AddCD(g, E) == [g EXCEPT !.cd = @ \cup E]
AddDD(g, E) == [g EXCEPT !.dd = @ \cup E]
AddUse(g, E) == [g EXCEPT !.use = @ \cup E]
AddInterference(g, E) == [g EXCEPT !.id = @ \cup E]

Touching(E, N) == {e \in E : e[1] \in N \/ e[2] \in N}

(* DGParameters::construct, constructGlobal: the pair of nodes of a key,   *)
(* unless the key is there.                                                *)
AddParams(g, P) ==
  [g EXCEPT !.params = @ \cup P,
             !.nodes = @ \cup {ParamIn(p[1], p[2]) : p \in P}
                         \cup {ParamOut(p[1], p[2]) : p \in P}]

ParamsOf(g, owner) == {p[2] : p \in {q \in g.params : q[1] = owner}}

(* DependenceGraph::_getNode for a global variable in the graph of f:      *)
(* formal parameters come before global nodes.                             *)
GetGlobal(g, f, v) ==
  IF v \in ParamsOf(g, <<f>>) THEN ParamIn(<<f>>, v) ELSE GlobalNode(v)

Callers(g, f) == {c[1] : c \in {d \in g.callers : d[2] = f}}
Subgraphs(g, n) == {c[2] : c \in {d \in g.callers : d[1] = n}}

-----------------------------------------------------------------------------
(* Blocks.                                                                 *)
(***************************************************************************)
NodesOf(g, b) == {n \in g.nodes : GetBBlock(n) = b}

LastNode(g, b) ==
  CHOOSE n \in NodesOf(g, b) : \A m \in NodesOf(g, b) : m[2] = n[2] \/ m[2][3] <= n[2][3]

FirstNode(g, b) ==
  CHOOSE n \in NodesOf(g, b) : \A m \in NodesOf(g, b) : m[2] = n[2] \/ m[2][3] >= n[2][3]

Successors(g, b) == {e \in g.succ : e[1] = b}
Targets(g, b) == {e[3] : e \in Successors(g, b)}
Predecessors(g, b) == {p[2] : p \in {q \in g.pred : q[1] = b}}

SuccessorsAreSame(g, b) == Cardinality(Targets(g, b)) <= 1

AddSuccessor(g, b, label, c) ==
  [g EXCEPT !.succ = @ \cup {<<b, label, c>>}, !.pred = @ \cup {<<c, b>>}]

RemoveSuccessors(g, b) ==
  [g EXCEPT !.succ = @ \ Successors(g, b),
             !.pred = @ \ {<<c, b>> : c \in Targets(g, b)}]

(* removeSuccessorsTarget leaves the target's predecessors as they are.    *)
RemoveSuccessorsTarget(g, b, c) ==
  [g EXCEPT !.succ = {e \in @ : ~(e[1] = b /\ e[3] = c)}]

AddBlockCD(g, E) == [g EXCEPT !.bcd = @ \cup E]

(* isolate: the edges from predecessors to b go on to all successors.      *)
Reconnected(g, b) ==
  {<<e[1], e[2], c>> : e \in {d \in g.succ : d[3] = b /\ d[1] \in Predecessors(g, b)},
                       c \in Targets(g, b) \ {b}}

IsolateBlock(g, b) ==
  LET new == {e \in Reconnected(g, b) : e[1] # b}
      old == {e \in g.succ : e[1] = b \/ (e[3] = b /\ e[1] \in Predecessors(g, b))}
  IN  [g EXCEPT
         !.succ = (@ \ old) \cup new,
         !.pred = {p \in @ : p[1] # b /\ ~(p[2] = b /\ p[1] \in Targets(g, b))}
                    \cup {<<e[3], e[1]>> : e \in new},
         !.bcd = @ \ Touching(@, {b})]

(* Node::isolate: interference edges are left.                             *)
IsolateNodes(g, N) ==
  [g EXCEPT !.nodes = @ \ N,
             !.cd = @ \ Touching(@, N),
             !.dd = @ \ Touching(@, N),
             !.use = @ \ Touching(@, N)]

(* BBlock::remove with its nodes.                                          *)
RemoveBlock(g, b) ==
  [IsolateNodes(IsolateBlock(g, b), NodesOf(g, b)) EXCEPT !.blocks = @ \ {b}]

(* deleteNode of nodes of b: a block that becomes empty is removed too.    *)
DeleteNodes(g, b, N) ==
  IF N = {} THEN g
  ELSE IF NodesOf(g, b) \subseteq N THEN RemoveBlock(g, b)
  ELSE IsolateNodes(g, N)

=============================================================================
