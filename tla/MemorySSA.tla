----------------------------- MODULE MemorySSA ------------------------------
(***************************************************************************)
(* class MemorySSATransformation (lib/MemorySSA): the writes that a read   *)
(* may see are searched for on demand, from the read backwards through     *)
(* blocks, callees and callers.  PHI nodes stand for definitions that      *)
(* several predecessors, callees or callers may provide; they are made     *)
(* before their operands are known, which ends the search in cycles, and   *)
(* are kept, together with the definitions of blocks and the summaries of  *)
(* procedures, for later questions.                                        *)
(*                                                                         *)
(* One question is one call that nothing interrupts.  The methods are      *)
(* operators on the state of the analysis, a record                        *)
(*   D        for every block its Definitions: defs, kills, unknown writes *)
(*            and whether they are complete (processed)                    *)
(*   nodes    for every block its list of nodes, PHI nodes included        *)
(*   phis     the PHI nodes: type, site, block and operands (defuse)       *)
(*   outputs, unknownIn   the summaries of procedures                      *)
(*   callIn   for every call its PHI for unknown memory                    *)
(*   modref   for every procedure what it may define, once initialised     *)
(*   ret      the definitions that the last search returned                *)
(* A DefinitionsMap is a set of triples (memory, byte, node); with Border  *)
(* instead of a node, an interval of the map begins or ended at the byte.  *)
(***************************************************************************)
EXTENDS Integers, Sequences, FiniteSets, SequencesExt

(***************************************************************************)
(* Read-write graphs (include/dg/ReadWriteGraph): which memory a node of   *)
(* the program reads and writes, in basic blocks of procedures, and how    *)
(* blocks are split so that every call has a block of its own.             *)
(*                                                                         *)
(* A program is a record                                                   *)
(*   nodes    a sequence; node n has the definition sites defs (may be     *)
(*            written), overs (overwritten) and uses (read), the sequence  *)
(*            callees of a call, and ret for a return                      *)
(*   blocks   a sequence of blocks, each with its nodes, its procedure and *)
(*            its edges; the first block of a procedure is its entry       *)
(*   procs    the procedures, which are called by name; main runs first    *)
(*   escapes  the memory with canEscape()                                  *)
(*   owner    the procedure in which memory is allocated, or NoProc        *)
(* A definition site is memory and an interval of its bytes.               *)
(***************************************************************************)
CONSTANTS
  UNKNOWN_MEMORY,   \* the target of writes and reads through unknown pointers
  NoProc            \* no procedure

Site(t, first, last) == [target |-> t, lo |-> first, hi |-> last]

Bytes(ds) == ds.lo .. ds.hi

IsUnknown(ds) == ds.target = UNKNOWN_MEMORY

(* A callee is a procedure or, for a function without a body, a node that  *)
(* stands for what it does.                                                *)
Procedure(p) == [proc |-> p, node |-> 0]
Model(n)     == [proc |-> NoProc, node |-> n]

IsDefined(callee) == callee.proc # NoProc
callsDefined(nd)  == \E i \in DOMAIN nd.callees : IsDefined(nd.callees[i])
callsOneUndefined(nd) == Len(nd.callees) = 1 /\ ~IsDefined(nd.callees[1])

isUse(nd) == nd.uses # {}

-----------------------------------------------------------------------------
(* What a call does: what its only undefined callee does or, for several,  *)
(* what all of them overwrite and what each of them may write.             *)
Common(S) ==     \* DefSiteSet::intersect, as sites of single bytes
  LET bytes(over) == UNION {{<<ds.target, b>> : b \in Bytes(ds)} : ds \in over} IN
  {Site(c[1], c[2], c[2]) :
     c \in {x \in UNION {bytes(over) : over \in S} : \A over \in S : x \in bytes(over)}}

Annotations(program, n) ==
  LET nd     == program.nodes[n]
      models == {program.nodes[c.node] : c \in {x \in Range(nd.callees) : ~IsDefined(x)}}
  IN  IF models = {} THEN [defs |-> nd.defs, overs |-> nd.overs, uses |-> nd.uses]
      ELSE [defs  |-> UNION {m.defs : m \in models},
            overs |-> IF Cardinality(models) = 1 THEN UNION {m.overs : m \in models}
                                                 ELSE Common({m.overs : m \in models}),
            uses  |-> UNION {m.uses : m \in models}]

-----------------------------------------------------------------------------
(* splitAround: the parts of the block before, at and after the node; the  *)
(* first one stays in the block, the others become new blocks behind it.   *)
Parts(nodes, i) ==
  SelectSeq(<<SubSeq(nodes, 1, i - 1), <<nodes[i]>>, SubSeq(nodes, i + 1, Len(nodes))>>,
            LAMBDA part : part # <<>>)

splitAround(blocks, b, i) ==
  LET old   == blocks[b]
      parts == Parts(old.nodes, i)
      new   == Len(parts) - 1
      id(k) == IF k = 1 THEN b ELSE Len(blocks) + k - 1
      last  == id(new + 1)
      part(k) == [old EXCEPT
                    !.nodes = parts[k],
                    !.preds = IF k = 1 THEN @ ELSE <<id(k - 1)>>,
                    !.succs = IF k = new + 1 THEN @ ELSE <<id(k + 1)>>]
      moved(p) == [j \in DOMAIN p |-> IF p[j] = b THEN last ELSE p[j]]
      size  == Len(blocks)
      all   == [c \in 1 .. size + new |-> CASE c = b    -> part(1)
                                           [] c > size -> part(c - size + 1)
                                           [] OTHER    -> blocks[c]]
  IN  [c \in 1 .. size + new |->
         IF c \in Range(old.succs) THEN [all[c] EXCEPT !.preds = moved(@)] ELSE all[c]]

SplitCalls(program, nodes) ==
  {i \in DOMAIN nodes : /\ program.nodes[nodes[i]].callees # <<>>
                        /\ ~callsOneUndefined(program.nodes[nodes[i]])}

(* splitBlockOnFirstCall until nothing is behind the call.                 *)
RECURSIVE splitBlockOnCalls(_, _, _)
splitBlockOnCalls(program, blocks, b) ==
  LET nodes == blocks[b].nodes
      calls == SplitCalls(program, nodes)
      first == CHOOSE i \in calls : \A j \in calls : i <= j
      split == splitAround(blocks, b, first)
  IN  IF calls = {} \/ Len(nodes) = 1 THEN blocks
      ELSE IF first = Len(nodes) THEN split
      ELSE splitBlockOnCalls(program, split, Len(split))

splitBBlocksOnCalls(program) ==
  FoldLeft(LAMBDA blocks, b : splitBlockOnCalls(program, blocks, b),
           program.blocks, [b \in DOMAIN program.blocks |-> b])

-----------------------------------------------------------------------------
CONSTANT Programs        \* the programs that are analysed

VARIABLES
  prog,     \* the program
  blocks,   \* its blocks after splitBBlocksOnCalls
  ssa,      \* the state of the analysis
  defuse    \* for every read that was asked for, its definitions

vars == <<prog, blocks, ssa, defuse>>

Block == DOMAIN blocks
Uses  == {n \in DOMAIN prog.nodes : isUse(prog.nodes[n])}

BlocksOf(f) == SelectSeq([b \in Block |-> b], LAMBDA b : blocks[b].proc = f)

-----------------------------------------------------------------------------
(* class DefinitionsMap.  Intervals are split where another one was added  *)
(* and never joined again.                                                 *)
Border == 0

Triples(ds, ns) ==
  {<<ds.target, b, n>> : b \in Bytes(ds), n \in ns}
    \cup {<<ds.target, b, Border>> : b \in {ds.lo, ds.hi + 1}}

Defined(M) == {e \in M : e[3] # Border}

In(e, ds) == e[1] = ds.target /\ e[2] \in Bytes(ds)

Get(M, ds) == {e[3] : e \in {x \in Defined(M) : In(x, ds)}}
definesTarget(M, t) == \E e \in M : e[1] = t

(* The longest intervals of a set of bytes between borders, in order.      *)
Intervals(t, bytes, borders) ==
  LET runs == {r \in bytes \X bytes :
                 /\ r[1] <= r[2] /\ r[1] .. r[2] \subseteq bytes
                 /\ borders \cap (r[1] + 1 .. r[2]) = {}
                 /\ r[1] - 1 \in bytes => r[1] \in borders
                 /\ r[2] + 1 \in bytes => r[2] + 1 \in borders}
      sorted == SetToSortSeq(runs, LAMBDA q, r : q[1] < r[1])
  IN  [i \in DOMAIN sorted |-> Site(t, sorted[i][1], sorted[i][2])]

BytesOf(M, t) == {e[2] : e \in {x \in Defined(M) : x[1] = t}}

(* The intervals of the map.                                               *)
Sites(M) ==
  LET borders(t) == {e[2] : e \in {x \in M : x[1] = t /\ x[3] = Border}}
      sites == UNION {Range(Intervals(t, BytesOf(M, t), borders(t))) : t \in {e[1] : e \in M}}
  IN  SetToSortSeq(sites, LAMBDA c, d : c.lo < d.lo)

(* undefinedIntervals: all of the site if the map has nothing in it, else  *)
(* the gaps of the map that begin in the site; the last one reaches up to  *)
(* the next interval of the map, behind the site, if there is one.         *)
Uncovered(M, ds) ==
  LET known  == BytesOf(M, ds.target)
      behind == {b \in known : b > ds.hi}
      last   == IF behind = {} THEN ds.hi ELSE (CHOOSE b \in behind : \A c \in behind : b <= c) - 1
      gaps   == Intervals(ds.target, (ds.lo .. last) \ known, {})
  IN  IF Bytes(ds) \cap known = {} THEN <<ds>>
      ELSE SelectSeq(gaps, LAMBDA u : u.lo <= ds.hi)

-----------------------------------------------------------------------------
(* struct Definitions                                                      *)
NoDefinitions == [defs |-> {}, kills |-> {}, unknown |-> {}, processed |-> FALSE]

IsNode(n) == n \in DOMAIN prog.nodes
PhiOf(s, n) == s.phis[n - Len(prog.nodes)]

Effects(s, n) ==
  IF IsNode(n) THEN Annotations(prog, n)
               ELSE [defs |-> {}, overs |-> {PhiOf(s, n).ds}, uses |-> {}]

(* Mutant: weak updates end the search, too.                               *)
UpdateKillingAll(s, D, n) ==
  LET a    == Effects(s, n)
      here == UNION {Triples(ds, {n}) : ds \in a.defs \cup a.overs} IN
  [D EXCEPT !.defs = @ \cup here, !.kills = @ \cup here]

UpdateDefinitions(s, D, n) ==
  LET a       == Effects(s, n)
      unknown == \E ds \in a.defs : IsUnknown(ds)
      weak    == D.defs
                   \cup (UNION {Triples(ds, {n}) : ds \in {x \in a.defs : ~IsUnknown(x)}})
                   \cup (IF unknown THEN {<<e[1], e[2], n>> : e \in Defined(D.defs)} ELSE {})
      strong  == UNION {Triples(ds, {n}) : ds \in a.overs}
      hidden  == {e \in Defined(weak) : \E ds \in a.overs : In(e, ds)}
  IN  [D EXCEPT !.defs = (weak \ hidden) \cup strong,
                !.kills = @ \cup strong,
                !.unknown = IF unknown THEN @ \cup {n} ELSE @]

(* Definitions::get: unknown writes only count if nothing else is found.   *)
GetDefinitions(D, ds) ==
  LET found == Get(D.defs, ds) IN IF found = {} THEN D.unknown ELSE found

Lvn(s, nodes) == FoldLeft(LAMBDA D, n : UpdateDefinitions(s, D, n), NoDefinitions, nodes)

NodeBlock(s, n) ==
  IF IsNode(n) THEN CHOOSE b \in Block : n \in Range(blocks[b].nodes) ELSE PhiOf(s, n).block

NodesBefore(s, n) ==
  LET nodes == s.nodes[NodeBlock(s, n)]
      at    == CHOOSE i \in DOMAIN nodes : nodes[i] = n
  IN  SubSeq(nodes, 1, at - 1)

findDefinitionsInBlock(s, n) == Lvn(s, NodesBefore(s, n))

-----------------------------------------------------------------------------
(* createPhi                                                               *)
NextNode(s) == Len(prog.nodes) + Len(s.phis) + 1

createPhi(s, ds, type, b) ==
  [s EXCEPT !.phis = Append(@, [type |-> type, ds |-> ds, block |-> b, defuse |-> {}])]

addDefUse(s, phi, ns) == [s EXCEPT !.phis[phi - Len(prog.nodes)].defuse = @ \cup ns]

(* A PHI that also becomes the definition of what block b does not kill.   *)
createPhiIn(s, d, ds, type, b) ==
  LET phi  == NextNode(s)
      D    == s.D[d]
      free == Range(Uncovered(D.kills, ds))
  IN  [createPhi(s, ds, type, b) EXCEPT
         !.D[d].defs  = @ \cup UNION {Triples(u, {phi} \cup D.unknown) : u \in free},
         !.D[d].kills = @ \cup UNION {Triples(u, {phi}) : u \in free}]

-----------------------------------------------------------------------------
(* Modref information                                                      *)
CallOf(b) == blocks[b].nodes[1]
isCallBlock(b) == Len(blocks[b].nodes) = 1 /\ callsDefined(prog.nodes[CallOf(b)])
Callees(c) == prog.nodes[c].callees

Owner(t) == IF t \in DOMAIN prog.owner THEN prog.owner[t] ELSE NoProc

OnlyEscaping(t, f) == t \in prog.escapes      \* mutant: memory of callers forgotten

canBeInput(t, f) == t \in prog.escapes \/ (Owner(t) # NoProc /\ Owner(t) # f)

canBeOutput(t, f) == t \in prog.escapes \/ Owner(t) = NoProc \/ Owner(t) # f

WrittenBy(s, n) == Effects(s, n).defs \cup Effects(s, n).overs

RECURSIVE computeModRef(_, _)
computeModRef(s, f) ==
  LET add(t, M) == [t EXCEPT !.modref[f].maydef = @ \cup M]
      callee(t, b, c) ==
        IF IsDefined(c)
        THEN LET u == computeModRef(t, c.proc) IN add(u, u.modref[c.proc].maydef)
        ELSE add(t, UNION {Triples(ds, {CallOf(b)}) : ds \in WrittenBy(t, c.node)})
      node(t, n) ==
        add(t, UNION {Triples(ds, {n}) :
                        ds \in {x \in WrittenBy(t, n) : canBeOutput(x.target, f)}})
      block(t, b) ==
        IF isCallBlock(b) THEN FoldLeft(LAMBDA u, c : callee(u, b, c), t, Callees(CallOf(b)))
                          ELSE FoldLeft(node, t, t.nodes[b])
  IN  IF s.modref[f].initialized THEN s
      ELSE FoldLeft(block, [s EXCEPT !.modref[f].initialized = TRUE], BlocksOf(f))

mayDefine(s, f, t) == definesTarget(s.modref[f].maydef, t)

(* callMayDefineTarget stops at the first callee that may.                 *)
callMayDefineTarget(s, c, t) ==
  LET try(r, callee) ==
        IF r.may THEN r
        ELSE IF ~IsDefined(callee)
        THEN [r EXCEPT !.may = \E ds \in WrittenBy(s, callee.node) : ds.target = t]
        ELSE LET u == computeModRef(r.state, callee.proc) IN
             [state |-> u,
              may |-> mayDefine(u, callee.proc, t) \/ mayDefine(u, callee.proc, UNKNOWN_MEMORY)]
  IN  FoldLeft(try, [state |-> s, may |-> FALSE], Callees(c))

-----------------------------------------------------------------------------
(* The search for the definitions of one site.  Each operator returns the  *)
(* state with the definitions in ret.                                      *)
RECURSIVE findDefinitionsInPredecessors(_, _, _)
RECURSIVE fillDefinitionsFromCall(_, _, _)

Returning(s, ns) == [s EXCEPT !.ret = ns]
Joined(s, ns)    == [s EXCEPT !.ret = @ \cup ns]
addFound(s, phi) == addDefUse(s, phi, s.ret)

addUncoveredFromPredecessors(s, b, D, ds) ==
  FoldLeft(LAMBDA t, u : Joined(findDefinitionsInPredecessors(t, b, u), t.ret),
           Returning(s, GetDefinitions(D, ds)),
           Uncovered(D.kills, ds))

(* getBBlockDefinitions for one site: calls are searched for this site.    *)
getBBlockDefinitions(s, b, ds) ==
  IF s.D[b].processed THEN s
  ELSE IF isCallBlock(b) THEN fillDefinitionsFromCall(s, b, ds)
  ELSE [s EXCEPT !.D[b] = [Lvn(s, s.nodes[b]) EXCEPT !.processed = TRUE]]

(* findDefinitions before a node and at the end of a block, for which the  *)
(* definitions have to be known.                                           *)
findDefinitionsAt(s, n, ds) ==
  addUncoveredFromPredecessors(s, NodeBlock(s, n), findDefinitionsInBlock(s, n), ds)

findDefinitionsAtEnd(s, b, ds) == addUncoveredFromPredecessors(s, b, s.D[b], ds)

findDefinitionsIn(s, b, ds) == findDefinitionsAtEnd(getBBlockDefinitions(s, b, ds), b, ds)

findPhiDefinitions(s, phi, b, ds) ==
  Returning(FoldLeft(LAMBDA t, p : addFound(findDefinitionsIn(t, p, ds), phi),
                     s, blocks[b].preds),
            {phi})

createAndPlacePhi(s, b, ds) ==
  [createPhiIn(s, b, ds, "PHI", b) EXCEPT !.nodes[b] = <<NextNode(s)>> \o @]

InsertBefore(nodes, n, before) ==
  LET at == CHOOSE i \in DOMAIN nodes : nodes[i] = before IN InsertAt(nodes, at, n)

getCallers(f) ==
  SelectSeq([n \in DOMAIN prog.nodes |-> n],
            LAMBDA n : \E c \in Range(Callees(n)) : c.proc = f)

(* Input of procedure f: what reaches its calls.                           *)
CallIn(s, phi, c, ds) ==
  LET callphi == NextNode(s)
      b       == NodeBlock(s, c)
      placed  == [createPhi(s, ds, "CALLIN", b) EXCEPT
                    !.nodes[b] = InsertBefore(@, callphi, c)]
  IN  addFound(findDefinitionsAt(addDefUse(placed, phi, {callphi}), callphi, ds), callphi)

findDefinitionsFromCalledFun(s, phi, f, ds) ==
  Returning(FoldLeft(LAMBDA t, c : CallIn(t, phi, c, ds), s, getCallers(f)), {phi})

(* In s the definitions of block b are known.                              *)
MultiplePredecessors(s, b, ds) ==
  IF blocks[b].preds # <<>>
  THEN findPhiDefinitions(createAndPlacePhi(s, b, ds), NextNode(s), b, ds)
  ELSE findDefinitionsFromCalledFun(createPhiIn(s, b, ds, "INARG", 0), NextNode(s),
                                    blocks[b].proc, ds)

findDefinitionsInMultiplePredecessors(s, b, ds) ==
  IF blocks[b].preds # <<>> \/ canBeInput(ds.target, blocks[b].proc)
  THEN MultiplePredecessors(getBBlockDefinitions(s, b, ds), b, ds)
  ELSE Returning(s, {})

findDefinitionsInPredecessors(s, b, ds) ==
  IF Len(blocks[b].preds) = 1 THEN findDefinitionsIn(s, blocks[b].preds[1], ds)
                              ELSE findDefinitionsInMultiplePredecessors(s, b, ds)

-----------------------------------------------------------------------------
(* Output of procedure f when it is called by c.                           *)
ReturnBlocks(f) ==
  SelectSeq(BlocksOf(f), LAMBDA b : /\ blocks[b].succs = <<>>
                                    /\ blocks[b].nodes # <<>>
                                    /\ prog.nodes[Last(blocks[b].nodes)].ret)

OutArg(s, phi, f, ds) ==      \* a new output of f that becomes an operand of phi
  LET subgphi == NextNode(s) IN
  [addDefUse(createPhi(s, ds, "OUTARG", 0), phi, {subgphi}) EXCEPT
     !.outputs[f] = @ \cup Triples(ds, {subgphi})]

NoOutputs(s, f, ds)  == {}        \* mutant: what earlier searches found is skipped

getOutputs(s, f, ds) == Get(s.outputs[f], ds)

UnknownOutArg(s, phi, f, ds) ==
  IF mayDefine(s, f, UNKNOWN_MEMORY)
  THEN addDefUse(OutArg(s, phi, f, ds), NextNode(s),
                 Get(s.modref[f].maydef, Site(UNKNOWN_MEMORY, 0, 1)))
  ELSE s

(* In s the mod-ref information of f is known.                             *)
Outputs(s, phi, c, ds, f) ==
  LET inside(t, u) ==
        FoldLeft(LAMBDA v, b : addFound(findDefinitionsIn(v, b, ds), NextNode(t)),
                 OutArg(t, phi, f, u), ReturnBlocks(f))
      beforeCall(t, u) ==
        addFound(findDefinitionsAt(UnknownOutArg(t, phi, f, u), c, u), phi)
  IN  FoldLeft(LAMBDA t, u : IF mayDefine(t, f, ds.target) THEN inside(t, u) ELSE beforeCall(t, u),
               addDefUse(s, phi, getOutputs(s, f, ds)),
               Uncovered(s.outputs[f], ds))

findDefinitionsInSubgraph(s, phi, c, ds, f) == Outputs(computeModRef(s, f), phi, c, ds, f)

addDefinitionsFromCalledValue(s, phi, c, ds, n) ==
  addFound(addUncoveredFromPredecessors(s, NodeBlock(s, c),
                                        UpdateDefinitions(s, NoDefinitions, n), ds), phi)

(* The PHI of a call, for which the definitions of every callee are found. *)
CallOut(s, b, ds) ==
  LET c   == CallOf(b)
      phi == NextNode(s)
  IN  FoldLeft(LAMBDA t, callee :
                 IF IsDefined(callee)
                 THEN findDefinitionsInSubgraph(t, phi, c, ds, callee.proc)
                 ELSE addDefinitionsFromCalledValue(t, phi, c, ds, callee.node),
               [createPhiIn(s, b, ds, "CALLOUT", b) EXCEPT !.nodes[b] = Append(@, phi)],
               Callees(c))

CallOuts(asked, b, ds) ==
  IF asked.may THEN FoldLeft(LAMBDA t, u : CallOut(t, b, u), asked.state,
                             Uncovered(asked.state.D[b].kills, ds))
               ELSE asked.state

fillDefinitionsFromCall(s, b, ds) ==
  CallOuts(callMayDefineTarget(s, CallOf(b), ds.target), b, ds)

-----------------------------------------------------------------------------
(* The search for all definitions, for reads from unknown memory.          *)

(* joinDefinitions, interval by interval: its definitions are added to all *)
(* that undefinedIntervals returns for it.                                 *)
joinDefinitions(from, to, escaping) ==
  LET copied == {e \in from.defs : escaping => e[1] \in prog.escapes}
      join(M, e) == M \cup UNION {Triples(u, Get(copied, e)) : u \in Range(Uncovered(M, e))}
  IN  [to EXCEPT !.defs = FoldLeft(join, @, Sites(copied)),
                 !.unknown = @ \cup from.unknown]

(* fillDefinitionsFromCall for everything that a callee may define.        *)
FillSites(s, b, sites) ==
  FoldLeft(LAMBDA t, ds : fillDefinitionsFromCall(t, b, ds), s, sites)

FillMayDef(s, b, f) ==
  LET M       == s.modref[f].maydef
      unknown == {e \in M : e[1] = UNKNOWN_MEMORY}
  IN  FillSites([s EXCEPT !.D[b].unknown = @ \cup {e[3] : e \in Defined(unknown)}],
                b, Sites(M \ unknown))

fillAllFromCall(s, b) ==
  [FoldLeft(LAMBDA t, x : IF IsDefined(x) THEN FillMayDef(computeModRef(t, x.proc), b, x.proc)
                                          ELSE FillSites(t, b, SetToSeq(WrittenBy(t, x.node))),
            s, Callees(CallOf(b))) EXCEPT !.D[b].processed = TRUE]

getAllBBlockDefinitions(s, b) ==
  IF s.D[b].processed THEN s
  ELSE IF isCallBlock(b) THEN fillAllFromCall(s, b)
  ELSE [s EXCEPT !.D[b] = [Lvn(s, s.nodes[b]) EXCEPT !.processed = TRUE]]

(* collectAllDefinitions keeps the state of the analysis, the definitions  *)
(* D that were found and the blocks that were visited, which are shared by *)
(* all paths.  One of several predecessors is searched for what is not in  *)
(* covered, a single one for what is not in D.                             *)
RECURSIVE collectFromBlock(_, _, _)

JoinInto(r, D) ==
  [r EXCEPT !.D = [D EXCEPT !.defs = @ \cup r.D.defs, !.unknown = @ \cup r.D.unknown]]

collectFromPredecessors(acc, covered, b, escaping) ==
  LET single   == Len(blocks[b].preds) = 1
      known(a) == IF single THEN a ELSE [a EXCEPT !.D = [NoDefinitions EXCEPT !.defs = covered]]
  IN  FoldLeft(LAMBDA a, p : JoinInto(collectFromBlock(known(a), p, escaping), a.D),
               acc, blocks[b].preds)

Visit(acc, s, b, escaping) ==
  [state |-> s, visited |-> acc.visited \cup {b}, D |-> joinDefinitions(s.D[b], acc.D, escaping)]

CollectAbove(acc, b, escaping) == collectFromPredecessors(acc, acc.D.defs, b, escaping)

collectFromBlock(acc, b, escaping) ==
  IF b \in acc.visited THEN acc
  ELSE CollectAbove(Visit(acc, getAllBBlockDefinitions(acc.state, b), b, escaping), b, escaping)

(* The callers of f, through an input PHI of f and one for each call.      *)
RECURSIVE collectAllDefinitions(_, _, _)

All(D) == {e[3] : e \in Defined(D.defs)} \cup D.unknown

UnknownSite == Site(UNKNOWN_MEMORY, 0, 1)

UnknownCallIn(s, phi, c) ==
  LET callphi == NextNode(s)
      found(r) == addDefUse(r.state, callphi, All(r.D))
      new      == [createPhi(s, UnknownSite, "CALLIN", 0) EXCEPT !.callIn[c] = callphi]
  IN  IF s.callIn[c] # 0 THEN addDefUse(s, phi, {s.callIn[c]})
      ELSE found(collectAllDefinitions(addDefUse(new, phi, {callphi}), c, TRUE))

UnknownInArg(s, f) ==
  IF s.unknownIn[f] # 0 THEN s
  ELSE [createPhi(s, UnknownSite, "INARG", 0) EXCEPT !.unknownIn[f] = NextNode(s)]

FromCallers(acc, f) ==
  LET phi == acc.state.unknownIn[f] IN
  [acc EXCEPT !.D.unknown = @ \cup {phi},
              !.state = FoldLeft(LAMBDA t, c : UnknownCallIn(t, phi, c), @, getCallers(f))]

collectAllDefinitionsInCallers(acc, f) ==
  IF getCallers(f) = <<>> THEN acc
  ELSE FromCallers([acc EXCEPT !.state = UnknownInArg(@, f)], f)

(* collectAllDefinitions before node n.  With escaping, n is a call, and   *)
(* no node in front of it in its block is memory that can escape.          *)
AddAbove(D, acc) == [acc EXCEPT !.D = joinDefinitions(@, D, FALSE)]

collectAllDefinitions(s, n, escaping) ==
  LET b     == NodeBlock(s, n)
      D     == IF escaping THEN NoDefinitions ELSE findDefinitionsInBlock(s, n)
      start == [state |-> s, visited |-> {}, D |-> NoDefinitions]
  IN  AddAbove(D, collectAllDefinitionsInCallers(
                    collectFromPredecessors(start, D.kills, b, escaping), blocks[b].proc))

FoundAll(acc) == Returning(acc.state, All(acc.D))

findAllDefinitions(s, n) == FoundAll(collectAllDefinitions(s, n, FALSE))

-----------------------------------------------------------------------------
(* findDefinitions of a read.                                              *)
findDefinitions(s, n) ==
  LET uses == Annotations(prog, n).uses
      b    == NodeBlock(s, n)
      D    == findDefinitionsInBlock(s, n)
      site(t, ds) == Joined(addUncoveredFromPredecessors(t, b, D, ds), t.ret)
  IN  IF \E ds \in uses : IsUnknown(ds) THEN findAllDefinitions(s, n)
      ELSE FoldLeft(site, Returning(s, {}), SetToSeq(uses))

(* gatherNonPhisDefs: PHI nodes are replaced by their operands.            *)
RECURSIVE gatherNonPhisDefs(_, _)
gatherNonPhisDefs(s, ns) ==
  LET more == ns \cup UNION {PhiOf(s, n).defuse : n \in {x \in ns : ~IsNode(x)}} IN
  IF more = ns THEN {n \in ns : IsNode(n)} ELSE gatherNonPhisDefs(s, more)

-----------------------------------------------------------------------------
EmptyState(bs) ==
  [D       |-> [b \in DOMAIN bs |-> NoDefinitions],
   nodes   |-> [b \in DOMAIN bs |-> bs[b].nodes],
   phis    |-> <<>>,
   outputs |-> [f \in prog.procs |-> {}],
   unknownIn |-> [f \in prog.procs |-> 0],
   callIn  |-> [n \in DOMAIN prog.nodes |-> 0],
   modref  |-> [f \in prog.procs |-> [initialized |-> FALSE, maydef |-> {}]],
   ret     |-> {}]

Init ==
  /\ prog \in Programs
  /\ blocks = <<>>
  /\ ssa = <<>>
  /\ defuse = <<>>

(* run                                                                     *)
initialize ==
  /\ blocks = <<>>
  /\ blocks' = splitBBlocksOnCalls(prog)
  /\ ssa' = EmptyState(blocks')
  /\ UNCHANGED <<prog, defuse>>

(* getDefinitions of a read that was not asked for before.                 *)
getDefinitions(n) ==
  /\ blocks # <<>>
  /\ n \in Uses \ DOMAIN defuse
  /\ \E s \in {findDefinitions(ssa, n)} :
       /\ defuse' = (n :> s.ret) @@ defuse
       /\ ssa' = [s EXCEPT !.ret = {}]
  /\ UNCHANGED <<prog, blocks>>

Next == initialize \/ \E n \in DOMAIN prog.nodes : getDefinitions(n)

Spec == Init /\ [][Next]_vars
=============================================================================
