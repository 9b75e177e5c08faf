------------------------- MODULE RelationsAnalyzer -------------------------
(***************************************************************************)
(* The analysis of value relations (lib/llvm/ValueRelations/               *)
(* RelationsAnalyzer.cpp) of a function without arguments: passes over the *)
(* code graph, each of which adds to the relations that are kept at every  *)
(* location, until a pass changes nothing.                                 *)
(***************************************************************************)
EXTENDS ValueRelations, Sequences

(***************************************************************************)
(* The graph of locations (GraphBuilder.cpp, GraphElements.cpp and the     *)
(* part of StructureAnalyzer.cpp that runs before the analysis).           *)
(*                                                                         *)
(* A program is one function: a sequence of instructions, block after      *)
(* block; a terminator names the first instructions of its successors.     *)
(* Location k is the state before instruction k; the two locations behind a*)
(* conditional branch follow.  Instructions are records with a field op:   *)
(*   alloca | nondet | load ptr | store val ptr | add, sub, mul, srem a b  *)
(*   icmp pred a b | br to | condbr cond t f | ret                         *)
(***************************************************************************)
Terminators == {"br", "condbr", "ret"}

IsTerminator(code, k) == code[k].op \in Terminators

CondBranches(code) == SelectSeq([k \in DOMAIN code |-> k], LAMBDA k : code[k].op = "condbr")

(* buildBranch makes the padding of the true edge, then that of the false  *)
(* edge, branch after branch.                                              *)
Padding(code, k, truth) ==
  LET i == CHOOSE j \in DOMAIN CondBranches(code) : CondBranches(code)[j] = k
  IN Len(code) + 2 * i - (IF truth THEN 1 ELSE 0)

NowhereLoc == 0

Edge(from, to, op) == [from |-> from, to |-> to, op |-> op]

TerminatorEdges(code, k) ==
  LET t == code[k] IN
  CASE t.op = "br"  -> <<Edge(k, t.to, [kind |-> "noop"])>>
    [] t.op = "ret" -> <<Edge(k, NowhereLoc, [kind |-> "inst", inst |-> k])>>
    [] t.op = "condbr" ->
         LET pt == Padding(code, k, TRUE)
             pf == Padding(code, k, FALSE)
         IN <<Edge(k, pt, [kind |-> "assume", cond |-> t.cond, truth |-> TRUE]),
              Edge(k, pf, [kind |-> "assume", cond |-> t.cond, truth |-> FALSE]),
              Edge(pt, t.t, [kind |-> "noop"]), Edge(pf, t.f, [kind |-> "noop"])>>

(* The edges in the order of their creation: those inside of blocks first. *)
EdgesOf(code) ==
  LET all == [k \in DOMAIN code |-> k] IN
  LET plain == SelectSeq(all, LAMBDA k : ~IsTerminator(code, k))
      terms == SelectSeq(all, LAMBDA k : IsTerminator(code, k))
  IN [i \in DOMAIN plain |->
        Edge(plain[i], plain[i] + 1, [kind |-> "inst", inst |-> plain[i]])]
     \o FlattenSeq([i \in DOMAIN terms |-> TerminatorEdges(code, terms[i])])

LocationsOf(code) == 1 .. (Len(code) + 2 * Len(CondBranches(code)))

Indices(es, P(_)) == SelectSeq([i \in DOMAIN es |-> i], LAMBDA i : P(es[i]))

SuccEdges(es, l) == Indices(es, LAMBDA e : e.from = l)

PredEdges(es, l) == Indices(es, LAMBDA e : e.to = l)

-----------------------------------------------------------------------------
(* categorizeEdges: a depth-first walk.  An edge that is never looked at   *)
(* when its target is known already keeps the type DEFAULT.                *)
RECURSIVE Categorize(_, _)
Categorize(es, st) ==
  IF st.stack = <<>> THEN st.types
  ELSE LET top   == Last(st.stack)
           succs == SuccEdges(es, top.loc)
           open  == {i \in top.next .. Len(succs) :
                       es[succs[i]].to \notin st.visited \cup {NowhereLoc}}
           i     == CHOOSE j \in open : \A x \in open : j <= x
           e     == succs[i]
           to    == es[e].to
           stack == Append([st.stack EXCEPT ![Len(st.stack)].next = i + 1],
                           [loc |-> to, next |-> 1])
           seen  == st.visited \cup {to}
       IN IF open = {} THEN Categorize(es, [st EXCEPT !.stack = Front(@)])
          ELSE Categorize(es,
                 [stack |-> stack, visited |-> seen,
                  types |-> [x \in DOMAIN es |->
                    CASE x = e -> "TREE"
                      [] x # e /\ es[x].from = to /\ es[x].to = NowhereLoc -> "TREE"
                      [] x # e /\ es[x].from = to /\ es[x].to \in seen ->
                           IF \E y \in DOMAIN stack : stack[y].loc = es[x].to
                           THEN "BACK" ELSE "FORWARD"
                      [] OTHER -> st.types[x]]])

EdgeTypes(es) ==
  Categorize(es, [stack |-> <<[loc |-> 1, next |-> 1]>>, visited |-> {1},
                  types |-> [x \in DOMAIN es |-> "DEFAULT"]])

(* A code graph with everything that is computed of it in advance.         *)
TypesInto(es, types, l) == {types[i] : i \in ToSet(PredEdges(es, l))}

IsJoin(cg, l) == Len(PredEdges(cg.edges, l)) > 1

IsJustBranchJoin(cg, l) ==
  IsJoin(cg, l) /\ TypesInto(cg.edges, cg.types, l) \subseteq {"TREE", "FORWARD"}

IsJustLoopJoin(cg, l) ==
  IsJoin(cg, l) /\ TypesInto(cg.edges, cg.types, l) \subseteq {"TREE", "BACK"}

PredLocations(cg, l) ==
  LET ps == PredEdges(cg.edges, l) IN [i \in DOMAIN ps |-> cg.edges[ps[i]].from]

TreePredecessor(cg, l) ==
  LET ps == SelectSeq(PredEdges(cg.edges, l), LAMBDA i : cg.types[i] = "TREE")
  IN cg.edges[Last(ps)].from

(* The lazy walk enters a join of branches when all its edges were taken.  *)
RECURSIVE LazyWalk(_, _, _, _)
LazyWalk(cg, stack, count, order) ==
  IF stack = <<>> THEN order
  ELSE LET top   == Last(stack)
           succs == SuccEdges(cg.edges, top.loc)
           Visited(l) == count[l] >= Len(PredEdges(cg.edges, l))
           open  == {i \in top.next .. Len(succs) :
                       /\ cg.edges[succs[i]].to # NowhereLoc
                       /\ ~Visited(cg.edges[succs[i]].to)}
           i     == CHOOSE j \in open : \A x \in open : j <= x
           to    == cg.edges[succs[i]].to
           found == IF IsJustBranchJoin(cg, to) THEN count[to] + 1
                    ELSE Len(PredEdges(cg.edges, to))
           rest  == [stack EXCEPT ![Len(stack)].next = i + 1]
       IN IF open = {} THEN LazyWalk(cg, Front(stack), count, order)
          ELSE LET counted == [count EXCEPT ![to] = found]
               IN IF found >= Len(PredEdges(cg.edges, to))
                  THEN LazyWalk(cg, Append(rest, [loc |-> to, next |-> 1]), counted,
                                Append(order, to))
                  ELSE LazyWalk(cg, rest, counted, order)

LazyOrder(cg, start) ==
  LazyWalk(cg, <<[loc |-> start, next |-> 1]>>,
           [l \in cg.locs |-> IF l = start THEN Len(PredEdges(cg.edges, l)) ELSE 0],
           <<start>>)

(* findLoops: what can come back to a loop join without its tree edge, and *)
(* the instructions on the way.                                            *)
Backward(cg, l) ==
  LET r[n \in 0 .. Cardinality(cg.locs)] ==
        IF n = 0 THEN {l}
        ELSE UNION {prev \cup {cg.edges[i].from : i \in {j \in DOMAIN cg.edges :
                       /\ cg.edges[j].to \in prev
                       /\ cg.edges[j].to = l => cg.types[j] # "TREE"}}
                    : prev \in {r[n - 1]}}
  IN r[Cardinality(cg.locs)]

InloopValues(cg, l) ==
  LET back  == Backward(cg, l)
      inner == SelectSeq(FlattenSeq([i \in DOMAIN LazyOrder(cg, l) |->
                           SuccEdges(cg.edges, LazyOrder(cg, l)[i])]),
                 LAMBDA x : /\ cg.edges[x].from \in back /\ cg.edges[x].to \in back
                            /\ cg.edges[x].op.kind = "inst")
  IN [i \in DOMAIN inner |-> cg.edges[inner[i]].op.inst]

CodeGraph(code) ==
  LET es == EdgesOf(code)
      cg == [code |-> code, edges |-> es, types |-> EdgeTypes(es),
             locs |-> LocationsOf(code)]
      order == LazyOrder(cg, 1)
  IN [code |-> code, edges |-> es, types |-> cg.types, locs |-> cg.locs,
      order |-> order,
      inloop |-> [l \in {x \in cg.locs : IsJustLoopJoin(cg, x)} |-> InloopValues(cg, l)]]

-----------------------------------------------------------------------------
(***************************************************************************)
(* The analysis.                                                           *)
(***************************************************************************)
CONSTANT MaxPass       \* bound on the passes (the option of llvm-vr-dump)

ASSUME AnalyzerAssumption == MaxPass \in Nat

VARIABLES cg,          \* the code graph
          relations,   \* the graph of relations of every location
          todo,        \* what is left of the current pass
          changedInPass,
          passNum,
          phase        \* "analyze" | "done"

analyzerVars == <<descending, cg, relations, todo, changedInPass, passNum, phase>>

-----------------------------------------------------------------------------
(***************************************************************************)
(* Instructions and the values they compute.                               *)
(***************************************************************************)
Inst(k) == cg.code[k]

Result(k) == <<"i", k>>

IsInst(v, op) == v[1] = "i" /\ Inst(v[2]).op = op

(* Pointers are what allocas return and what is loaded or stored as such.  *)
IsPointer(v) == v[1] = "i" /\ (Inst(v[2]).op = "alloca" \/ "pointer" \in DOMAIN Inst(v[2]))

-----------------------------------------------------------------------------
(***************************************************************************)
(* Which memory an instruction may overwrite.                              *)
(***************************************************************************)
hasKnownOrigin(g, v) == \E x \in ToSet(getEqual(g, v)) : IsInst(x, "alloca")

(* The address is stored somewhere, so that it may be read back.           *)
Stored(v) == \E k \in DOMAIN cg.code : Inst(k).op = "store" /\ Inst(k).val = v

mayHaveAlias(g, v) ==
  \E x \in ToSet(getEqual(g, v)) :
    ~hasKnownOrigin(g, x) \/ (IsPointer(x) /\ Stored(x))

(* Mutant: aliases are not thought of.                                     *)
overwritesSame(k, v) ==
  Inst(k).op = "store" /\ "EQ" \in between(relations[k], Inst(k).ptr, v)

mayOverwrite(k, v) ==
  LET g   == relations[k]
      ptr == Inst(k).ptr
  IN /\ Inst(k).op = "store"
     /\ \/ "EQ" \in between(g, ptr, v)
        \/ ~hasKnownOrigin(g, ptr) /\ mayHaveAlias(g, v)
        \/ mayHaveAlias(g, ptr) /\ ~hasKnownOrigin(g, v)

-----------------------------------------------------------------------------
(***************************************************************************)
(* What an instruction adds.                                               *)
(***************************************************************************)
hasAnyRelation(g, v) ==
  LET b == maybeGet(g, v)
  IN b # NoBucket /\ (Len(g.vals[b]) > 1 \/ \E i \in DOMAIN g.edges : g.edges[i][1] = b)

Operands(k) == <<Inst(k).a, Inst(k).b>>

operandsEqual(g, j, k, sameOrder) ==
  \A i \in 1 .. 2 :
    "EQ" \in between(g, Operands(j)[i], Operands(k)[IF sameOrder THEN i ELSE 3 - i])

solveByOperands(g, k, sameOrder) ==
  FoldLeft(LAMBDA h, j : IF operandsEqual(h, k, j, sameOrder)
                         THEN set(h, Result(k), "EQ", Result(j)) ELSE h,
           g, SelectSeq([j \in DOMAIN cg.code |-> j],
                        LAMBDA j : j # k /\ Inst(j).op = Inst(k).op))

(* A value of the same width beyond the parameter: one step cannot wrap.   *)
canShift(g, v, shift) ==
  /\ hasAnyRelation(g, v)
  /\ LET related == getRelated(g, maybeGet(g, v), {shift, getNonStrict[shift]})
     IN \E b \in DOMAIN related : \E x \in ToSet(g.vals[b]) :
          /\ ~IsPointer(x)
          /\ \/ shift \in related[b]
             \/ IsConstant(x) /\ x[2] # (IF shift = "SGT" THEN MinValue ELSE MaxValue)

Const(n) == <<"c", n, Width>>

(* The operation adds or takes away one: the shifted value lies beyond the *)
(* parameter, and not beyond what is strictly beyond the parameter.        *)
ShiftOf(k) ==
  LET c == ConstantsOf(Operands(k))[1]
  IN CASE Inst(k).op = "add" /\ c[2] = 1  -> "SLT"
       [] Inst(k).op = "sub" /\ c[2] = -1 -> "SLT"
       [] Inst(k).op = "add" /\ c[2] = -1 -> "SGT"
       [] Inst(k).op = "sub" /\ c[2] = 1  -> "SGT"
       [] OTHER -> "none"

ParamOf(k) == SelectSeq(Operands(k), LAMBDA v : ~IsConstant(v))[1]

MovedBound(c, shift) == Const(Wrapped(c[2] + (IF shift = "SLT" THEN 1 ELSE -1)))

setBeyond(g, k, weak, bs) ==
  FoldLeft(LAMBDA h, b : IF g.vals[b] = <<>> THEN Fail(h)
                         ELSE set(h, Result(k), weak, g.vals[b][1]),
           g, bs)

solveSample(g, k, param, shift) ==
  setBeyond(g, k, getNonStrict[shift],
            IdOrder(DOMAIN getFirstStrict(g, maybeGet(g, param), shift)))

moveBound(g, k, shift, weak, bound) ==
  IF /\ bound.c # <<>> /\ weak \in bound.rels
     /\ weak \notin between(g, Result(k), bound.c)
  THEN set(g, Result(k), weak, MovedBound(bound.c, shift)) ELSE g

solveBound(g, k, param, shift) ==
  moveBound(g, k, shift, getNonStrict[shift],
            getBound(g, maybeGet(g, param), getNonStrict[shift]))

solveShift(g, k, param, shift) ==
  IF shift = "none" \/ ~canShift(g, param, shift) THEN g
  ELSE solveBound(solveSample(set(g, param, shift, Result(k)), k, param, shift),
                  k, param, shift)

solveDifferent(g, k) ==
  IF IsConstant(Inst(k).a) /\ Inst(k).op = "sub" THEN g
  ELSE solveShift(g, k, ParamOf(k), ShiftOf(k))

solveNonConstants(g, k) ==
  IF /\ Inst(k).op = "sub"
     /\ "SLT" \in between(g, Const(0), Inst(k).b)
     /\ "SLE" \in between(g, Inst(k).b, Inst(k).a)
  THEN set(g, Result(k), "SLT", Inst(k).a) ELSE g

solveByConstants(g, k, consts) ==
  CASE Inst(k).op = "mul" \/ consts = 2 -> g
    [] Inst(k).op # "mul" /\ consts = 0 -> solveNonConstants(g, k)
    [] OTHER -> solveDifferent(g, k)

opGen(g, k) ==
  solveByConstants(
    FoldLeft(LAMBDA h, sameOrder : solveByOperands(h, k, sameOrder), g,
             IF Inst(k).op \in {"add", "mul"} THEN <<TRUE, FALSE>> ELSE <<TRUE>>),
    k, Len(ConstantsOf(Operands(k))))

remGen(g, k) ==
  IF "SLE" \in between(g, Const(0), Inst(k).a)
  THEN set(set(g, Const(0), "SLE", Result(k)), Result(k), "SLT", Inst(k).b)
  ELSE g

processInstruction(g, k) ==
  CASE Inst(k).op \in {"store", "load"} ->
         set(g, Inst(k).ptr, "PT", IF Inst(k).op = "store" THEN Inst(k).val ELSE Result(k))
    [] Inst(k).op \in {"add", "sub", "mul"} -> opGen(g, k)
    [] Inst(k).op = "srem" -> remGen(g, k)
    [] OTHER -> g

(* rememberValidated: contents of memory that instruction k leaves alone.  *)
rememberValidated(prev, g, k) ==
  FoldLeft(LAMBDA h, e :
             FoldLeft(LAMBDA h1, from :
                        IF \/ ~mayOverwrite(k, from)
                           \/ /\ Inst(k).op = "store"
                              /\ "EQ" \in betweenBucketAndValue(prev, e[3], Inst(k).val)
                        THEN FoldLeft(LAMBDA h2, to : set(h2, from, "PT", to), h1,
                                      prev.vals[e[3]])
                        ELSE h1,
                      h, prev.vals[e[1]]),
           g, AllEdges(prev, {"PT"}))

-----------------------------------------------------------------------------
(***************************************************************************)
(* Assumptions.  ICMPToRel takes the signed form of the predicate if the   *)
(* condition holds and the inverse predicate if it does not.               *)
(***************************************************************************)
ICMPToRel(pred, truth) ==
  IF truth THEN CASE pred = "ULE" -> "SLE" [] pred = "ULT" -> "SLT"
                  [] pred = "UGE" -> "SGE" [] pred = "UGT" -> "SGT"
                  [] OTHER -> pred
  ELSE [EQ  |-> "NE",  NE  |-> "EQ",  SLE |-> "SGT", SLT |-> "SGE", ULE |-> "UGT",
        ULT |-> "UGE", SGE |-> "SLT", SGT |-> "SLE", UGE |-> "ULT", UGT |-> "ULE"][pred]

MergedOrFail(m) == IF m.ok THEN m.g ELSE Fail(m.g)

(* Mutant: a condition that cannot hold is added all the same.             *)
processICMPAlways(old, new, icmp, rel) ==
  MergedOrFail(merge(set(new, icmp.a, rel, icmp.b), old, allRelations))

processICMP(old, new, icmp, rel) ==
  IF hasConflictingRelation(old, icmp.a, icmp.b, rel) THEN new
  ELSE MergedOrFail(merge(set(new, icmp.a, rel, icmp.b), old, allRelations))

processOperation(source, target, op) ==
  CASE op.kind = "inst" ->
         processInstruction(
           rememberValidated(source, merge(target, source, comparative).g, op.inst), op.inst)
    [] op.kind = "assume" ->
         processICMP(source, target, Inst(op.cond), ICMPToRel(Inst(op.cond).pred, op.truth))
    [] OTHER -> merge(target, source, allRelations).g

-----------------------------------------------------------------------------
(***************************************************************************)
(* Joins.                                                                  *)
(***************************************************************************)
(* inferFromPreds and mergeRelations: what all predecessors know of two    *)
(* values that the tree predecessor relates.                               *)
getCommon(l, v, known, w) ==
  FoldLeft(LAMBDA rels, p : IF rels = {} THEN {} ELSE rels \cap between(relations[p], v, w),
           known, PredLocations(cg, l))

setCommon(acc, v, common, w) ==
  IF v = w \/ common = {} THEN acc
  ELSE [g |-> setAll(acc.g, v, common, w),
        equal |-> IF "EQ" \in common THEN acc.equal \cup {w} ELSE acc.equal]

inferFromPreds(g, l, pred, lt, known, rt) ==
  FoldLeft(LAMBDA acc, v :
             IF v \in acc.equal THEN acc
             ELSE FoldLeft(LAMBDA a, w : setCommon(a, v, getCommon(l, v, known, w), w),
                           acc, pred.vals[rt]),
           [g |-> g, equal |-> {}], pred.vals[lt]).g

inferFromRelated(g, l, pred, b, related) ==
  FoldLeft(LAMBDA h, x : inferFromPreds(h, l, pred, b, related[x], x), g,
           IdOrder(DOMAIN related))

mergeFromTree(g, l, pred) ==
  IF IsJustLoopJoin(cg, l) THEN MergedOrFail(merge(g, pred, comparative)) ELSE g

mergeRelations(l, pred) ==
  mergeFromTree(
    FoldLeft(LAMBDA g, b : inferFromRelated(g, l, pred, b, getRelated(pred, b, restricted)),
             relations[l], IdOrder(Buckets(pred))),
    l, pred)

(* getChangeLocations: where the content of froms is known that the join   *)
(* can see; none if somewhere it is not known.                             *)
HasLoad(l, v) ==
  LET b == maybeGet(relations[l], v) IN b # NoBucket /\ Has(relations[l], b, "PT")

TargetOf(k) == cg.edges[SuccEdges(cg.edges, k)[1]].to

getBranchChangeLocations(l, froms) ==
  IF \A i \in DOMAIN PredLocations(cg, l) :
       \E j \in DOMAIN froms : HasLoad(PredLocations(cg, l)[i], froms[j])
  THEN PredLocations(cg, l) ELSE <<>>

OverwritesIn(k, froms) ==
  FoldLeft(LAMBDA found, v : IF mayOverwrite(k, v)
                             THEN Append(found, [at |-> TargetOf(k), from |-> v]) ELSE found,
           <<>>, froms)

LoopLocations(l, overwrites) ==
  IF \E i \in DOMAIN overwrites : ~HasLoad(overwrites[i].at, overwrites[i].from)
  THEN <<>>
  ELSE <<TreePredecessor(cg, l)>> \o [i \in DOMAIN overwrites |-> overwrites[i].at]

getLoopChangeLocations(l, froms) ==
  LoopLocations(l, FlattenSeq([i \in DOMAIN cg.inloop[l] |->
                                 OverwritesIn(cg.inloop[l][i], froms)]))

getChangeLocations(l, froms) ==
  CASE IsJustBranchJoin(cg, l) -> getBranchChangeLocations(l, froms)
    [] IsJustLoopJoin(cg, l)   -> getLoopChangeLocations(l, froms)
    [] OTHER -> <<>>

(* getCorrespondingByContent: the one bucket that holds values of froms.   *)
FromBucket(g, froms) ==
  LET bs == {maybeGet(g, froms[i]) : i \in DOMAIN froms} \ {NoBucket}
  IN IF Cardinality(bs) = 1 THEN CHOOSE b \in bs : TRUE ELSE NoBucket

PointedTo(g, froms) == Target(g, FromBucket(g, froms), "PT")

(* getBoundOnPointedToValue: the weakest of the lower bounds.              *)
lowerBound(acc, bound, r, lower) ==
  [acc EXCEPT !.c = IF lower THEN bound.c ELSE @,
              !.rels = (IF lower THEN addImplied({getStrict[r]}) ELSE @) \cap bound.rels]

addBound(acc, g, b, bound, r) ==
  CASE acc.stop -> acc
    [] ~acc.stop /\ b = NoBucket -> [acc EXCEPT !.stop = TRUE, !.failed = TRUE]
    [] ~acc.stop /\ b # NoBucket /\ (~Has(g, b, "PT") \/ bound.c = <<>>) ->
         [acc EXCEPT !.stop = TRUE, !.c = <<>>]
    [] OTHER -> lowerBound(acc, bound, r,
                  acc.c = <<>> \/ getStrict[r] \in compare(acc.c, bound.c))

getBoundOnPointedToValue(locs, froms, r) ==
  FoldLeft(LAMBDA acc, l :
             addBound(acc, relations[l], FromBucket(relations[l], froms),
                      getBound(relations[l], PointedTo(relations[l], froms), r), r),
           [c |-> <<>>, rels |-> allRelations, stop |-> FALSE, failed |-> FALSE], locs)

relateTo(g, b, r, v) == addRelation(g, b, r, maybeGet(g, v))

setFromBucket(g, b, rels, v) ==
  FoldLeft(LAMBDA h, r : relateTo(withBucket(h, v), b, r, v), g, RelationsToSet(rels))

setBound(g, placeholder, bound) ==
  CASE bound.failed -> Fail(g)
    [] ~bound.failed /\ bound.c # <<>> -> setFromBucket(g, placeholder, bound.rels, bound.c)
    [] OTHER -> g

relateBounds(g, locs, froms, placeholder) ==
  FoldLeft(LAMBDA h, r : setBound(h, placeholder, getBoundOnPointedToValue(locs, froms, r)),
           g, <<"SGE", "UGE">>)

(* relateValues: what all change locations know of the content and a value.*)
getCommonByPointedTo(froms, locs, v, known) ==
  FoldLeft(LAMBDA rels, l :
             LET g == relations[l] IN
             IF rels = {} \/ FromBucket(g, froms) = NoBucket THEN {}
             ELSE rels \cap betweenBucketAndValue(g, PointedTo(g, froms), v),
           known, Tail(locs))

setCommonFromBucket(g, placeholder, common, v) ==
  IF common = {} THEN g ELSE setFromBucket(g, placeholder, common, v)

relateRelated(g, locs, froms, placeholder, pred, content, related) ==
  FoldLeft(LAMBDA h, b :
             IF b = content /\ pred.vals[b] # <<>> THEN h
             ELSE FoldLeft(LAMBDA h1, v : setCommonFromBucket(h1, placeholder,
                              getCommonByPointedTo(froms, locs, v, related[b]), v),
                           h, pred.vals[b]),
           g, IdOrder(DOMAIN related))

relateContent(g, locs, froms, placeholder, pred, content) ==
  relateRelated(g, locs, froms, placeholder, pred, content,
                getRelated(pred, content, comparative))

relateValues(g, locs, froms, placeholder) ==
  relateContent(g, locs, froms, placeholder, relations[locs[1]],
                PointedTo(relations[locs[1]], froms))

(* getShift: the content only ever grows, or only ever shrinks, by one.    *)
ShiftOfValue(v, froms) ==
  LET k == v[2] IN
  IF /\ v[1] = "i" /\ Inst(k).op \in {"add", "sub"}
     /\ Len(ConstantsOf(Operands(k))) = 1
     /\ IsInst(ParamOf(k), "load") /\ Inst(ParamOf(k)[2]).ptr \in ToSet(froms)
     /\ ~(IsConstant(Inst(k).a) /\ Inst(k).op = "sub")
  THEN CASE ShiftOf(k) = "SLT" -> "INC" [] ShiftOf(k) = "SGT" -> "DEC"
         [] OTHER -> "UNKNOWN"
  ELSE "UNKNOWN"

(* getParams has no answer for a constant minus something; getShift uses   *)
(* the answer all the same.                                                *)
HasNoParams(v) ==
  /\ v[1] = "i" /\ Inst(v[2]).op = "sub"
  /\ IsConstant(Inst(v[2]).a) /\ ~IsConstant(Inst(v[2]).b)

StoreInto(l) == Inst(cg.edges[PredEdges(cg.edges, l)[1]].op.inst)

(* An unknown content ends the loop at the next store, which is looked at   *)
(* first.                                                                   *)
getShift(locs, froms) ==
  LET after(shift, l) ==
        LET store   == StoreInto(l)
            current == ShiftOfValue(store.val, froms)
        IN CASE shift \in {"returned", "crash"} -> shift
             [] shift \notin {"returned", "crash"} /\ store.ptr \notin ToSet(froms) ->
                  "returned"
             [] OTHER -> IF HasNoParams(store.val) THEN "crash"
                         ELSE IF shift = "EQ" \/ (shift = current /\ shift # "UNKNOWN")
                         THEN current
                         ELSE "returned"
      found == FoldLeft(after, "EQ", Tail(locs))
  IN IF found = "returned" THEN "UNKNOWN" ELSE found

setShift(g, placeholder, initial, shift) ==
  CASE initial = <<>> \/ shift = "UNKNOWN" -> g
    [] initial # <<>> /\ shift = "crash" -> Fail(g)
    [] OTHER -> setFromBucket(g, placeholder,
                  {[EQ |-> "EQ", INC |-> "SGE", DEC |-> "SLE"][shift]}, initial[1])

inferShiftInLoop(g, locs, froms, placeholder) ==
  LET pred == relations[locs[1]]
  IN setShift(g, placeholder, pred.vals[PointedTo(pred, froms)], getShift(locs, froms))

(* A content about which nothing was found is forgotten.                   *)
relateLoad(g, v, placeholder) == addRelation(g, maybeGet(g, v), "PT", placeholder)

keepKnown(g, v, placeholder) ==
  IF placeholder \notin Buckets(g) THEN Fail(g)
  ELSE IF \/ g.vals[placeholder] # <<>>
          \/ \E i \in DOMAIN g.edges : g.edges[i][1] = placeholder
  THEN relateLoad(withBucket(g, v), v, placeholder)
  ELSE erase(g, placeholder)

mergePointedTo(g, l, froms, locs, placeholder) ==
  keepKnown(
    relateValues(
      relateBounds(IF IsJustLoopJoin(cg, l) THEN inferShiftInLoop(g, locs, froms, placeholder)
                   ELSE g,
                   locs, froms, placeholder),
      locs, froms, placeholder),
    froms[1], placeholder)

mergeChanges(g, l, froms, locs) ==
  IF locs = <<>> THEN g
  ELSE LET place == newPlaceholderBucket(g, maybeGet(g, froms[1]))
       IN mergePointedTo(place.g, l, froms, locs, place.b)

mergeRelationsByPointedTo(g, l, pred) ==
  FoldLeft(LAMBDA h, e :
             IF pred.vals[e[1]] = <<>> THEN h
             ELSE mergeChanges(h, l, pred.vals[e[1]], getChangeLocations(l, pred.vals[e[1]])),
           g, AllEdges(pred, {"PT"}))

-----------------------------------------------------------------------------
(***************************************************************************)
(* Passes.                                                                 *)
(***************************************************************************)
Joined(l, pred) == mergeRelationsByPointedTo(mergeRelations(l, pred), l, pred)

AfterEdge(e) == processOperation(relations[e.from], relations[e.to], e.op)

Located(l) ==
  LET preds == PredEdges(cg.edges, l)
  IN CASE Len(preds) > 1 -> Joined(l, relations[TreePredecessor(cg, l)])
       [] Len(preds) = 1 -> AfterEdge(cg.edges[preds[1]])
       [] OTHER -> relations[l]

(* One location of passFunction.                                           *)
Keep(l, g) ==
  /\ relations' = [relations EXCEPT ![l] = [g EXCEPT !.changed = FALSE]]
  /\ changedInPass' = (changedInPass \/ g.changed)

Pass ==
  /\ phase = "analyze" /\ todo # <<>>
  /\ Keep(Head(todo), Located(Head(todo)))
  /\ todo' = Tail(todo)
  /\ UNCHANGED <<cg, passNum, phase, descending>>

EndPass ==
  /\ phase = "analyze" /\ todo = <<>>
  /\ passNum' = passNum + 1
  /\ changedInPass' = FALSE
  /\ IF changedInPass /\ passNum + 1 < MaxPass
     THEN todo' = cg.order /\ phase' = "analyze"
     ELSE todo' = <<>> /\ phase' = "done"
  /\ UNCHANGED <<cg, relations, descending>>

AnalyzerInit(code) ==
  /\ cg = CodeGraph(code)
  /\ relations = [l \in LocationsOf(code) |-> EmptyGraph]
  /\ todo = cg.order
  /\ changedInPass = FALSE /\ passNum = 0 /\ phase = "analyze"
=============================================================================
