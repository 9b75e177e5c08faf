--------------------------- MODULE ValueRelations ---------------------------
(***************************************************************************)
(* The graph of relations that the analysis keeps for one location         *)
(* (include/dg/ValueRelations/Bucket.h and RelationsGraph.h,               *)
(* lib/llvm/ValueRelations/ValueRelations.cpp).                            *)
(*                                                                         *)
(* A bucket is a class of equal values.  A graph is a record:              *)
(*   last    the number of the newest bucket;                              *)
(*   vals    the buckets, each with its values in the order of insertion   *)
(*           (bucketToVals; valToBucket is its inverse);                   *)
(*   edges   the related buckets in the order in which the relations were  *)
(*           set, every edge with its inverse.  That a bucket is EQ to     *)
(*           itself is not listed;                                         *)
(*   changed the flag that tells the analysis to go on;                    *)
(*   failed  an assertion did not hold, or a bucket is used that was       *)
(*           merged into another one.                                      *)
(* A value is <<"c", n, w>>, the constant n of width w, or <<"i", k>>, the *)
(* result of instruction k.  No bucket is a border bucket (those stand for *)
(* memory reached from arguments).                                         *)
(***************************************************************************)
EXTENDS Integers, FiniteSets, SequencesExt, TLC

CONSTANT Width         \* bits of an integer

ASSUME WidthAssumption == Width \in Nat \ {0}

VARIABLE descending    \* whether sets that the code orders by address are walked
                       \* downwards; chosen once

-----------------------------------------------------------------------------
(***************************************************************************)
(* Class Relations (lib/ValueRelations/Relations.cpp): equality, the       *)
(* signed and the unsigned orders, and "points to" with its inverse.  A    *)
(* set of relations is a bit set in the code and a set here.               *)
(***************************************************************************)
Types == <<"EQ", "NE", "SLE", "SLT", "ULE", "ULT",
           "SGE", "SGT", "UGE", "UGT", "PT", "PF">>

allRelations == {Types[i] : i \in DOMAIN Types}

comparative == allRelations \ {"PT", "PF"}

restricted == {"EQ", "NE", "SLT", "SLE", "ULT", "ULE", "PT"}

strict == {"SLT", "ULT", "SGT", "UGT"}

nonStrict == {"SLE", "ULE", "SGE", "UGE"}

inverted == [EQ |-> "EQ", NE |-> "NE", PT |-> "PF", PF |-> "PT",
             SLE |-> "SGE", SLT |-> "SGT", ULE |-> "UGE", ULT |-> "UGT",
             SGE |-> "SLE", SGT |-> "SLT", UGE |-> "ULE", UGT |-> "ULT"]

getStrict == [SLE |-> "SLT", ULE |-> "ULT", SGE |-> "SGT", UGE |-> "UGT",
              SLT |-> "SLT", ULT |-> "ULT", SGT |-> "SGT", UGT |-> "UGT"]

getNonStrict == [SLT |-> "SLE", ULT |-> "ULE", SGT |-> "SGE", UGT |-> "UGE"]

conflicting ==
  [EQ  |-> {"NE", "SLT", "ULT", "SGT", "UGT"}, NE |-> {"EQ"},
   SLT |-> {"EQ", "SGT", "SGE"}, ULT |-> {"EQ", "UGT", "UGE"},
   SGT |-> {"EQ", "SLT", "SLE"}, UGT |-> {"EQ", "ULT", "ULE"},
   SLE |-> {"SGT"}, ULE |-> {"UGT"}, SGE |-> {"SLT"}, UGE |-> {"ULT"},
   PT  |-> {}, PF |-> {}]

(* The two relations belong to the same order, in the same direction.      *)
transitiveOver(fst, snd) ==
  /\ fst \in strict \cup nonStrict
  /\ snd \in strict \cup nonStrict
  /\ getStrict[fst] = getStrict[snd]

addImplied(rels) ==
  rels \cup {getNonStrict[r] : r \in rels \cap strict}
       \cup (IF rels \cap strict # {} THEN {"NE"} ELSE {})
       \cup (IF "EQ" \in rels THEN nonStrict ELSE {})

(* What a search for rels has to look at: with either form of an order also*)
(* the other one, and the bucket itself when only the non-strict one is    *)
(* asked for.                                                              *)
getAugmented(rels) ==
  rels \cup {getNonStrict[r] : r \in rels \cap strict}
       \cup {getStrict[r] : r \in rels \cap nonStrict}
       \cup (IF \E r \in rels \cap nonStrict : getStrict[r] \notin rels
             THEN {"EQ"} ELSE {})

invert(rels) == {inverted[r] : r \in rels}

compose(lt, rt) ==
  IF "EQ" \in lt THEN rt
  ELSE IF "EQ" \in rt THEN lt
  ELSE addImplied(UNION {
         {IF {l, r} \cap strict # {} THEN getStrict[l] ELSE l
            : r \in {x \in rt : transitiveOver(l, x)}} : l \in lt})

(* Relations::get: the most informative relation of a set.                 *)
Precedence == <<"EQ", "SLT", "ULT", "SGT", "UGT", "NE", "SLE", "ULE",
                "SGE", "UGE", "PT", "PF">>

get(rels) ==
  Precedence[CHOOSE i \in DOMAIN Precedence :
               /\ Precedence[i] \in rels
               /\ \A j \in 1 .. (i - 1) : Precedence[j] \notin rels]

-----------------------------------------------------------------------------
(* What the comparing relations mean: words of Width bits, ordered as      *)
(* signed and as unsigned numbers.                                         *)
MaxValue == 2 ^ (Width - 1) - 1
MinValue == -(2 ^ (Width - 1))

Word == MinValue .. MaxValue

Wrapped(n) == ((n - MinValue) % (2 ^ Width)) + MinValue

Unsigned(n) == n % (2 ^ Width)

Ordered(r, m, n) ==
  CASE r = "EQ"  -> m = n
    [] r = "NE"  -> m # n
    [] r = "SLE" -> m <= n
    [] r = "SLT" -> m < n
    [] r = "SGE" -> m >= n
    [] r = "SGT" -> m > n
    [] r = "ULE" -> Unsigned(m) <= Unsigned(n)
    [] r = "ULT" -> Unsigned(m) < Unsigned(n)
    [] r = "UGE" -> Unsigned(m) >= Unsigned(n)
    [] r = "UGT" -> Unsigned(m) > Unsigned(n)

-----------------------------------------------------------------------------
(***************************************************************************)
(* Graphs.                                                                 *)
(***************************************************************************)
EmptyGraph ==
  [last |-> 0, vals |-> <<>>, edges |-> <<>>, changed |-> FALSE, failed |-> FALSE]

Buckets(g) == DOMAIN g.vals

InverseEdge(e) == <<e[3], inverted[e[2]], e[1]>>

Has(g, b, r) == \E i \in DOMAIN g.edges : g.edges[i][1] = b /\ g.edges[i][2] = r

(* Bucket::getRelated: the first bucket related by r.                      *)
Target(g, b, r) ==
  g.edges[CHOOSE i \in DOMAIN g.edges :
            /\ g.edges[i][1] = b /\ g.edges[i][2] = r
            /\ \A j \in 1 .. (i - 1) : <<b, r>> # <<g.edges[j][1], g.edges[j][2]>>][3]

-----------------------------------------------------------------------------
(***************************************************************************)
(* The iterators over edges.                                               *)
(***************************************************************************)
(* The edges of b in the order in which an iterator visits them.           *)
Out(g, b) ==
  <<<<b, "EQ", b>>>> \o
  FlattenSeq([i \in 1 .. 11 |-> SelectSeq(g.edges, LAMBDA e : e[1] = b /\ e[2] = Types[i + 1])])

(* One search of the iterator.  todo holds the edges to be looked at, each *)
(* behind the relation by which its bucket was reached; visited is shared  *)
(* between searches.  An edge is taken at most once and never against its  *)
(* direction after it was taken along it.  The search goes on behind edges *)
(* with a relation in follow; an edge with one in forget (but not its      *)
(* inverse) may be taken again.                                            *)
RECURSIVE Walk(_, _, _, _, _, _, _, _)
Walk(g, allowed, focused, follow, forget, todo, visited, found) ==
  IF todo = <<>> THEN [visited |-> visited, found |-> found]
  ELSE LET prev == todo[1][1]
           e    == todo[1][2]
       IN IF /\ e \notin visited
             /\ e[2] \in allowed
             /\ focused => prev = "none" \/ transitiveOver(prev, e[2])
          THEN Walk(g, allowed, focused, follow, forget,
                    (IF e[2] \in follow
                     THEN LET out == Out(g, e[3])
                          IN [i \in DOMAIN out |-> <<e[2], out[i]>>]
                     ELSE <<>>) \o Tail(todo),
                    (visited \cup {e, InverseEdge(e)}) \ (IF e[2] \in forget THEN {e} ELSE {}),
                    Append(found, e))
          ELSE Walk(g, allowed, focused, follow, forget, Tail(todo), visited, found)

Start(g, b) == LET out == Out(g, b) IN [i \in DOMAIN out |-> <<"none", out[i]>>]

AddressOrder(S) ==
  SetToSortSeq(S, LAMBDA x, y : IF descending THEN x > y ELSE x < y)

(* RelationsGraph::begin(rels): every edge of the graph once, in one of its*)
(* directions.                                                             *)
AllEdges(g, rels) ==
  FoldLeft(LAMBDA acc, b :
             LET w == Walk(g, rels, FALSE, allRelations, {},
                           Start(g, b), acc.visited, <<>>)
             IN [visited |-> w.visited, found |-> acc.found \o w.found],
           [visited |-> {}, found |-> <<>>], AddressOrder(Buckets(g))).found

-----------------------------------------------------------------------------
(***************************************************************************)
(* The relations of a bucket.                                              *)
(***************************************************************************)
TypeIndex(r) == CHOOSE i \in DOMAIN Types : Types[i] = r

EdgeLess(e, f) ==
  \/ e[1] < f[1]
  \/ e[1] = f[1] /\ TypeIndex(e[2]) < TypeIndex(f[2])
  \/ e[1] = f[1] /\ e[2] = f[2] /\ e[3] < f[3]

(* Mutant: the edge is taken for one of the same order.                    *)
processAnyEdge(known, edge, strictRel) == [known EXCEPT ![edge[3]] = @ \cup {strictRel}]

(* What is known of every bucket, after edge of the second search is seen. *)
processEdge(known, edge, strictRel) ==
  IF transitiveOver(strictRel, edge[2]) THEN [known EXCEPT ![edge[3]] = @ \cup {strictRel}]
  ELSE known

processToFirstStrict(known, edge, strictRel, firstStrict) ==
  LET to == edge[3] IN
  IF ~transitiveOver(strictRel, edge[2]) THEN known
  ELSE IF strictRel \notin known[to]
       THEN [known EXCEPT ![to] = @ \ {getNonStrict[strictRel]}]
  ELSE IF edge \in firstStrict
       THEN [known EXCEPT ![to] = @ \ {strictRel, getNonStrict[strictRel]}]
  ELSE known

(* With toFirstStrict the search stops at the target of a strict edge from *)
(* the start, so that it depends on what is known when an edge is seen.    *)
RECURSIVE FirstStrictWalk(_, _, _, _, _, _, _)
FirstStrictWalk(g, allowed, strictRel, firstStrict, todo, visited, known) ==
  IF todo = <<>> THEN [visited |-> visited, known |-> known]
  ELSE LET prev == todo[1][1]
           e    == todo[1][2]
           skip == ~transitiveOver(strictRel, e[2]) \/ strictRel \in known[e[3]]
           out  == Out(g, e[3])
       IN IF /\ e \notin visited
             /\ e[2] \in allowed
             /\ prev = "none" \/ transitiveOver(prev, e[2])
          THEN FirstStrictWalk(g, allowed, strictRel, firstStrict,
                 (IF skip THEN <<>> ELSE [i \in DOMAIN out |-> <<e[2], out[i]>>])
                   \o Tail(todo),
                 (visited \cup {e, InverseEdge(e)}) \ (IF skip THEN {e} ELSE {}),
                 processToFirstStrict(known, e, strictRel, firstStrict))
          ELSE FirstStrictWalk(g, allowed, strictRel, firstStrict, Tail(todo),
                               visited, known)

(* The first search: everything up to the first strict edges.              *)
FirstEdges(g, b, allowed) ==
  ToSet(Walk(g, allowed, TRUE, allRelations \ strict, {}, Start(g, b), {}, <<>>).found)

RelatedDirectly(g, first) ==
  [x \in Buckets(g) |-> {e[2] : e \in {f \in first : f[3] = x}}]

(* Mutant: nothing is looked for behind a strict edge.                     *)
getNearRelated(g, b, allowed) == RelatedDirectly(g, FirstEdges(g, b, allowed))

(* Behind each strict edge of the first search: what is strictly related   *)
(* because of it.                                                          *)
Processed(walk, known, strictRel) ==
  [visited |-> walk.visited,
   known   |-> FoldLeft(LAMBDA k, e : processEdge(k, e, strictRel), known, walk.found)]

SearchBehind(g, allowed, e, acc, same) ==
  Processed(Walk(g, allowed, TRUE, same, allRelations \ same, Start(g, e[3]),
                 acc.visited, <<>>), acc.known, e[2])

StrictEdges(first) == SetToSortSeq({e \in first : e[2] \in strict}, EdgeLess)

AugmentedFrom(g, allowed, first) ==
  FoldLeft(LAMBDA acc, e : SearchBehind(g, allowed, e, acc,
                             {r \in allRelations : transitiveOver(e[2], r)}),
           [visited |-> {}, known |-> RelatedDirectly(g, first)], StrictEdges(first)).known

getAugmentedRelated(g, b, allowed) == AugmentedFrom(g, allowed, FirstEdges(g, b, allowed))

(* The same with toFirstStrict: only the strict edges with nothing strict  *)
(* in between are left.                                                    *)
FirstStrictFrom(g, allowed, first) ==
  FoldLeft(LAMBDA acc, e : FirstStrictWalk(g, allowed, e[2], {f \in first : f[2] \in strict},
                                           Start(g, e[3]), acc.visited, acc.known),
           [visited |-> {}, known |-> RelatedDirectly(g, first)], StrictEdges(first)).known

WithAnyOf(known, rels) ==
  [x \in {y \in DOMAIN known : addImplied(known[y]) \cap rels # {}} |-> addImplied(known[x])]

getRelated(g, b, rels) == WithAnyOf(getAugmentedRelated(g, b, getAugmented(rels)), rels)

getFirstStrict(g, b, rel) ==
  WithAnyOf(FirstStrictFrom(g, getAugmented({rel}), FirstEdges(g, b, getAugmented({rel}))),
            {rel})

RelationsTo(related, b) == IF b \in DOMAIN related THEN related[b] ELSE {}

relationsBetween(g, lt, rt) == RelationsTo(getRelated(g, lt, allRelations), rt)

-----------------------------------------------------------------------------
(***************************************************************************)
(* Changes.                                                                *)
(***************************************************************************)
Fail(g) == [g EXCEPT !.failed = TRUE]

getNewBucket(g) ==
  [g EXCEPT !.last = @ + 1, !.vals = (g.last + 1 :> <<>>) @@ @]

setRelated(g, lt, r, rt) ==
  LET both  == <<<<lt, r, rt>>, <<rt, inverted[r], lt>>>>
      fresh == SelectSeq(both, LAMBDA e : \A i \in DOMAIN g.edges : g.edges[i] # e)
  IN IF lt = rt /\ r \in comparative THEN Fail(g)
     ELSE [g EXCEPT !.edges = @ \o fresh]

unsetRelated(g, lt, r, rt) ==
  [g EXCEPT !.edges = SelectSeq(@, LAMBDA e :
                        /\ e # <<lt, r, rt>>
                        /\ lt # rt => e # <<rt, inverted[r], lt>>)]

(* RelationsGraph::erase with Bucket::disconnect.                          *)
erase(g, b) ==
  [g EXCEPT !.edges = SelectSeq(@, LAMBDA e : b \notin {e[1], e[3]}),
            !.vals  = [x \in Buckets(g) \ {b} |-> @[x]]]

(* The values and the relations of from go to to; ValueRelations is told   *)
(* first (areMerged).                                                      *)
setEqual(g, to, from) ==
  IF to = from \/ {to, from} \cap Buckets(g) # {to, from} THEN Fail(g)
  ELSE LET moved  == SelectSeq(g.vals[from], LAMBDA v : v \notin ToSet(g.vals[to]))
           merged == FoldLeft(LAMBDA h, e :
                                IF e[3] = to THEN h ELSE setRelated(h, to, e[2], e[3]),
                              [g EXCEPT !.vals[to] = @ \o moved,
                                        !.changed = @ \/ g.vals[from] # <<>>],
                              Tail(Out(g, from)))
       IN erase(merged, from)

(* Non-strict relations both ways: everything in between is equal.         *)
IdOrder(S) == SetToSortSeq(S, LAMBDA x, y : x < y)

RelatedToBoth(related) == IdOrder(DOMAIN related[1] \cap DOMAIN related[2])

getIntersectingNonstrict(g, lt, rt, r) ==
  RelatedToBoth([i \in 1 .. 2 |->
                   getRelated(g, <<lt, rt>>[i], {<<r, inverted[r]>>[i]})])

makeEqual(g, bs) ==
  IF Len(bs) < 2 THEN Fail(g)
  ELSE [FoldLeft(LAMBDA h, b : setEqual(h, bs[1], b), g, Tail(bs)) EXCEPT !.changed = TRUE]

RECURSIVE haveConflictingRelation(_, _, _, _)
haveConflictingRelation(g, lt, r, rt) ==
  CASE r = "PT" -> /\ Has(g, lt, "PT")
                   /\ haveConflictingRelation(g, Target(g, lt, "PT"), "EQ", rt)
    [] r = "PF" -> haveConflictingRelation(g, rt, "PT", lt)
    [] OTHER    -> relationsBetween(g, lt, rt) \cap conflicting[r] # {}

(* addRelation: between is what the caller knows of the two buckets; it is *)
(* not asked for again when the call repeats itself with another relation. *)
(* The strict relation that NE makes of a non-strict one.                  *)
NearestStrict(rels) == get({t \in strict : getNonStrict[t] \in rels})

link(g, lt, r, rt) == [setRelated(g, lt, r, rt) EXCEPT !.changed = TRUE]

ConflictsWith(between, r) == r \in comparative /\ between \cap conflicting[r] # {}

RECURSIVE addBetween(_, _, _, _, _)
addBetween(g, lt, r, rt, between) ==
  LET equate(x, y, known) ==        \* the contents of two pointers
        IF ConflictsWith(known, "EQ") THEN Fail(g) ELSE addBetween(g, x, "EQ", y, known)
      contents(x, y) == equate(x, y, relationsBetween(g, x, y))
      proceed(h) == IF r = "PT" THEN h ELSE [setEqual(h, lt, rt) EXCEPT !.changed = TRUE]
      unset(t) == unsetRelated(g, lt, t, rt)
      both == Has(g, lt, "PT") /\ (r = "PT" \/ Has(g, rt, "PT"))
  IN CASE r \in between -> g
       [] r \notin between /\ ConflictsWith(between, r) -> Fail(g)
       [] OTHER ->
     CASE r = "EQ" \/ (r = "PT" /\ both) ->
            proceed(IF both THEN contents(Target(g, lt, "PT"),
                                          IF r = "PT" THEN rt ELSE Target(g, rt, "PT"))
                    ELSE g)
       [] r = "NE" /\ between \cap nonStrict # {} ->
            addBetween(unset(getNonStrict[NearestStrict(between)]),
                       lt, NearestStrict(between), rt, between)
       [] r \in {"SLT", "ULT"} ->
            link(unsetRelated(unset(getNonStrict[r]), lt, "NE", rt), lt, r, rt)
       [] r \in {"SLE", "ULE"} /\ "NE" \in between ->
            addBetween(unset("NE"), lt, getStrict[r], rt, between)
       [] r \in {"SLE", "ULE"} /\ "NE" \notin between /\ inverted[r] \in between ->
            makeEqual(g, getIntersectingNonstrict(g, lt, rt, inverted[r]))
       [] r \in {"SGT", "SGE", "UGT", "UGE", "PF"} ->
            addBetween(g, rt, inverted[r], lt, invert(between))
       [] OTHER -> link(g, lt, r, rt)

addRelation(g, lt, r, rt) ==
  IF {lt, rt} \subseteq Buckets(g)
  THEN addBetween(g, lt, r, rt, relationsBetween(g, lt, rt))
  ELSE Fail(g)

-----------------------------------------------------------------------------
(* Class ValueRelations: the relations between LLVM values.                *)
NoBucket == 0

IsConstant(v) == v[1] = "c"

(* maybeGet, getEqual, getAnyConst.                                        *)
maybeGet(g, v) ==
  IF \E b \in Buckets(g) : v \in ToSet(g.vals[b])
  THEN CHOOSE b \in Buckets(g) : v \in ToSet(g.vals[b])
  ELSE NoBucket

Known(g, v) == maybeGet(g, v) # NoBucket

getEqual(g, v) ==
  IF Known(g, v) THEN g.vals[maybeGet(g, v)] ELSE <<v>>

ConstantsOf(vals) == SelectSeq(vals, IsConstant)

getAnyConst(g, b) == ConstantsOf(g.vals[b])   \* none, or the first one

(* compare: only the signed order is told of two constants.                *)
compare(c, d) ==
  addImplied(IF c[2] < d[2] THEN {"SLT"} ELSE IF c[2] > d[2] THEN {"SGT"} ELSE {"EQ"})

(* The best constant that bounds b by the relation r (SLE: from above,     *)
(* SGE: from below), with what b is to it.                                 *)
NoBound == [c |-> <<>>, rels |-> {}]

BestBound(g, related, r) ==
  FoldLeft(LAMBDA best, x :
             LET cs == getAnyConst(g, x)
             IN IF /\ cs # <<>>
                   /\ best.c # <<>> => r \in compare(cs[1], best.c)
                THEN [c |-> cs[1], rels |-> related[x]] ELSE best,
           NoBound, IdOrder(DOMAIN related))

getBound(g, b, r) == BestBound(g, getRelated(g, b, {r}), r)

(* What a bucket is to a constant that is in no bucket related to it: by   *)
(* the first kind of bound that decides.                                   *)
ByBound(bound, r, c) ==
  IF bound.c # <<>> /\ r \in compare(bound.c, c)
  THEN compose(bound.rels, compare(bound.c, c)) ELSE {}

betweenConstant(g, b, c) ==
  FoldLeft(LAMBDA known, r : IF known # {} THEN known ELSE ByBound(getBound(g, b, r), r, c),
           {}, <<"SLE", "ULE", "SGE", "UGE">>)

betweenConstants(g, b, cs) == IF cs = <<>> THEN {} ELSE betweenConstant(g, b, cs[1])

FirstKnown(fst, snd, thd) == IF fst # {} THEN fst ELSE IF snd # {} THEN snd ELSE thd

betweenBuckets(g, lt, rt) ==
  FirstKnown(relationsBetween(g, lt, rt),
             betweenConstants(g, lt, getAnyConst(g, rt)),
             invert(betweenConstants(g, rt, getAnyConst(g, lt))))

betweenBucketAndValue(g, lt, v) ==
  IF Known(g, v) THEN betweenBuckets(g, lt, maybeGet(g, v))
  ELSE IF IsConstant(v) THEN betweenConstant(g, lt, v) ELSE {}

between(g, v, w) ==
  CASE v = w -> addImplied({"EQ"})
    [] v # w /\ Known(g, v) -> betweenBucketAndValue(g, maybeGet(g, v), w)
    [] v # w /\ ~Known(g, v) /\ Known(g, w) ->
         IF IsConstant(v) THEN invert(betweenConstant(g, maybeGet(g, w), v)) ELSE {}
    [] OTHER -> IF IsConstant(v) /\ IsConstant(w) THEN compare(v, w) ELSE {}

hasConflictingRelation(g, v, w, r) ==
  /\ Known(g, v) /\ Known(g, w)
  /\ haveConflictingRelation(g, maybeGet(g, v), r, maybeGet(g, w))

-----------------------------------------------------------------------------
(* add: the value moves to bucket b.  A constant joins the bucket of an    *)
(* equal constant of another width.                                        *)
Moved(g, v, b) ==
  IF v \in ToSet(g.vals[b]) THEN g
  ELSE [g EXCEPT !.vals = [x \in Buckets(g) |->
                             IF x = b THEN Append(@[x], v) ELSE Remove(@[x], v)],
                 !.changed = TRUE]

joinEqualConstants(g, v, b) ==
  LET equal == {x \in Buckets(g) : /\ getAnyConst(g, x) # <<>>
                                   /\ "EQ" \in compare(v, getAnyConst(g, x)[1])}
  IN IF ~IsConstant(v) \/ equal = {} THEN g
     ELSE addRelation(g, b, "EQ", CHOOSE x \in equal : \A y \in equal : x <= y)

addValue(g, v, b) == joinEqualConstants(Moved(g, v, b), v, b)

(* get: the bucket of a value, made if there is none.                      *)
withBucket(g, v) ==
  IF Known(g, v) THEN g
  ELSE addValue(getNewBucket(g), v, g.last + 1)

relate(g, v, r, w) == addRelation(g, maybeGet(g, v), r, maybeGet(g, w))

set(g, v, r, w) == relate(FoldLeft(withBucket, g, <<v, w>>), v, r, w)

(* set with several relations: the most informative one and, if it does not*)
(* follow from that, one of the unsigned order.                            *)
RelationsToSet(rels) ==
  LET first == get(rels)
      other == rels \cap {"ULT", "ULE", "UGT", "UGE"}
  IN IF other # {} /\ get(other) \notin addImplied({first})
     THEN <<first, get(other)>> ELSE <<first>>

setAll(g, v, rels, w) == FoldLeft(LAMBDA h, r : set(h, v, r, w), g, RelationsToSet(rels))

newPlaceholderBucket(g, b) ==
  IF b # NoBucket /\ Has(g, b, "PT") THEN [g |-> g, b |-> Target(g, b, "PT")]
  ELSE [g |-> getNewBucket(g), b |-> g.last + 1]

-----------------------------------------------------------------------------
(***************************************************************************)
(* merge: the relations of another graph are taken over.                   *)
(***************************************************************************)
(* getCorresponding: the bucket of this graph for bucket b of the other.   *)
(* The values of b, found in several buckets, make these equal; a bucket   *)
(* without values is found by the pointer that points to it.               *)
withContent(p, b) == [g |-> addRelation(p.g, b, "PT", p.b), b |-> p.b]

contentOf(from) ==
  IF from.b = NoBucket THEN from
  ELSE withContent(newPlaceholderBucket(from.g, from.b), from.b)

bucketOf(g, v) == [g |-> g, b |-> maybeGet(g, v), stop |-> FALSE]

makeValueEqual(acc, v, mine) ==
  CASE acc.stop \/ mine = NoBucket \/ mine = acc.b -> acc
    [] ~acc.stop /\ mine # NoBucket /\ acc.b = NoBucket -> [acc EXCEPT !.b = mine]
    [] OTHER -> IF haveConflictingRelation(acc.g, mine, "EQ", acc.b)
                THEN [acc EXCEPT !.b = NoBucket, !.stop = TRUE]
                ELSE bucketOf(addRelation(acc.g, mine, "EQ", acc.b), v)

foundOrNew(found, v) ==
  IF found.stop \/ found.b # NoBucket THEN found ELSE bucketOf(withBucket(found.g, v), v)

RECURSIVE getCorresponding(_, _, _)
getCorresponding(g, other, b) ==
  IF other.vals[b] = <<>>
  THEN IF ~Has(other, b, "PF") THEN [g |-> Fail(g), b |-> NoBucket]
       ELSE contentOf(getCorresponding(g, other, Target(other, b, "PF")))
  ELSE foundOrNew(FoldLeft(LAMBDA acc, v : makeValueEqual(acc, v, maybeGet(acc.g, v)),
                           [g |-> g, b |-> NoBucket, stop |-> FALSE], other.vals[b]),
                  other.vals[b][1])

withValues(mine, vals) ==
  IF mine.b = NoBucket THEN mine
  ELSE [mine EXCEPT !.g = FoldLeft(LAMBDA h, v : addValue(h, v, mine.b), @, vals)]

getAndMerge(g, other, b) == withValues(getCorresponding(g, other, b), other.vals[b])

(* One edge of the other graph.  ok tells whether nothing was in conflict. *)
addMerged(acc, r, to, from) ==
  IF NoBucket \in {to.b, from.b} THEN [g |-> from.g, ok |-> FALSE]
  ELSE IF to.b \notin Buckets(from.g) THEN [g |-> Fail(from.g), ok |-> acc.ok]
  ELSE IF haveConflictingRelation(from.g, from.b, r, to.b) THEN [g |-> from.g, ok |-> FALSE]
  ELSE [g |-> addRelation(from.g, from.b, r, to.b), ok |-> acc.ok]

mergeFrom(acc, other, e, to) == addMerged(acc, e[2], to, getCorresponding(to.g, other, e[1]))

mergeEdge(acc, other, rels, e) ==
  IF e[2] \notin rels \/ (e[2] = "EQ" /\ Len(other.vals[e[3]]) <= 1) THEN acc
  ELSE mergeFrom(acc, other, e, getAndMerge(acc.g, other, e[3]))

merge(g, other, rels) ==
  FoldLeft(LAMBDA acc, e : mergeEdge(acc, other, rels, e), [g |-> g, ok |-> TRUE],
           AllEdges(other, {"EQ", "NE", "SLE", "SLT", "ULE", "ULT", "PT"}))
=============================================================================
