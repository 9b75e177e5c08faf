----------------------------- MODULE MCRelations -----------------------------
(***************************************************************************)
(* Facts about three or four values, and small functions: joins of         *)
(* branches, loops with a counter, aliases, arithmetic at the ends of the  *)
(* range.                                                                  *)
(***************************************************************************)
EXTENDS RelationsSoundness

I(k) == <<"i", k>>
K(n) == <<"c", n, Width>>

alloca == [op |-> "alloca"]
nondet == [op |-> "nondet"]
store(v, p) == [op |-> "store", val |-> v, ptr |-> p]
load(p) == [op |-> "load", ptr |-> p]
loadp(p) == [op |-> "load", ptr |-> p, pointer |-> TRUE]
bin(o, a, b) == [op |-> o, a |-> a, b |-> b]
nsw(o, a, b) == [op |-> o, a |-> a, b |-> b, nsw |-> TRUE]
icmp(p, a, b) == [op |-> "icmp", pred |-> p, a |-> a, b |-> b]
br(t) == [op |-> "br", to |-> t]
condbr(c, t, f) == [op |-> "condbr", cond |-> c, t |-> t, f |-> f]
ret == [op |-> "ret"]

Preds == {"EQ", "NE", "SLE", "SLT", "SGE", "SGT"}

Branch ==
  {<<alloca, nondet, icmp("SLT", I(2), K(0)), condbr(3, 5, 7), store(K(a), I(1)), br(9),
     store(K(b), I(1)), br(9), load(I(1)), ret>> : a \in {0, 1}, b \in {0, -1}}
  \cup
  {<<alloca, nondet, nondet, icmp(p, I(2), I(3)), condbr(4, 6, 8), store(I(2), I(1)), br(10),
     store(I(3), I(1)), br(10), load(I(1)), ret>> : p \in {"SLT", "SGE", "NE"}}

Loop ==
  {<<alloca, nondet, store(K(a), I(1)), br(5), load(I(1)), icmp(p, I(5), I(2)),
     condbr(6, 8, 12), load(I(1)), nsw(o, I(8), K(1)), store(I(9), I(1)), br(5),
     load(I(1)), ret>> : a \in {0, 1}, p \in {"SLT", "SLE", "NE"}, o \in {"add", "sub"}}
  \cup
  {<<alloca, nondet, store(K(0), I(1)), br(5), load(I(1)), icmp("SLT", I(5), I(2)),
     condbr(6, 8, 16), icmp("EQ", I(2), K(1)), condbr(8, 10, 14), load(I(1)),
     nsw("add", I(10), K(1)), store(I(11), I(1)), br(15), br(15), br(5), load(I(1)), ret>>}

Alias ==
  {<<alloca, alloca, store(I(1), I(2)), store(K(1), I(1)), loadp(I(2)), store(K(0), I(5)),
     load(I(1)), ret>>,
   <<alloca, alloca, alloca, nondet, store(K(1), I(1)), icmp("SLT", I(4), K(0)),
     condbr(6, 8, 10), store(I(1), I(3)), br(12), store(I(2), I(3)), br(12), loadp(I(3)),
     store(K(0), I(12)), load(I(1)), ret>>}

Shift ==
  {<<nondet, icmp(p, I(1), K(c)), condbr(2, 4, 6), bin(o, I(1), K(1)), ret, ret>>
     : p \in Preds, c \in {-2, 0, 1}, o \in {"add", "sub"}}

Arithmetic ==
  {<<nondet, nondet, icmp("SLT", K(0), I(2)), condbr(3, 5, 9), icmp(p, I(2), I(1)),
     condbr(5, 7, 9), bin("sub", I(1), I(2)), ret, ret>> : p \in {"SLE", "SLT", "EQ", "SGE"}}
  \cup
  {<<nondet, nondet, bin(o, I(1), I(2)), icmp("EQ", I(1), I(2)), condbr(4, 6, 8),
     bin(o, I(2), I(1)), ret, bin(o, I(2), I(1)), ret>> : o \in {"add", "sub", "mul"}}
  \cup
  {<<nondet, icmp(p, I(1), K(0)), condbr(2, 4, 6), bin("srem", I(1), K(1)), ret, ret>>
     : p \in {"SGE", "SLT"}}

Twice ==
  {<<nondet, nondet, icmp(p, I(1), I(2)), condbr(3, 5, 7), icmp(q, I(1), I(2)),
     condbr(5, 7, 7), ret>> : p, q \in Preds}

MCPrograms == Branch \cup Loop \cup Alias \cup Shift \cup Arithmetic \cup Twice

Pairs(S, R) == UNION {{<<v, r, w>> : r \in R, w \in S \ {v}} : v \in S}

MCVocabularies ==
  {Pairs({I(1), I(2), I(3)}, {"SLE", "SLT"})
     \cup {<<I(1), "EQ", I(2)>>, <<I(1), "NE", I(3)>>},
   Pairs({I(1), I(2), I(3)}, {"ULT"})
     \cup {<<I(1), "SLE", I(2)>>, <<I(2), "SLT", I(3)>>, <<I(3), "ULE", I(1)>>},
   {<<I(1), "SLE", I(2)>>, <<I(2), "SLT", I(1)>>, <<I(1), "SGE", K(1)>>, <<I(2), "EQ", K(1)>>,
    <<I(2), "SLE", <<"c", 0, Width + 1>>>>, <<I(1), "NE", K(0)>>, <<I(2), "ULT", K(1)>>},
   {<<I(1), "PT", I(3)>>, <<I(2), "PT", I(4)>>, <<I(1), "EQ", I(2)>>, <<I(1), "NE", I(2)>>,
    <<I(3), "SLE", I(4)>>, <<I(4), "SLE", I(3)>>, <<I(3), "SLT", I(4)>>, <<I(3), "NE", I(4)>>}}
=============================================================================
