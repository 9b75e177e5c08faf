---------------------------- MODULE MCMemorySSA -----------------------------
(* Small programs for memory SSA. *)
EXTENDS MemorySSASoundness

CONSTANTS G, P     \* a global object and a local one of main whose address is passed on

Node == [defs |-> {}, overs |-> {}, uses |-> {}, callees |-> <<>>, ret |-> FALSE]
Over(t, a, z) == [Node EXCEPT !.overs = {Site(t, a, z)}]
Weak(t, a, z) == [Node EXCEPT !.defs = {Site(t, a, z)}]
Read(t, a, z) == [Node EXCEPT !.uses = {Site(t, a, z)}]
Calls(cs)     == [Node EXCEPT !.callees = cs]
Ret           == [Node EXCEPT !.ret = TRUE]

B(f, ns, preds, succs) == [proc |-> f, nodes |-> ns, preds |-> preds, succs |-> succs]

Prog(ns, bs) ==
  [nodes |-> ns, blocks |-> bs, procs |-> {"main", "f", "g"}, main |-> "main",
   escapes |-> {G}, owner |-> (P :> "main")]

Writes == {Node, Over(G, 0, 0), Over(G, 0, 1), Weak(G, 0, 1), Over(P, 0, 1)}
WritesOrUnknown == Writes \cup {Weak(UNKNOWN_MEMORY, 0, 1)}

Whole == {Read(G, 0, 1), Read(P, 0, 1)}
ReadsOrUnknown == {Read(G, 0, 1), Read(G, 1, 1), Read(UNKNOWN_MEMORY, 0, 1)}

(* One procedure: two blocks, a branch, a branch in a loop. *)
Straight ==
  {Prog(<<w1, w2, r1, w3, r2>>,
        <<B("main", <<1, 2>>, <<>>, <<2>>), B("main", <<3, 4, 5>>, <<1>>, <<>>)>>) :
     w1 \in WritesOrUnknown, w2 \in WritesOrUnknown, w3 \in WritesOrUnknown,
     r1 \in ReadsOrUnknown, r2 \in ReadsOrUnknown}

Diamond ==
  {Prog(<<w1, w2, r1, w3, r2>>,
        <<B("main", <<1>>, <<>>, <<2, 3>>), B("main", <<2>>, <<1>>, <<4>>),
          B("main", <<>>, <<1>>, <<4>>), B("main", <<3, 4, 5>>, <<2, 3>>, <<>>)>>) :
     w1 \in WritesOrUnknown, w2 \in WritesOrUnknown, w3 \in WritesOrUnknown,
     r1 \in ReadsOrUnknown, r2 \in ReadsOrUnknown}

Loop ==
  {Prog(<<w1, r1, w2, w3, r2>>,
        <<B("main", <<1>>, <<>>, <<2>>), B("main", <<2>>, <<1, 5>>, <<3, 4>>),
          B("main", <<3>>, <<2>>, <<5>>), B("main", <<>>, <<2>>, <<5>>),
          B("main", <<4>>, <<3, 4>>, <<2, 6>>), B("main", <<5>>, <<5>>, <<>>)>>) :
     w1 \in WritesOrUnknown, w2 \in WritesOrUnknown, w3 \in WritesOrUnknown,
     r1 \in ReadsOrUnknown, r2 \in ReadsOrUnknown}

(* An object of four bytes that is written in pieces: a read between a *)
(* branch and writes that leave a gap, then another one, in a loop.    *)
Pieces ==
  {Prog(<<w1, w2, r1, w3, w4, r2>>,
        <<B("main", <<1>>, <<>>, <<2, 3>>), B("main", <<2>>, <<1>>, <<4>>),
          B("main", <<>>, <<1>>, <<4>>), B("main", <<3, 4, 5>>, <<2, 3, 5>>, <<5>>),
          B("main", <<6>>, <<4>>, <<4>>)>>) :
     w1 \in {Over(G, 0, 3), Over(G, 2, 2)}, w2 \in {Over(G, 1, 2), Weak(G, 0, 3)},
     w3 \in {Node, Over(G, 0, 0), Weak(G, 0, 0), Weak(UNKNOWN_MEMORY, 0, 1)},
     w4 \in {Node, Over(G, 3, 3), Over(G, 0, 3)},
     r1 \in {Read(G, 0, 1), Read(G, 1, 2)},
     r2 \in {Read(G, 0, 1), Read(G, 2, 2), Read(G, 0, 3), Read(UNKNOWN_MEMORY, 0, 1)}}

(* A procedure that is called twice, in a loop, or maybe; one that calls *)
(* itself, and (not in SmallPrograms) two that call each other.          *)
CallF == Calls(<<Procedure("f")>>)
CallG == Calls(<<Procedure("g")>>)

TwoCalls ==
  {Prog(<<w1, CallF, r1, w2, CallF, r2, r3, w3, Ret>>,
        <<B("main", <<1, 2, 3, 4, 5, 6>>, <<>>, <<>>), B("f", <<7, 8, 9>>, <<>>, <<>>)>>) :
     w1 \in Writes, w2 \in Writes, w3 \in Writes, r1 \in Whole, r2 \in Whole, r3 \in Whole}

CallInLoop ==
  {Prog(<<w1, CallF, w2, r1, r2, w3, Ret>>,
        <<B("main", <<1>>, <<>>, <<2>>), B("main", <<2, 3>>, <<1, 2>>, <<2, 3>>),
          B("main", <<4>>, <<2>>, <<>>), B("f", <<5, 6, 7>>, <<>>, <<>>)>>) :
     w1 \in Writes, w2 \in Writes, w3 \in Writes, r1 \in Whole, r2 \in Whole}

TwoCallees ==
  {Prog(<<w1, Calls(<<Procedure("f"), Model(3)>>), w2, r1, r2, w3, Ret>>,
        <<B("main", <<1, 2, 4>>, <<>>, <<>>), B("f", <<5, 6, 7>>, <<>>, <<>>)>>) :
     w1 \in Writes, w2 \in Writes, w3 \in Writes, r1 \in Whole, r2 \in Whole}

Recursion ==
  {Prog(<<w1, CallF, r1, r2, w2, CallF, r3, w3, Ret>>,
        <<B("main", <<1, 2, 3>>, <<>>, <<>>), B("f", <<4>>, <<>>, <<3, 4>>),
          B("f", <<5, 6, 7>>, <<2>>, <<4>>), B("f", <<8, 9>>, <<2, 3>>, <<>>)>>) :
     w1 \in Writes, w2 \in Writes, w3 \in Writes, r1 \in Whole, r2 \in Whole, r3 \in Whole}

Mutual ==
  {Prog(<<w1, CallF, r1, CallG, r2, w2, CallG, Ret, CallF, w3, Ret>>,
        <<B("main", <<1, 2, 3, 4, 5>>, <<>>, <<>>), B("f", <<>>, <<>>, <<3, 4>>),
          B("f", <<6, 7>>, <<2>>, <<4>>), B("f", <<8>>, <<2, 3>>, <<>>),
          B("g", <<>>, <<>>, <<6, 7>>), B("g", <<9>>, <<5>>, <<7>>),
          B("g", <<10, 11>>, <<5, 6>>, <<>>)>>) :
     w1 \in Writes, w2 \in Writes, w3 \in Writes, r1 \in Whole, r2 \in Whole}

SmallPrograms == Straight \cup Diamond \cup Loop \cup Pieces \cup TwoCalls \cup CallInLoop
                   \cup TwoCallees \cup Recursion
====
