--------------------------- MODULE MCLLVMPointers ---------------------------
(***************************************************************************)
(* Small LLVM modules, each with the constructs that pass pointers on in   *)
(* ways of their own.                                                      *)
(***************************************************************************)
EXTENDS LLVMPointerSoundness

I(op, args)    == [op |-> op, args |-> args, k |-> 0, fun |-> "none"]
IK(op, args, k) == [op |-> op, args |-> args, k |-> k, fun |-> "none"]
C(fun, args)   == [op |-> "call", args |-> args, k |-> 0, fun |-> fun]
CK(fun, args, k) == [op |-> "call", args |-> args, k |-> k, fun |-> fun]

B(ins, succ) == [ins |-> ins, succ |-> succ]
F(args, blocks) == [args |-> args, vararg |-> FALSE, blocks |-> blocks]
V(args, blocks) == [args |-> args, vararg |-> TRUE, blocks |-> blocks]

Library == [f \in {"malloc", "calloc", "realloc", "memcpy", "memset", "vastart",
                   "undef", "void"} |-> f]

NoExpr == [e \in {} |-> e]

(* Two functions with different numbers of arguments, called via a pointer *)
(* that a branch decides on; one calls a third function, which has two     *)
(* returns.                                                                *)
Pointed ==
  [fun |->
     [main |-> F(<<>>, <<B(<<"a", "fp", "br1">>, <<2, 3>>),
                         B(<<"s1", "br2">>, <<4>>), B(<<"s2", "br3">>, <<4>>),
                         B(<<"h", "c", "st", "ret">>, <<>>)>>),
      one  |-> F(<<"x">>, <<B(<<"c1", "r1">>, <<>>)>>),
      two  |-> F(<<"y", "z">>, <<B(<<"m", "s3", "r2">>, <<>>)>>),
      three |-> F(<<"w">>, <<B(<<"b", "br4">>, <<2, 3>>),
                             B(<<"r3">>, <<>>), B(<<"l3", "r4">>, <<>>)>>)],
   decl |-> Library,
   glob |-> <<[name |-> "G", size |-> 2, init |-> <<>>]>>,
   expr |-> [G1 |-> [op |-> "gep", arg |-> "G", k |-> 1]],
   ins |->
     [a |-> IK("alloca", <<>>, 1), fp |-> IK("alloca", <<>>, 1),
      br1 |-> I("br", <<>>), br2 |-> I("br", <<>>), br3 |-> I("br", <<>>),
      s1 |-> I("store", <<"one", "fp">>), s2 |-> I("store", <<"two", "fp">>),
      h |-> I("load", <<"fp">>), c |-> C("h", <<"a", "G1">>),
      st |-> I("store", <<"int", "c">>), ret |-> I("ret", <<>>),
      c1 |-> C("three", <<"x">>), r1 |-> I("ret", <<"c1">>),
      m |-> CK("malloc", <<"int">>, 1), s3 |-> I("store", <<"y", "z">>),
      r2 |-> I("ret", <<"m">>),
      b |-> IK("gep", <<"w">>, 0), br4 |-> I("br", <<>>),
      r3 |-> I("ret", <<"b">>), l3 |-> I("bitcast", <<"G1">>),
      r4 |-> I("ret", <<"l3">>)]]

(* A called function puts another one into the variable that holds the     *)
(* pointer, which the next round of the loop calls.                        *)
Late ==
  [fun |->
     [main |-> F(<<>>, <<B(<<"fp", "s0", "br0">>, <<2>>),
                         B(<<"h", "c", "br1">>, <<2, 3>>),
                         B(<<"s1", "ret">>, <<>>)>>),
      one  |-> F(<<"x">>, <<B(<<"s2", "r1">>, <<>>)>>),
      two  |-> F(<<"y", "z">>, <<B(<<"s3", "c2", "r2">>, <<>>)>>),
      three |-> F(<<"w">>, <<B(<<"m", "s4", "r3">>, <<>>)>>)],
   decl |-> Library,
   glob |-> <<[name |-> "G", size |-> 2, init |-> <<>>]>>, expr |-> NoExpr,
   ins |->
     [fp |-> IK("alloca", <<>>, 1), s0 |-> I("store", <<"one", "fp">>),
      br0 |-> I("br", <<>>), br1 |-> I("br", <<>>),
      h |-> I("load", <<"fp">>), c |-> C("h", <<"fp", "G">>),
      s1 |-> I("store", <<"int", "c">>), ret |-> I("ret", <<>>),
      s2 |-> I("store", <<"two", "x">>), r1 |-> I("ret", <<"x">>),
      s3 |-> I("store", <<"three", "y">>), c2 |-> C("three", <<"z">>),
      r2 |-> I("ret", <<"c2">>),
      m |-> CK("malloc", <<"int">>, 1), s4 |-> I("store", <<"m", "w">>),
      r3 |-> I("ret", <<"m">>)]]

(* A function that calls itself, with a local variable of its own, and     *)
(* returns it or what the inner call returns.                              *)
Recursive ==
  [fun |->
     [main |-> F(<<>>, <<B(<<"a", "i", "c", "l", "st", "ret">>, <<>>)>>),
      rec |-> F(<<"x">>, <<B(<<"n", "s", "br">>, <<2, 3>>),
                           B(<<"c1", "s1", "r1">>, <<>>),
                           B(<<"l1", "r2">>, <<>>)>>)],
   decl |-> Library, glob |-> <<>>, expr |-> NoExpr,
   ins |->
     [a |-> IK("alloca", <<>>, 1), i |-> I("store", <<"a", "a">>),
      c |-> C("rec", <<"a">>),
      l |-> I("load", <<"c">>), st |-> I("store", <<"int", "l">>),
      ret |-> I("ret", <<>>),
      n |-> CK("malloc", <<"int">>, 1), s |-> I("store", <<"x", "n">>),
      br |-> I("br", <<>>),
      c1 |-> C("rec", <<"n">>), s1 |-> I("store", <<"n", "c1">>),
      r1 |-> I("ret", <<"c1">>),
      l1 |-> I("load", <<"n">>), r2 |-> I("ret", <<"l1">>)]]

(* Variadic arguments.                                                     *)
Variadic ==
  [fun |->
     [main |-> F(<<>>, <<B(<<"a", "b", "c", "st", "ret">>, <<>>)>>),
      v |-> V(<<"x">>, <<B(<<"list", "va", "l", "e1", "g", "e2", "br">>, <<2, 3>>),
                         B(<<"s1", "r1">>, <<>>), B(<<"s2", "r2">>, <<>>)>>)],
   decl |-> Library, glob |-> <<>>, expr |-> NoExpr,
   ins |->
     [a |-> IK("alloca", <<>>, 1), b |-> IK("alloca", <<>>, 1),
      c |-> C("v", <<"a", "b", "a">>), st |-> I("store", <<"int", "c">>),
      ret |-> I("ret", <<>>),
      list |-> IK("alloca", <<>>, 1), va |-> C("vastart", <<"list">>),
      l |-> I("load", <<"list">>), e1 |-> I("load", <<"l">>),
      g |-> IK("gep", <<"l">>, 1), e2 |-> I("load", <<"g">>),
      br |-> I("br", <<>>),
      s1 |-> I("store", <<"x", "e1">>), r1 |-> I("ret", <<"e1">>),
      s2 |-> I("store", <<"x", "e2">>), r2 |-> I("ret", <<"e2">>)]]

(* A list built in a loop, and walked.                                     *)
List ==
  [fun |->
     [main |-> F(<<>>, <<B(<<"hd", "s0", "br1">>, <<2>>),
                         B(<<"n", "o", "s1", "s2", "br2">>, <<2, 3>>),
                         B(<<"f", "br3">>, <<4>>),
                         B(<<"p", "nx", "br4">>, <<4, 5>>),
                         B(<<"g", "s3", "ret">>, <<>>)>>)],
   decl |-> Library, glob |-> <<>>, expr |-> NoExpr,
   ins |->
     [hd |-> IK("alloca", <<>>, 1), s0 |-> I("store", <<"null", "hd">>),
      br1 |-> I("br", <<>>), br2 |-> I("br", <<>>), br3 |-> I("br", <<>>),
      br4 |-> I("br", <<>>),
      n |-> CK("malloc", <<"int">>, 2), o |-> I("load", <<"hd">>),
      s1 |-> I("store", <<"o", "n">>), s2 |-> I("store", <<"n", "hd">>),
      f |-> I("load", <<"hd">>), p |-> I("phi", <<"f", "nx">>),
      nx |-> I("load", <<"p">>),
      g |-> IK("gep", <<"p">>, 1), s3 |-> I("store", <<"int", "g">>),
      ret |-> I("ret", <<>>)]]

(* Initialised globals, constant expressions, and a call through a table.  *)
Globals ==
  [fun |->
     [main |-> F(<<>>, <<B(<<"p", "q", "br1">>, <<2, 3>>),
                         B(<<"s1", "br2">>, <<3>>),
                         B(<<"fp", "c", "l", "s2", "ret">>, <<>>)>>),
      set |-> F(<<"x", "y">>, <<B(<<"m", "z", "s3", "r">>, <<>>)>>)],
   decl |-> Library,
   glob |-> <<[name |-> "G", size |-> 3,
               init |-> <<<<0, "H1">>, <<1, "set">>, <<2, "HI">>>>],
              [name |-> "H", size |-> 2, init |-> <<<<0, "G2">>, <<1, "null">>>>]>>,
   expr |-> [H1 |-> [op |-> "gep", arg |-> "H", k |-> 1],
             G1 |-> [op |-> "add", arg |-> "G", k |-> 1],
             G2 |-> [op |-> "arithmetic", arg |-> "G", k |-> 2],
             HC |-> [op |-> "cast", arg |-> "H", k |-> 0],
             HI |-> [op |-> "inttoptr", arg |-> "HC", k |-> 0]],
   ins |->
     [p |-> I("load", <<"G">>), q |-> I("load", <<"HC">>),
      br1 |-> I("br", <<>>), br2 |-> I("br", <<>>),
      s1 |-> I("store", <<"H1", "q">>),
      fp |-> I("load", <<"G1">>), c |-> C("fp", <<"p", "q">>),
      l |-> I("load", <<"H1">>), s2 |-> I("store", <<"int", "l">>),
      ret |-> I("ret", <<>>),
      m |-> CK("calloc", <<"int">>, 1), z |-> I("load", <<"m">>),
      s3 |-> I("store", <<"m", "x">>), r |-> I("ret", <<"y">>)]]

(* Memory that is copied, moved, set and passed to unknown code.           *)
Copying ==
  [fun |->
     [main |-> F(<<>>, <<B(<<"a", "b", "s1", "b1", "s2", "cp", "l1", "a1", "l2",
                             "m", "s3", "rl", "l3", "u", "br1">>, <<2, 3>>),
                         B(<<"s4", "br2">>, <<4>>),
                         B(<<"ms", "l4", "br3">>, <<4>>),
                         B(<<"v", "l5", "ret">>, <<>>)>>)],
   decl |-> Library,
   glob |-> <<[name |-> "G", size |-> 1, init |-> <<>>]>>, expr |-> NoExpr,
   ins |->
     [a |-> IK("alloca", <<>>, 2), b |-> IK("alloca", <<>>, 2),
      s1 |-> I("store", <<"G", "b">>), b1 |-> IK("gep", <<"b">>, 1),
      s2 |-> I("store", <<"a", "b1">>), cp |-> CK("memcpy", <<"a", "b">>, 2),
      l1 |-> I("load", <<"a">>), a1 |-> IK("gep", <<"a">>, 1),
      l2 |-> I("load", <<"a1">>),
      m |-> CK("malloc", <<"int">>, 1), s3 |-> I("store", <<"l2", "m">>),
      rl |-> CK("realloc", <<"m">>, 2), l3 |-> I("load", <<"rl">>),
      u |-> C("undef", <<"l3", "int">>),
      br1 |-> I("br", <<>>), br2 |-> I("br", <<>>), br3 |-> I("br", <<>>),
      s4 |-> I("store", <<"u", "l3">>),
      ms |-> CK("memset", <<"a", "null">>, 2), l4 |-> I("load", <<"a">>),
      v |-> C("void", <<"b1">>), l5 |-> I("load", <<"a">>),
      ret |-> I("ret", <<>>)]]

(* Pointers as integers, in vectors, exchanged and chosen.                 *)
Disguised ==
  [fun |->
     [main |-> F(<<>>, <<B(<<"a", "b", "s", "ti", "ad", "tp", "st", "br1">>, <<2, 3>>),
                         B(<<"v1", "v2", "e1", "br2">>, <<4>>),
                         B(<<"w1", "w2", "e2", "br3">>, <<4>>),
                         B(<<"ph", "sl", "x", "l", "ar", "s5", "ret">>, <<>>)>>)],
   decl |-> Library, glob |-> <<>>, expr |-> NoExpr,
   ins |->
     [a |-> IK("alloca", <<>>, 3), b |-> IK("alloca", <<>>, 1),
      s |-> I("store", <<"a", "b">>),
      ti |-> I("ptrtoint", <<"a">>), ad |-> IK("add", <<"ti">>, 2),
      tp |-> I("inttoptr", <<"ad">>), st |-> I("store", <<"b", "tp">>),
      br1 |-> I("br", <<>>), br2 |-> I("br", <<>>), br3 |-> I("br", <<>>),
      v1 |-> IK("insertelement", <<"undef", "tp">>, 0),
      v2 |-> IK("insertelement", <<"v1", "b">>, 1),
      e1 |-> IK("extractelement", <<"v2">>, 0),
      w1 |-> IK("insertelement", <<"undef", "a">>, 1),
      w2 |-> IK("insertelement", <<"w1", "null">>, 0),
      e2 |-> IK("extractelement", <<"w2">>, 1),
      ph |-> I("phi", <<"e1", "e2">>), sl |-> I("select", <<"ph", "b">>),
      x |-> I("atomicrmw", <<"b", "sl">>), l |-> I("load", <<"b">>),
      ar |-> IK("arithmetic", <<"a">>, 1), s5 |-> I("store", <<"x", "ar">>),
      ret |-> I("ret", <<>>)]]

(* Aggregates and vectors returned from functions, called directly and via *)
(* a pointer.                                                              *)
Aggregates ==
  [fun |->
     [main |-> F(<<>>, <<B(<<"a", "b", "f", "c", "e", "x", "s1", "d", "g", "s2", "ret">>, <<>>)>>),
      pair |-> F(<<"x1", "y1">>, <<B(<<"p", "p1", "s3", "s4", "v", "r1">>, <<>>)>>),
      swap |-> F(<<"x2", "y2">>, <<B(<<"c2", "e0", "e1", "q", "q1", "s5", "s6", "w", "r2">>, <<>>)>>),
      vec |-> F(<<"z">>, <<B(<<"v1", "v2", "r3">>, <<>>)>>)],
   decl |-> Library, glob |-> <<>>, expr |-> NoExpr,
   ins |->
     [a |-> IK("alloca", <<>>, 1), b |-> IK("alloca", <<>>, 1),
      f |-> I("select", <<"pair", "swap">>), c |-> C("f", <<"a", "b">>),
      e |-> IK("extractvalue", <<"c">>, 0), x |-> IK("extractvalue", <<"c">>, 1),
      s1 |-> I("store", <<"e", "x">>), d |-> C("vec", <<"e">>),
      g |-> IK("extractelement", <<"d">>, 1), s2 |-> I("store", <<"x", "g">>),
      ret |-> I("ret", <<>>),
      p |-> IK("alloca", <<>>, 2), p1 |-> IK("gep", <<"p">>, 1),
      s3 |-> I("store", <<"x1", "p">>), s4 |-> I("store", <<"y1", "p1">>),
      v |-> I("loadvalue", <<"p">>), r1 |-> I("retvalue", <<"v">>),
      c2 |-> C("pair", <<"y2", "x2">>),
      e0 |-> IK("extractvalue", <<"c2">>, 0), e1 |-> IK("extractvalue", <<"c2">>, 1),
      q |-> IK("alloca", <<>>, 2), q1 |-> IK("gep", <<"q">>, 1),
      s5 |-> I("store", <<"e1", "q">>), s6 |-> I("store", <<"e0", "q1">>),
      w |-> I("loadvalue", <<"q">>), r2 |-> I("retvalue", <<"w">>),
      v1 |-> IK("insertelement", <<"undef", "z">>, 0),
      v2 |-> IK("insertelement", <<"v1", "z">>, 1), r3 |-> I("retvector", <<"v2">>)]]

(* Undefined functions called via a pointer.                               *)
Undefined ==
  [fun |->
     [main |-> F(<<>>, <<B(<<"f", "c", "s1", "l", "ret">>, <<>>)>>)],
   decl |-> Library, glob |-> <<>>, expr |-> NoExpr,
   ins |->
     [f |-> I("select", <<"malloc", "calloc">>),
      c |-> CK("f", <<"int", "int">>, 1), s1 |-> I("store", <<"c", "c">>),
      l |-> I("load", <<"c">>), ret |-> I("ret", <<>>)]]

(* A module with other instructions in the place of i and j.               *)
With(M, i, S, j, T) == {[M EXCEPT !.ins[i] = x, !.ins[j] = y] : x \in S, y \in T}

Many(Ms, i, S, j, T) == UNION {With(M, i, S, j, T) : M \in Ms}

MCModules ==
  Many(With(Pointed, "c", {C("h", <<"a", "G1">>), C("h", <<"G1", "a">>), C("h", <<"G", "fp">>)},
                     "b", {IK("gep", <<"w">>, 0), IK("gep", <<"w">>, 1), IK("alloca", <<>>, 1)}),
       "r1", {I("ret", <<"c1">>), I("ret", <<"x">>)},
       "s3", {I("store", <<"y", "z">>), I("store", <<"m", "y">>), I("store", <<"two", "z">>)})
  \cup With(Late, "s3", {I("store", <<"three", "y">>), I("store", <<"two", "y">>),
                         I("store", <<"one", "y">>)},
                  "c2", {C("three", <<"z">>), C("three", <<"y">>), IK("gep", <<"z">>, 1)})
  \cup Many(With(Recursive, "n", {CK("malloc", <<"int">>, 1), IK("alloca", <<>>, 1)},
                            "c1", {C("rec", <<"n">>), C("rec", <<"x">>)}),
            "r1", {I("ret", <<"c1">>), I("ret", <<"x">>)},
            "r2", {I("ret", <<"l1">>), I("ret", <<"n">>)})
  \cup With(Variadic, "c", {C("v", <<"a">>), C("v", <<"a", "b">>), C("v", <<"a", "b", "a">>)},
                      "s1", {I("store", <<"x", "e1">>), I("store", <<"e1", "x">>)})
  \cup Many(With(List, "n", {CK("malloc", <<"int">>, 2), CK("calloc", <<"int">>, 2)},
                       "s1", {I("store", <<"o", "n">>), I("store", <<"hd", "n">>)}),
            "s2", {I("store", <<"n", "hd">>), I("store", <<"n", "n">>)},
            "nx", {I("load", <<"p">>), IK("gep", <<"p">>, 1), IK("add", <<"p">>, 1)})
  \cup Many(With(Globals, "s1", {I("store", <<"H1", "q">>), I("store", <<"p", "q">>)},
                          "c", {C("fp", <<"p", "q">>), C("fp", <<"q", "p">>), C("fp", <<"p">>)}),
            "s3", {I("store", <<"m", "x">>), I("store", <<"x", "y">>)},
            "fp", {I("load", <<"G1">>), I("load", <<"G">>)})
  \cup Many(With(Copying, "cp", {CK("memcpy", <<"a", "b">>, 2), CK("memcpy", <<"a", "b">>, 1),
                                 CK("memcpy", <<"b", "a">>, 2)},
                          "m", {CK("malloc", <<"int">>, 1), CK("calloc", <<"int">>, 2)}),
            "s4", {I("store", <<"u", "l3">>), I("store", <<"int", "u">>)},
            "v", {C("void", <<"b1">>), CK("memcpy", <<"rl", "a">>, 1), CK("realloc", <<"rl">>, 1)})
  \cup Many(With(Disguised, "ad", {IK("add", <<"ti">>, 2), IK("arithmetic", <<"ti">>, 1)},
                            "v2", {IK("insertelement", <<"v1", "b">>, 1),
                                   IK("insertelement", <<"v1", "b">>, 0)}),
            "sl", {I("select", <<"ph", "b">>), I("phi", <<"tp", "e2">>)},
            "s5", {I("store", <<"x", "ar">>), I("store", <<"l", "ar">>)})
  \cup With(Copying, "ms", {CK("memset", <<"a", "null">>, 2), CK("memset", <<"b", "int">>, 1)},
                     "l4", {I("load", <<"a">>), I("load", <<"b">>)})
  \cup With(Aggregates, "c", {C("f", <<"a", "b">>), C("swap", <<"a", "b">>)},
                        "r2", {I("retvalue", <<"w">>), I("retvalue", <<"c2">>)})
  \cup {Undefined}

=============================================================================
