---- MODULE MCInterproceduralCD ----
(* Model checking of class LLVMControlDependenceAnalysis. *)
EXTENDS InterproceduralCD

NoCalls == [b \in Block |-> <<>>]
NoEdges == [b \in Block |-> {}]

(* Call graphs: every function has one block that matters, with up to two *)
(* calls, one of them of function 2; a call through a pointer may have    *)
(* two targets.  Function 3 has at most one call, or ends the program.    *)
Direct == {<<>>} \cup {<<{g}>> : g \in Fun}
Two == {<<T>> : T \in {S \in SUBSET Fun : Cardinality(S) = 2}}
         \cup {<<{2}, {g}>> : g \in Fun \ {2}} \cup {<<{g}, {2}>> : g \in Fun \ {2}}

CallGraphs ==
  {[succ  |-> [f \in Fun |-> NoEdges],
    calls |-> [f \in Fun |-> [NoCalls EXCEPT ![1] = <<c, d, e[1]>>[f]]],
    exits |-> [f \in Fun |-> IF f = F THEN e[2] ELSE {}]] :
     c \in Two, d \in Direct \cup {<<{1, 3}>>}, e \in Direct \X {{}} \cup {<<<<>>, {1}>>}}

(* Control-flow graphs with all blocks reachable and no edge to the first. *)
Rooted ==
  {h \in [Block -> {A \in SUBSET (Block \ {1}) : Cardinality(A) <= 2}] :
     h[1] \in {{2}, {2, 3}} /\ (3 \in h[1] \/ 3 \in h[2]) /\ (4 \in h[2] \/ 4 \in h[3])}

(* Function 1 calls function 2, which may not return, or function 3, which *)
(* does, or both. *)
Flow ==
  {[succ  |-> [f \in Fun |-> IF f = 1 THEN g ELSE NoEdges],
    calls |-> [f \in Fun |-> IF f = 1 THEN [NoCalls EXCEPT ![1] = <<{3}, {2, 3}, {2}>>,
                                                          ![2] = <<{2}, {3}>>, ![3] = <<{3}>>]
                                      ELSE NoCalls],
    exits |-> [f \in Fun |-> IF f = 2 THEN {1} ELSE {}]] :
     g \in {h \in Rooted : h[4] \subseteq {2} /\ h[3] \subseteq {2, 4}}}

(* Function 1 calls declared functions only. *)
Graphs ==
  {[succ  |-> [f \in Fun |-> IF f = 1 THEN g ELSE NoEdges],
    calls |-> [f \in Fun |-> IF f = 1 THEN [NoCalls EXCEPT ![2] = <<{}>>] ELSE NoCalls],
    exits |-> [f \in Fun |-> {}]] : g \in {h \in Rooted : h[1] = {2, 3} /\ h[4] \subseteq {2}}}

(* Whole modules: function 1 calls function 2 in one block, and function 2 *)
(* function 3, which may end the program. *)
Diamond == <<{2, 3}, {4}, {4}, {}>>
Loop    == <<{2}, {3, 4}, {2}, {}>>
Fork    == <<{2, 3}, {}, {}, {}>>

Inline ==
  {[succ  |-> [f \in Fun |-> <<g, Fork, Fork>>[f]],
    calls |-> [f \in Fun |-> CASE f = 1 -> [NoCalls EXCEPT ![k] = c]
                              [] f = 2 -> [NoCalls EXCEPT ![j] = <<{3}>>]
                              [] f = 3 -> NoCalls],
    exits |-> [f \in Fun |-> IF f = 3 THEN X ELSE {}]] :
     g \in {Diamond, Loop, <<{2, 3}, {3}, {2}, {}>>}, k \in {1, 3},
     c \in {<<{2}>>, <<{}>>, <<{2, 3}>>}, j \in {1, 2}, X \in {{}, {2}, {2, 3}}}

AllPrograms == CallGraphs \cup Flow \cup Graphs \cup Inline

(* The standard relation for functions that can end from everywhere. *)
Ending(p) ==
  \A b \in Block :
    LET r[k \in 0 .. B] == IF k = 0 THEN {b} ELSE r[k - 1] \cup UNION {p.succ[1][c] : c \in r[k - 1]}
    IN  \E c \in r[B] : p.succ[1][c] = {}

OptionSet(algs, instrs, icfgs, interprocs) ==
  [alg : algs, instr : instrs, icfg : icfgs, interproc : interprocs]

AllOptions(p) ==
  CASE p \in CallGraphs \cup Flow -> OptionSet({"ntscd"}, {TRUE}, {FALSE}, {TRUE})
    [] p \in Graphs ->
         OptionSet({"ntscd", "dodRanganath"}, BOOLEAN, {FALSE}, {FALSE})
           \cup (IF Ending(p) THEN OptionSet({"standard"}, {FALSE}, {FALSE}, {FALSE}) ELSE {})
    [] p \in Inline -> OptionSet({"ntscd", "dodRanganath"}, BOOLEAN, {TRUE}, {FALSE})
====
