---------------------------- MODULE DODRanganath -----------------------------
(***************************************************************************)
(* class DODRanganath (lib/ControlDependence/DOD.h): for every predicate n *)
(* and every two nodes m, p that lie on all maximal paths from each other, *)
(* colour m black and p white, propagate the colours backwards from the    *)
(* leaves of a depth-first search (coloredDAG), and record a dependence if *)
(* n has children of both colours.                                         *)
(*                                                                         *)
(* The recursive coloredDAG is a stack of frames; onallpaths is taken at   *)
(* its word here (Avoiders); module OnAllPaths checks it.                  *)
(***************************************************************************)
EXTENDS CDGraph, Sequences, FiniteSetsExt

VARIABLES
  succ,       \* the graph
  pc,         \* "loop", "dag" or "done"
  triple,     \* the current iteration of the loops over n, m and p
  color,      \* data[x].color
  visited,    \* coloredDAG's visited
  stack,      \* the active calls of coloredDAG, innermost first
  CD, revCD   \* the results

vars == <<succ, pc, triple, color, visited, stack, CD, revCD>>

Frame == [node : Node, rest : SUBSET Node]

(* The iterations, numbered: <<n, m, p>> in the order of the nested loops. *)
Triples == 1 .. N * N * N

PredicateOf(i) == 1 + (i - 1) \div (N * N)
OuterOf(i) == 1 + (((i - 1) \div N) % N)
InnerOf(i) == 1 + ((i - 1) % N)

TypeOK ==
  /\ succ \in Graph
  /\ pc \in {"loop", "dag", "done"}
  /\ triple \in 0 .. N * N * N
  /\ color \in [Node -> {"white", "black", "uncolored"}]
  /\ visited \in SUBSET Node
  /\ stack \in Seq(Frame)
  /\ \A i \in DOMAIN stack : stack[i].node \in visited
  /\ CD \in [Node -> SUBSET Node]
  /\ revCD \in [Node -> SUBSET Node]

Init ==
  /\ succ \in Inputs
  /\ pc = "loop"
  /\ triple = 0
  /\ color = [n \in Node |-> "uncolored"]
  /\ visited = {}
  /\ stack = <<>>
  /\ CD = [n \in Node |-> {}]
  /\ revCD = [n \in Node |-> {}]

-----------------------------------------------------------------------------
(* Iterations that get as far as dependence(n, p, m).                      *)
Candidate(i) ==
  /\ IsPredicate(succ, PredicateOf(i))
  /\ OuterOf(i) # InnerOf(i)
  /\ OuterOf(i) \notin Avoiders(succ, InnerOf(i))
  /\ InnerOf(i) \notin Avoiders(succ, OuterOf(i))

Pending == {i \in Triples : i > triple /\ Candidate(i)}

(* A call of coloredDAG(x): only the first visit of a node with successors *)
(* does anything.                                                          *)
Calls(x, seen) == x \notin seen /\ succ[x] # {}

(* dependence(n, p, m): reset the colours and start the search.            *)
StartDependence(i) ==
  /\ pc = "loop"
  /\ triple' = i
  /\ color' = [x \in Node |-> IF x = InnerOf(i) THEN "white" ELSE
                              IF x = OuterOf(i) THEN "black" ELSE "uncolored"]
  /\ LET n == PredicateOf(i)
         seen == {OuterOf(i), InnerOf(i)}
     IN  /\ visited' = seen \cup {n}
         /\ stack' = IF Calls(n, seen) THEN <<[node |-> n, rest |-> succ[n]]>>
                                       ELSE <<>>
  /\ pc' = "dag"
  /\ UNCHANGED <<succ, CD, revCD>>

(* Mutant: the loops do not go on to the next iteration.                   *)
EndDependenceStays ==
  /\ pc = "dag"
  /\ stack = <<>>
  /\ triple' = 0
  /\ pc' = "loop"
  /\ UNCHANGED <<succ, color, visited, stack, CD, revCD>>

(* The first loop over the successors: call coloredDAG(q).                 *)
Descend(q) ==
  /\ pc = "dag"
  /\ stack # <<>>
  /\ q \in Head(stack).rest
  /\ LET here == [Head(stack) EXCEPT !.rest = @ \ {q}]
         call == IF Calls(q, visited) THEN <<[node |-> q, rest |-> succ[q]]>>
                                      ELSE <<>>
     IN  stack' = call \o <<here>> \o Tail(stack)
  /\ visited' = visited \cup {q}
  /\ UNCHANGED <<succ, pc, triple, color, CD, revCD>>

(* The colour all successors have, if they agree.                          *)
CommonColor(x) ==
  IF \E c \in {"white", "black"} : \A q \in succ[x] : color[q] = c
  THEN color[CHOOSE q \in succ[x] : TRUE]
  ELSE "uncolored"

(* The second loop: colour the node and return from the call.              *)
Ascend ==
  /\ pc = "dag"
  /\ stack # <<>>
  /\ Head(stack).rest = {}
  /\ color' = [color EXCEPT ![Head(stack).node] = CommonColor(Head(stack).node)]
  /\ stack' = Tail(stack)
  /\ UNCHANGED <<succ, pc, triple, visited, CD, revCD>>

(* Mutant: a child of either colour suffices.                              *)
DecidesEither(n) == \E q \in succ[n] : color[q] # "uncolored"

(* Has n children of both colours?                                         *)
Decides(n) == /\ \E q \in succ[n] : color[q] = "white"
              /\ \E q \in succ[n] : color[q] = "black"

(* The end of an iteration: n itself, not p, is put into revCD[n].         *)
EndDependence ==
  LET n == PredicateOf(triple)
      m == OuterOf(triple)
      p == InnerOf(triple)
  IN
  /\ pc = "dag"
  /\ stack = <<>>
  /\ IF Decides(n)
     THEN /\ CD' = [CD EXCEPT ![m] = @ \cup {n}, ![p] = @ \cup {n}]
          /\ revCD' = [revCD EXCEPT ![n] = @ \cup {m, n}]
     ELSE UNCHANGED <<CD, revCD>>
  /\ pc' = "loop"
  /\ UNCHANGED <<succ, triple, color, visited, stack>>

Return ==
  /\ pc = "loop"
  /\ Pending = {}
  /\ pc' = "done"
  /\ UNCHANGED <<succ, triple, color, visited, stack, CD, revCD>>

Done == pc = "done" /\ UNCHANGED vars

Next ==
  \/ Pending # {} /\ StartDependence(Min(Pending))
  \/ \E q \in Node : Descend(q)
  \/ Ascend \/ EndDependence \/ Return \/ Done

Spec == Init /\ [][Next]_vars

(* One sequential computation, running until it returns.                   *)
FairSpec == Spec /\ WF_vars(Next)

-----------------------------------------------------------------------------
(* In whatever order the search takes the successors, a predicate with two *)
(* of them has exactly its decisive order dependencies recorded.           *)
ComputesDOD ==
  pc = "done" =>
    \A n \in Node : Cardinality(succ[n]) = 2 =>
      {a \in Node : n \in CD[a]} = DODof(succ, n)

(* Other predicates lose none of theirs.                                   *)
MissesNothing ==
  pc = "done" =>
    \A n \in Node : IsPredicate(succ, n) =>
      \A a \in DODof(succ, n) : n \in CD[a]

(* revCD has every recorded dependence: p of one iteration is m of another.*)
ReverseComplete ==
  pc = "done" => \A n, a \in Node : n \in CD[a] => a \in revCD[n]

(* The search and the loops come to an end.                                *)
Termination == <>(pc = "done")

=============================================================================
