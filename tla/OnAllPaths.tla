----------------------------- MODULE OnAllPaths ------------------------------
(***************************************************************************)
(* DODRanganath::onallpaths (lib/ControlDependence/DOD.h): does every      *)
(* maximal path from one node meet another?  A depth-first search that     *)
(* fails at a node without successors and when it closes a cycle.  The     *)
(* recursion of the lambda onallpths is a stack of frames.                 *)
(***************************************************************************)
EXTENDS CDGraph, Sequences

VARIABLES
  succ,       \* the graph
  from, goal, \* the arguments
  stack,      \* the active calls, innermost first: node and successors left
  onstack,    \* data[x].onstack
  visited,    \* data[x].visited
  answer      \* "running", "yes" or "no"

queryVars == <<succ, from, goal, stack, onstack, visited, answer>>

Frame == [node : Node, rest : SUBSET Node]

QueryTypeOK ==
  /\ succ \in Graph
  /\ from \in Node /\ goal \in Node
  /\ stack \in Seq(Frame)
  /\ onstack \in SUBSET Node
  /\ visited \in SUBSET Node
  /\ answer \in {"running", "yes", "no"}
  /\ answer = "running" => onstack = {stack[i].node : i \in DOMAIN stack}

(* The fast path, or the first call of onallpths.                          *)
QueryInit ==
  /\ succ \in Inputs
  /\ from \in Node /\ goal \in Node
  /\ IF from = goal
     THEN answer = "yes" /\ stack = <<>> /\ onstack = {} /\ visited = {}
     ELSE /\ onstack = {from}
          /\ visited = {from}
          /\ stack = <<[node |-> from, rest |-> succ[from]]>>
          /\ answer = IF succ[from] = {} THEN "no" ELSE "running"

-----------------------------------------------------------------------------
Rest == Head(stack).rest

(* The loop goes on with a successor s; the others are left for later.     *)
Proceed(s) ==
  /\ answer = "running"
  /\ stack # <<>>
  /\ s \in Rest

Popped(s) == <<[Head(stack) EXCEPT !.rest = @ \ {s}]>> \o Tail(stack)

(* A call that returns false makes all of its callers return false.        *)
Fail == answer' = "no" /\ UNCHANGED <<succ, from, goal, stack, onstack, visited>>

(* s is on the stack: a cycle that avoids the target.                      *)
CloseCycle(s) == Proceed(s) /\ s \in onstack /\ Fail

(* s is done already, or it is the target, whose call returns at once.     *)
Skip(s) ==
  /\ Proceed(s)
  /\ s \notin onstack
  /\ s \in visited \cup {goal}
  /\ stack' = Popped(s)
  /\ UNCHANGED <<succ, from, goal, onstack, visited, answer>>

(* Mutant: a node without successors is taken for a good end of a path.    *)
EnterLenient(s) ==
  /\ Proceed(s)
  /\ s \notin onstack \cup visited \cup {goal}
  /\ onstack' = onstack \cup {s}
  /\ visited' = visited \cup {s}
  /\ stack' = <<[node |-> s, rest |-> succ[s]]>> \o Popped(s)
  /\ UNCHANGED <<succ, from, goal, answer>>

(* The call onallpths(s), which fails if s has no successors.              *)
Enter(s) ==
  /\ Proceed(s)
  /\ s \notin onstack \cup visited \cup {goal}
  /\ onstack' = onstack \cup {s}
  /\ visited' = visited \cup {s}
  /\ stack' = <<[node |-> s, rest |-> succ[s]]>> \o Popped(s)
  /\ answer' = IF succ[s] = {} THEN "no" ELSE answer
  /\ UNCHANGED <<succ, from, goal>>

(* All successors reach the target: the call returns true, and the caller  *)
(* takes the node off the stack (nobody does for from).                    *)
Leave ==
  /\ answer = "running"
  /\ stack # <<>>
  /\ Rest = {}
  /\ stack' = Tail(stack)
  /\ onstack' = onstack \ ({Head(stack).node} \ {from})
  /\ answer' = IF Tail(stack) = <<>> THEN "yes" ELSE answer
  /\ UNCHANGED <<succ, from, goal, visited>>

QueryDone == answer # "running" /\ UNCHANGED queryVars

QueryNext ==
  \/ \E s \in Node : CloseCycle(s) \/ Skip(s) \/ Enter(s)
  \/ Leave
  \/ QueryDone

QuerySpec == QueryInit /\ [][QueryNext]_queryVars

-----------------------------------------------------------------------------
(* The answer is right, whatever the order of the successors: a node seen  *)
(* before is never taken for evidence it does not give.                    *)
AnswerExact ==
  answer \in {"yes", "no"} => (answer = "yes" <=> OnAllMaxPaths(succ, from, goal))

=============================================================================
