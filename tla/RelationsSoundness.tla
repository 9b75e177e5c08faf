------------------------- MODULE RelationsSoundness -------------------------
(***************************************************************************)
(* The analysis of value relations against what programs do: a function is *)
(* analysed, then it runs.  The claims of the analysis are compared with   *)
(* what the run computes.                                                  *)
(***************************************************************************)
EXTENDS RelationsAnalyzer

(* A graph of relations that is told one fact after the other, and what    *)
(* the facts say: the values are machine words, and a pointer has one      *)
(* content.                                                                *)
CONSTANTS Vocabularies,   \* sets of facts <<value, relation, value>>
          MaxFacts        \* bound: how many facts are told

ASSUME FactsAssumption == MaxFacts \in Nat

VARIABLES vocabulary,  \* the facts that may be told
          rels,        \* the graph
          facts        \* what it was told

factVars == <<vocabulary, rels, facts>>

Values == {f[1] : f \in vocabulary} \cup {f[3] : f \in vocabulary}

FactsInit(facts0) == vocabulary = facts0 /\ rels = EmptyGraph /\ facts = {}

(* The analysis asks for a conflict before it sets a relation (processICMP,*)
(* processAssumeEqual); a branch in conflict is not entered.               *)
Tell(f) ==
  /\ Cardinality(facts) < MaxFacts /\ f \notin facts /\ ~rels.failed
  /\ ~hasConflictingRelation(rels, f[1], f[3], f[2])
  /\ rels' = [set(rels, f[1], f[2], f[3]) EXCEPT !.changed = FALSE]
  /\ facts' = facts \cup {f}
  /\ UNCHANGED <<vocabulary, descending>>

-----------------------------------------------------------------------------
(* A world gives every value a word.  Two pointers with the same address   *)
(* have the same content.                                                  *)
Worlds == [{v \in Values : ~IsConstant(v)} -> Word]

ValueIn(world, v) == IF IsConstant(v) THEN v[2] ELSE world[v]

HoldsIn(world, f) ==
  IF f[2] = "PT"
  THEN \A h \in facts : h[2] = "PT" /\ ValueIn(world, h[1]) = ValueIn(world, f[1])
                          => ValueIn(world, h[3]) = ValueIn(world, f[3])
  ELSE Ordered(f[2], ValueIn(world, f[1]), ValueIn(world, f[3]))

Models == {w \in Worlds : \A f \in facts : HoldsIn(w, f)}

(* Whatever the graph answers about two values (directly, through other    *)
(* buckets or through constants) follows from the facts.                   *)
AnswersSound ==
  LET answers == UNION {UNION {{<<v, r, w>> : r \in between(rels, v, w) \cap comparative}
                               : w \in Values} : v \in Values}
  IN \A world \in Models : \A f \in answers : HoldsIn(world, f)

(* Signed facts are found through any number of others: the search stops at*)
(* strict edges, goes on behind each of them and shares the edges it has   *)
(* visited, and still misses nothing.                                      *)
SignedStep(v, w) ==
  \E f \in facts : \/ f[1] = v /\ f[3] = w /\ f[2] \in {"EQ", "SLE", "SLT"}
                   \/ f[1] = w /\ f[3] = v /\ f[2] = "EQ"

Below ==
  LET r[n \in 0 .. MaxFacts] ==
        IF n = 0 THEN [v \in Values |-> {v}]
        ELSE [v \in Values |-> UNION {{x} \cup {y \in Values : SignedStep(x, y)}
                                       : x \in r[n - 1][v]}]
  IN r[MaxFacts]

ChainsFound ==
  Models # {} =>
    LET below == Below IN
    \A v \in Values : \A w \in below[v] \ {v} :
      LET answer == between(rels, v, w) IN
      /\ "SLE" \in answer
      /\ (\E f \in facts : f[2] = "SLT" /\ f[1] \in below[v] /\ w \in below[f[3]])
           => "SLT" \in answer

-----------------------------------------------------------------------------
(* The analysis of functions.                                              *)
CONSTANT Programs      \* the functions to analyse

VARIABLES claims,      \* of every location: what the analysis says there
          at,          \* the location of the run
          env,         \* the results of the instructions, as last computed
          mem          \* the memory of every alloca

runVars == <<claims, at, env, mem>>
vars == <<analyzerVars, factVars, runVars>>

Address(k) == MaxValue + k        \* no integer, and different for every alloca

ConstantOperands(code) ==
  {v \in UNION {{code[k][f] : f \in DOMAIN code[k] \cap {"a", "b", "val"}} : k \in DOMAIN code} :
     IsConstant(v)}

(* The instructions that were executed whenever l is reached: the values   *)
(* that are defined there.                                                 *)
Reached(without) ==
  LET r[n \in 0 .. Cardinality(cg.locs)] ==
        IF n = 0 THEN {1}
        ELSE UNION {prev \cup {cg.edges[i].to : i \in {j \in DOMAIN cg.edges :
                       /\ cg.edges[j].from \in prev
                       /\ cg.edges[j].op # [kind |-> "inst", inst |-> without]}}
                    : prev \in {r[n - 1]}}
  IN r[Cardinality(cg.locs)]

Defined(l) ==
  {<<"i", k>> : k \in {j \in DOMAIN cg.code :
     cg.code[j].op \notin {"store", "br", "condbr", "ret", "icmp"} /\ l \notin Reached(j)}}

Claimed(l) ==
  LET vs == Defined(l) \cup ConstantOperands(cg.code)
  IN UNION {UNION {{<<v, r, w>> : r \in between(relations[l], v, w)}
                   : w \in vs \ {v}} : v \in Defined(l)}

RunInit ==
  /\ claims = <<>> /\ at = 0 /\ env = <<>> /\ mem = <<>>

Analyze == (Pass \/ EndPass) /\ UNCHANGED <<factVars, runVars>>

(* The function is called: its memory holds anything.                      *)
Begin ==
  /\ phase = "done" /\ phase' = "run"
  /\ claims' = [l \in cg.locs |-> Claimed(l)]
  /\ at' = 1
  /\ env' = [k \in DOMAIN cg.code |-> 0]
  /\ mem' \in [{k \in DOMAIN cg.code : Inst(k).op = "alloca"} -> {0}]
  /\ UNCHANGED <<cg, relations, todo, changedInPass, passNum, descending, factVars>>

ValueOf(v) == IF IsConstant(v) THEN v[2] ELSE env[v[2]]

CellOf(v) == ValueOf(v) - MaxValue

(* Division as in C.                                                       *)
Rem(m, n) ==
  LET abs(x) == IF x < 0 THEN -x ELSE x
      r == abs(m) % abs(n)
  IN IF m < 0 THEN -r ELSE r

Exact(k) ==
  LET a == ValueOf(Inst(k).a)
      b == ValueOf(Inst(k).b)
  IN CASE Inst(k).op = "add" -> a + b
       [] Inst(k).op = "sub" -> a - b
       [] Inst(k).op = "mul" -> a * b
       [] Inst(k).op = "srem" -> Rem(a, b)

(* An operation that overflows, if it must not, ends what is said of the   *)
(* program, and so does a division by zero.                                *)
WellDefined(k) ==
  IF Inst(k).op = "srem" THEN ValueOf(Inst(k).b) # 0
  ELSE "nsw" \in DOMAIN Inst(k) => Exact(k) \in Word

Goto(e) == at' = e.to /\ UNCHANGED <<analyzerVars, factVars, claims>>

Execute(e) ==
  LET k == e.op.inst IN
  /\ e.op.kind = "inst" /\ e.to # NowhereLoc
  /\ Goto(e)
  /\ CASE Inst(k).op = "alloca" -> /\ env' = [env EXCEPT ![k] = Address(k)]
                                   /\ UNCHANGED mem
       [] Inst(k).op = "nondet" -> /\ \E n \in Word : env' = [env EXCEPT ![k] = n]
                                   /\ UNCHANGED mem
       [] Inst(k).op = "store"  -> /\ mem' = [mem EXCEPT ![CellOf(Inst(k).ptr)] =
                                                ValueOf(Inst(k).val)]
                                   /\ UNCHANGED env
       [] Inst(k).op = "load"   -> /\ env' = [env EXCEPT ![k] = mem[CellOf(Inst(k).ptr)]]
                                   /\ UNCHANGED mem
       [] Inst(k).op = "icmp"   -> UNCHANGED <<env, mem>>
       [] OTHER -> /\ WellDefined(k)
                   /\ env' = [env EXCEPT ![k] = Wrapped(Exact(k))]
                   /\ UNCHANGED mem

Take(e) ==
  /\ e.op.kind # "inst"
  /\ e.op.kind = "assume" =>
       LET c == Inst(e.op.cond)
       IN Ordered(c.pred, ValueOf(c.a), ValueOf(c.b)) = e.op.truth
  /\ Goto(e) /\ UNCHANGED <<env, mem>>

Run ==
  /\ phase = "run"
  /\ \E i \in ToSet(SuccEdges(cg.edges, at)) : Execute(cg.edges[i]) \/ Take(cg.edges[i])

(* Either the graph alone is told facts, or a function is analysed and run.*)
OnlyFacts ==
  /\ cg = <<>> /\ relations = <<>> /\ todo = <<>> /\ passNum = 0
  /\ changedInPass = FALSE /\ phase = "facts"

Init ==
  /\ RunInit /\ descending \in BOOLEAN
  /\ \/ OnlyFacts /\ \E facts0 \in Vocabularies : FactsInit(facts0)
     \/ FactsInit({}) /\ \E code \in Programs : AnalyzerInit(code)

Listen ==
  /\ phase = "facts" /\ \E f \in vocabulary : Tell(f)
  /\ UNCHANGED <<cg, relations, todo, changedInPass, passNum, phase, runVars>>

Next == Listen \/ Analyze \/ Begin \/ Run

Spec == Init /\ [][Next]_vars

-----------------------------------------------------------------------------
Holds(c) ==
  IF c[2] = "PT" THEN mem[CellOf(c[1])] = ValueOf(c[3])
  ELSE IF c[2] = "PF" THEN mem[CellOf(c[3])] = ValueOf(c[1])
  ELSE Ordered(c[2], ValueOf(c[1]), ValueOf(c[3]))

UnsignedOrder == {"ULE", "ULT", "UGE", "UGT"}

(* What the analysis says at a location of values that are defined there   *)
(* holds whenever a run gets there: contents of memory, equalities and     *)
(* signed order.                                                           *)
RelationsHold ==
  phase = "run" => \A c \in claims[at] : c[2] \notin UnsignedOrder => Holds(c)

(* Facts that do not contradict each other never fail an assertion of the  *)
(* graph and never make it use a bucket that is gone.  Nor does the        *)
(* analysis of any program of the instance: the edges of branches that     *)
(* cannot be taken are recognised before their condition is added.  It is  *)
(* no statement about all programs: the ones known to fail an assertion    *)
(* (some dead branches, and const - x stored in a loop) are left out.      *)
AssertionsHold ==
  /\ rels.failed => Models = {}
  /\ phase # "facts" => \A l \in cg.locs : ~relations[l].failed
=============================================================================
