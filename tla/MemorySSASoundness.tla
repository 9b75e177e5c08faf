------------------------ MODULE MemorySSASoundness --------------------------
(***************************************************************************)
(* What memory SSA promises (doc/DDA.md): a read gets all the nodes that   *)
(* may have written what it reads.  When all reads were asked for, in any  *)
(* order, an execution of the program runs and remembers for every byte    *)
(* the node that wrote it last.                                            *)
(***************************************************************************)
EXTENDS MemorySSA

CONSTANT MaxDepth       \* how deep calls of an execution may be nested

VARIABLES
  at,       \* where the execution is: block and index, <<>> outside of it
  stack,    \* where it returns to
  writer,   \* the node that wrote a byte last, 0 if none did
  beyond    \* memory of which a PHI hides bytes that it does not stand for

execVars == <<at, stack, writer>>
allVars  == <<prog, blocks, ssa, defuse, at, stack, writer, beyond>>

(* The bytes of a program: as many of every object as one of them has.     *)
SitesOf(n) == prog.nodes[n].defs \cup prog.nodes[n].overs \cup prog.nodes[n].uses
Objects    == prog.escapes \cup DOMAIN prog.owner
AllSites   == UNION {SitesOf(n) : n \in DOMAIN prog.nodes}

InitialWriter ==
  LET ends == {ds.hi : ds \in AllSites}
      last == CHOOSE b \in ends : \A e \in ends : e <= b
  IN  [c \in Objects \X (0 .. last) |-> 0]

Cells == DOMAIN writer
CellsOf(ds) == IF IsUnknown(ds) THEN Cells ELSE {<<ds.target, b>> : b \in Bytes(ds)}

Entry(f) == BlocksOf(f)[1]

SoundInit ==
  /\ Init
  /\ at = <<>> /\ stack = <<>>
  /\ writer = InitialWriter
  /\ beyond = {}

Ask == Next /\ at = <<>> /\ UNCHANGED <<at, stack, writer, beyond>>

(* The answers, for which the state of the analysis is no longer needed.   *)
Answer(n) == gatherNonPhisDefs(ssa, defuse[n])

Beyond ==
  {e[1] : e \in {x \in UNION {Defined(ssa.D[b].kills) : b \in Block} :
                   ~IsNode(x[3]) /\ x[2] \notin Bytes(PhiOf(ssa, x[3]).ds)}}

Begin ==
  /\ at = <<>> /\ stack = <<>>
  /\ blocks # <<>>
  /\ DOMAIN defuse = Uses
  /\ at' = <<Entry(prog.main), 1>>
  /\ defuse' = [n \in Uses |-> Answer(n)]
  /\ ssa' = <<>>
  /\ beyond' = Beyond
  /\ UNCHANGED <<prog, blocks, stack, writer>>

-----------------------------------------------------------------------------
Here == blocks[at[1]].nodes[at[2]]
AtNode == at # <<>> /\ at[2] <= Len(blocks[at[1]].nodes)

(* What executing a node without callees does to the bytes: everything it  *)
(* overwrites and any bytes of what it may write, of unknown memory one    *)
(* byte or nothing.                                                        *)
Outcomes(n) ==
  LET a == Annotations(prog, n)
      over == UNION {CellsOf(ds) : ds \in a.overs}
      may(ds) == IF IsUnknown(ds) THEN {{}} \cup {{c} : c \in Cells} ELSE SUBSET CellsOf(ds)
      picks == {f \in [a.defs -> SUBSET Cells] : \A ds \in a.defs : f[ds] \in may(ds)}
  IN  {over \cup UNION Range(f) : f \in picks}

Write(n) ==
  \E W \in Outcomes(n) : writer' = [c \in Cells |-> IF c \in W THEN n ELSE writer[c]]

Step ==
  /\ AtNode
  /\ ~callsDefined(prog.nodes[Here])
  /\ Write(Here)
  /\ at' = <<at[1], at[2] + 1>>
  /\ UNCHANGED stack

Call ==
  /\ AtNode
  /\ \E c \in Range(Callees(Here)) :
       IF IsDefined(c)
       THEN /\ callsDefined(prog.nodes[Here])
            /\ Len(stack) < MaxDepth
            /\ stack' = <<<<at[1], at[2] + 1>>>> \o stack
            /\ at' = <<Entry(c.proc), 1>>
            /\ UNCHANGED writer
       ELSE /\ callsDefined(prog.nodes[Here])
            /\ Write(c.node)
            /\ at' = <<at[1], at[2] + 1>>
            /\ UNCHANGED stack

Branch ==
  /\ at # <<>> /\ ~AtNode
  /\ \E b \in Range(blocks[at[1]].succs) : at' = <<b, 1>>
  /\ UNCHANGED <<stack, writer>>

Return ==
  /\ at # <<>> /\ ~AtNode
  /\ blocks[at[1]].succs = <<>>
  /\ stack # <<>>
  /\ at' = Head(stack)
  /\ stack' = Tail(stack)
  /\ UNCHANGED writer

Execute == Step \/ Call \/ Branch \/ Return

SoundNext == Ask \/ Begin \/ (Execute /\ UNCHANGED <<prog, blocks, ssa, defuse, beyond>>)

SoundSpec == SoundInit /\ [][SoundNext]_allVars

-----------------------------------------------------------------------------
(* The answer if n is the first question.                                  *)
Returned(s) == gatherNonPhisDefs(s, s.ret)
FirstAnswer(n) == Returned(findDefinitions(EmptyState(blocks), n))

Reads(n) == Annotations(prog, n).uses
ReadsKnown(n) == \A ds \in Reads(n) : ~IsUnknown(ds)

WritesUnknown(n) == \E ds \in prog.nodes[n].defs : IsUnknown(ds)
WritesKnown(n)   == prog.nodes[n].overs # {} \/ \E ds \in prog.nodes[n].defs : ~IsUnknown(ds)

NoUnknownWrites == \A n \in DOMAIN prog.nodes : ~WritesUnknown(n)

(* No block writes known memory and through an unknown pointer.            *)
Apart ==
  \A b \in Block : \A m, n \in Range(blocks[b].nodes) : WritesUnknown(m) => ~WritesKnown(n)

NoCalls == \A n \in DOMAIN prog.nodes : ~callsDefined(prog.nodes[n])

(* How the accesses of memory cut it into parts.  Only with four of them   *)
(* does undefinedIntervals return bytes behind a site: something defined   *)
(* in it, its end, the bytes behind it, and something defined there.       *)
Cuts(t) == UNION {{ds.lo, ds.hi + 1} : ds \in {x \in AllSites : x.target = t}}
FewParts(t) == Cardinality(Cuts(t)) <= 4
Uncut(ds)   == \A c \in Cuts(ds.target) : c <= ds.lo \/ ds.hi < c

(* Two procedures never call each other, directly or not.                  *)
RECURSIVE Called(_)
Called(S) ==
  LET more == S \cup {g \in prog.procs : \E b \in Block : /\ blocks[b].proc \in S
                        /\ \E n \in Range(blocks[b].nodes) : Procedure(g) \in Range(Callees(n))}
  IN  IF more = S THEN S ELSE Called(more)

NoMutualRecursion ==
  \A f, g \in prog.procs : f # g => f \notin Called({g}) \/ g \notin Called({f})

-----------------------------------------------------------------------------
Reading == AtNode /\ Here \in Uses

(* The analysis may name a call instead of the model that it calls.        *)
Named(w, found) ==
  w \in found \/ \E n \in found : Model(w) \in Range(Callees(n))

FoundHere ==
  \A ds \in Reads(Here) : \A c \in CellsOf(ds) :
    writer[c] # 0 => Named(writer[c], defuse[Here])

(* What is promised of a read, see ReadsFound.                             *)
Promised ==
  \/ NoUnknownWrites /\ NoMutualRecursion /\ \A t \in Objects : FewParts(t)
  \/ NoCalls /\ Apart /\ \A ds \in Reads(Here) : ds.target \notin beyond

(* The writes that a read of known memory sees are found, through loops,   *)
(* calls and recursion and whatever was asked before, if nothing is        *)
(* written through unknown pointers and no two procedures call each other; *)
(* inside of a procedure also with unknown writes in blocks of their own.  *)
(* Memory may be cut into many parts as long as no PHI was made the        *)
(* definition of bytes for which no operands were searched; with calls,    *)
(* into three, because summaries have such bytes, too.                     *)
ReadsFound == Reading /\ ReadsKnown(Here) /\ Promised => FoundHere

(* If memory is only accessed as a whole, the answer for a read of known   *)
(* memory does not depend on the questions before it: PHI nodes, block     *)
(* definitions and summaries that are kept are the ones that it would      *)
(* compute.                                                                *)
AccessedWhole ==
  \A m, n \in DOMAIN prog.nodes : \A c \in SitesOf(m), d \in SitesOf(n) :
    c.target = d.target => c = d

AnswersIndependent ==
  blocks # <<>> /\ at = <<>> /\ NoUnknownWrites /\ NoMutualRecursion /\ AccessedWhole =>
    \A n \in DOMAIN defuse : ReadsKnown(n) => Answer(n) = FirstAnswer(n)

-----------------------------------------------------------------------------
(* Reaching definitions inside of a procedure, by paths: from a position   *)
(* (a block and how many of its nodes were executed) backwards up to nodes *)
(* that overwrite the byte.                                                *)
PositionsBefore(p) ==
  IF p[2] > 0 THEN {<<p[1], p[2] - 1>>}
              ELSE {<<b, Len(blocks[b].nodes)>> : b \in Range(blocks[p[1]].preds)}

NodeAt(p) == blocks[p[1]].nodes[p[2]]

Overwrites(p, c) == p[2] > 0 /\ \E ds \in prog.nodes[NodeAt(p)].overs : c \in CellsOf(ds)
MayWrite(p, c)   == p[2] > 0 /\ \E ds \in prog.nodes[NodeAt(p)].defs : c \in CellsOf(ds)

RECURSIVE Backwards(_, _)
Backwards(S, c) ==
  LET more == S \cup UNION {PositionsBefore(p) : p \in {q \in S : ~Overwrites(q, c)}} IN
  IF more = S THEN S ELSE Backwards(more, c)

Reaching(n) ==
  LET b == CHOOSE x \in Block : n \in Range(blocks[x].nodes)
      i == CHOOSE j \in DOMAIN blocks[b].nodes : blocks[b].nodes[j] = n
      writers(c) == {NodeAt(p) : p \in {q \in Backwards({<<b, i - 1>>}, c) :
                                          Overwrites(q, c) \/ MayWrite(q, c)}}
  IN  UNION {writers(c) : c \in UNION {CellsOf(ds) : ds \in Reads(n)}}

(* Inside of a procedure a read gets exactly the definitions that reach    *)
(* it, byte by byte, if it is asked for first and undefinedIntervals does  *)
(* not look behind it; for reads and writes of unknown memory at least     *)
(* nothing that does not reach it.                                         *)
Within(n) == \A ds \in Reads(n) : FewParts(ds.target) \/ Uncut(ds)

ReachingExact ==
  blocks # <<>> /\ at = <<>> /\ NoCalls =>
    \A n \in DOMAIN defuse : DOMAIN defuse = {n} =>
      /\ ReadsKnown(n) /\ Within(n) /\ Apart => Answer(n) = Reaching(n)
      /\ \/ ReadsKnown(n) /\ Within(n)
         \/ ~ReadsKnown(n) /\ NoUnknownWrites
         => Answer(n) \subseteq Reaching(n)
=============================================================================
