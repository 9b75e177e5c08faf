--------------------------- MODULE SliceSoundness ---------------------------
(***************************************************************************)
(* What a slice promises: the sliced module does at the instructions it    *)
(* keeps what the original one does there.  After slicing, both modules    *)
(* are executed side by side from the same memory.  Each runs on until it  *)
(* is at an instruction to compare; there it waits for the other one, and  *)
(* then both take that instruction together.                               *)
(***************************************************************************)
EXTENDS LLVMSlicer

CONSTANTS Inputs      \* pairs of a module and options
ASSUME InputsAssumption == \A x \in Inputs : HasBody(x[1], Main)

VARIABLES
  orig,     \* the module before slicing
  o, s      \* the executions of the original and of the sliced module

execVars == <<o, s>>
vars == <<ir, opts, buildVars, markVars, sliceVars, orig, execVars>>

Globals == 1 .. 2
Memories == [Globals -> {0, 1}]
NotStarted == [stk |-> <<>>, mem |-> <<>>, st |-> "none"]

Init ==
  /\ \E x \in Inputs : ir = x[1] /\ opts = x[2] /\ orig = x[1]
  /\ InitSlicer
  /\ o = NotStarted /\ s = NotStarted

Slice ==
  /\ SlicerNext
  /\ UNCHANGED <<orig, execVars>>

StartBoth ==
  /\ phase = "done"
  /\ phase' = "exec"
  /\ \E m \in Memories : o' = Start(orig, m) /\ s' = Start(ir, m)
  /\ UNCHANGED <<ir, opts, buildVars, markVars, unmark, fn, work, newExit, orig>>

-----------------------------------------------------------------------------
(* The instructions to compare: all that are kept and are no terminators;  *)
(* only the criteria if parts that lead to none of them were cut off.      *)
Compared ==
  {NodeAt(x) : x \in {y \in Instructions(ir) :
     ~IsTerm(y[3]) /\ (opts.cutoff => y[3].op = "crit")}}

AtNode(m, e) == InstrNode(TopFrame(e).f, TopFrame(e).k, InstrAt(m, e).i)

Waits(m, e) == Running(e) /\ AtInstr(m, e) /\ AtNode(m, e) \in Compared
Moves(m, e) == Running(e) /\ ~Waits(m, e)

OWaits == Waits(orig, o)
SWaits == Waits(ir, s)

After1(m, e) == IF Moves(m, e) THEN Steps(m, e) ELSE {e}

StepAlone ==
  /\ phase = "exec"
  /\ Moves(orig, o) \/ Moves(ir, s)
  /\ o' \in After1(orig, o)
  /\ s' \in After1(ir, s)
  /\ UNCHANGED <<ir, opts, buildVars, markVars, sliceVars, orig>>

StepTogether ==
  /\ phase = "exec"
  /\ OWaits /\ SWaits
  /\ o' \in Steps(orig, o)
  /\ s' \in Steps(ir, s)
  /\ UNCHANGED <<ir, opts, buildVars, markVars, sliceVars, orig>>

Halted == ~Running(o) \/ ~Running(s)

(* Nothing is left to do.                                                  *)
Stopped ==
  /\ phase = "aborted" \/ (phase = "exec" /\ Halted /\ ~Moves(orig, o) /\ ~Moves(ir, s))
  /\ UNCHANGED vars

Next == Slice \/ StartBoth \/ StepAlone \/ StepTogether \/ Stopped

Spec == Init /\ [][Next]_vars /\ WF_execVars(StepAlone)

-----------------------------------------------------------------------------
(* The value a PHI selects or the operands.                                *)
Seen(m, e) ==
  IF InstrAt(m, e).op = "phi" THEN <<PhiValue(TopFrame(e), InstrAt(m, e))>>
                              ELSE OperandsAt(m, e)

(* The kept blocks of f that the original reaches first, and the block the *)
(* slice begins with: the first one left in the function's list.           *)
FirstKept(f) ==
  LET kept == Range(BlockList(ir, f))
      r[n \in 0 .. Cardinality(Range(BlockList(orig, f)))] ==
        IF n = 0 THEN {EntryOf(orig, f)}
        ELSE UNION {prev \cup UNION {SuccBlocks(orig, f, k) : k \in prev \ kept} :
                      prev \in {r[n - 1]}}
  IN  r[Cardinality(Range(BlockList(orig, f)))] \cap kept

BeginsWith(f) == Head(SelectSeq(BlockList(ir, f), LAMBDA k : k # SingleEntry))

EntryKept == \A f \in {h \in DOMAIN ir : HasBody(ir, h)} : FirstKept(f) \subseteq {BeginsWith(f)}

(* Control dependence as Ferrante et al. define it: k depends on j if it   *)
(* post-dominates a successor of j, but not j itself, or is j.             *)
ControlDependent(m, f) ==
  UNION {UNION {{<<j, p[2]>> : p \in {q \in pd : q[1] \in SuccBlocks(m, f, j)
                                                /\ (q[2] = j \/ <<j, q[2]>> \notin pd)}} :
                  j \in ReachesEnd(m, f, {})} : pd \in {PostDoms(m, f)}}

(* Blocks that depend on themselves along a longer loop.                   *)
LoopDependent(m, f) ==
  {k \in Range(BlockList(m, f)) : /\ <<k, k>> \in ControlDependent(m, f)
                                  /\ k \notin SuccBlocks(m, f, k)}

NoneLoopDependent ==
  opts.cda = "standard" => \A f \in DOMAIN orig : LoopDependent(orig, f) = {}

(* Every called function can return: cutting off diverging parts erases    *)
(* the others, and their callers go on as if they had returned.            *)
CalleesReturn ==
  opts.cutoff => \A f \in DOMAIN orig : CallsTo(orig, f) # {} => ReturnBlocks(orig, f) # {}

(* With standard control dependencies only the callers of a function with  *)
(* an unreachable instruction learn that it may not return, not theirs.    *)
ExitsKnown ==
  opts.cda = "standard" =>
    \A f \in DOMAIN orig : (\E x \in Instructions(orig) : x[1] = f /\ x[3].op = "unreachable") =>
      \A x \in CallsTo(orig, f) : x[1] = Main

(* No block lost all it kept with the criteria: such a block leaves the    *)
(* graph, and its LLVM block stays, empty.                                 *)
NoneEmptied == \A n \in unmark : \E m \in Kept : GetBBlock(m) = GetBBlock(n)

Comparable ==
  EntryKept /\ NoneLoopDependent /\ CalleesReturn /\ ExitsKnown /\ NoneEmptied

(* Functions that can end from everywhere, once dependencies are computed. *)
WithTree == {f \in constructed : phase = "mark" /\ opts.cda = "standard"
                                 /\ ReachesEnd(ir, f, {}) = Blocks(f)}

BlockCDs(f) == {<<e[1][2], e[2][2]>> : e \in {d \in dg.bcd : d[1][1] = f}}

(* StandardCDExact: the post-dominance frontiers are Ferrante's control    *)
(* dependencies, except that a block that depends on itself along a loop   *)
(* of several blocks misses that dependence.                               *)
StandardCDExact ==
  \A f \in WithTree :
    BlockCDs(f) = ControlDependent(ir, f) \ {<<k, k>> : k \in LoopDependent(ir, f)}

(* SamePoints: when both executions are at an instruction to compare, it   *)
(* is the same instruction with the same operand values; the slice does    *)
(* not end while the original is at such an instruction, nor the other way *)
(* round.  Where the entry block is removed the slice begins with the      *)
(* first block that is left, which must be the one that comes next.        *)
SamePoints ==
  phase = "exec" /\ (OWaits \/ SWaits) /\ Comparable =>
    /\ OWaits /\ SWaits => /\ AtNode(orig, o) = AtNode(ir, s)
                           /\ Seen(orig, o) = Seen(ir, s)
    /\ OWaits => Running(s)
    /\ SWaits => Running(o)

(* ModuleValid: the sliced module is valid LLVM: blocks end in their only  *)
(* terminator, no reference has been dropped and not replaced, and entry   *)
(* blocks have no predecessors.                                            *)
ModuleValid ==
  phase \in {"done", "exec"} /\ NoneEmptied => \A f \in DOMAIN ir : \A k \in Range(BlockList(ir, f)) :
    LET c == CodeOf(ir, f, k) IN
    /\ c # <<>>
    /\ \A j \in DOMAIN c :
         /\ IsTerm(c[j]) <=> j = Len(c)
         /\ Range(c[j].to) \subseteq Range(BlockList(ir, f))
         /\ \A a \in Range(c[j].args) : a # <<0, Null>>
    /\ k = EntryOf(ir, f) => PredBlocks(ir, f, k) = {}

(* SameProgress: the slice reaches every instruction to compare that the   *)
(* original reaches, and with non-termination sensitive control            *)
(* dependencies it does not skip an endless loop of the original.          *)
SameProgress ==
  /\ (OWaits /\ Comparable) ~> SWaits
  /\ (SWaits /\ Comparable /\ opts.cda = "ntscd") ~> OWaits

=============================================================================
