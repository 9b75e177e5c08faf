---------------------------- MODULE LLVMProgram -----------------------------
(***************************************************************************)
(* The part of LLVM that the dependence graph and the slicer work on,      *)
(* modelled from how they use it: modules with functions made of basic     *)
(* blocks, what their instructions do, and the answer that is expected of  *)
(* a data dependence analysis.                                             *)
(*                                                                         *)
(* A module ir gives for every function the list of its blocks, in the     *)
(* order of the function's block list, and the instructions of each block. *)
(* The first block of the list is the entry block; a function without      *)
(* blocks is a declaration.  An operand is <<0, c>> for a constant,        *)
(* <<0, Arg>> for the argument of the function, and <<k, i>> for the       *)
(* instruction with number i of block k of the same function.              *)
(***************************************************************************)
EXTENDS Naturals, Sequences, FiniteSets, SequencesExt

Main == 1       \* the entry function
Undef == 2      \* the undefined value; the others are 0 and 1
Arg == 3

(* An instruction: its number, the global variable it accesses (0: none),  *)
(* operands, blocks (successors of a terminator, incoming blocks of a PHI; *)
(* 0 is a null reference) and the functions it may call.  A call with two  *)
(* functions is a call through a pointer, chosen by the first operand.     *)
Instr(i, op, v, args, to, fns) ==
  [i |-> i, op |-> op, v |-> v, args |-> args, to |-> to, fns |-> fns]

Terminators == {"br", "jmp", "ret", "unreachable"}

IsTerm(in) == in.op \in Terminators
IsCall(in) == in.op = "call"

BlockList(ir, f) == ir[f].list
HasBody(ir, f) == ir[f].list # <<>>
CodeOf(ir, f, k) == ir[f].code[k]
EntryOf(ir, f) == Head(ir[f].list)

(* BasicBlock::getTerminator: a set with at most one instruction.          *)
TermOf(ir, f, k) ==
  {in \in Range(CodeOf(ir, f, k)) : IsTerm(in) /\ in = Last(CodeOf(ir, f, k))}

(* The successors of a block, numbered from 0.                             *)
SuccEdges(ir, f, k) ==
  UNION {{<<j - 1, in.to[j]>> : j \in DOMAIN in.to} : in \in TermOf(ir, f, k)}

SuccBlocks(ir, f, k) == {e[2] : e \in SuccEdges(ir, f, k)} \ {0}

PredBlocks(ir, f, k) ==
  {j \in Range(BlockList(ir, f)) : k \in SuccBlocks(ir, f, j)}

(* All instructions: <<function, block, record>>.                          *)
Instructions(ir) ==
  UNION {UNION {{<<f, k, in>> : in \in Range(CodeOf(ir, f, k))} :
                  k \in Range(BlockList(ir, f))} : f \in DOMAIN ir}

CallsTo(ir, f) ==
  {x \in Instructions(ir) : IsCall(x[3]) /\ f \in Range(x[3].fns)}

-----------------------------------------------------------------------------
(* Execution.  A frame: function, block, position in it, the block control *)
(* came from, the values of instructions and of the argument.              *)
(***************************************************************************)
FrameAt(ir, f, arg) ==
  [f |-> f, k |-> EntryOf(ir, f), p |-> 1, from |-> 0, regs |-> <<>>, arg |-> arg]

(* A state: the frames, innermost first, the global variables, and whether *)
(* the program goes on ("run"), has ended, or is no valid program here.    *)
Start(ir, mem) ==
  [stk |-> <<FrameAt(ir, Main, 0)>>, mem |-> mem, st |-> "run"]

TopFrame(s) == Head(s.stk)
Running(s) == s.st = "run"

CodeAt(ir, s) == CodeOf(ir, TopFrame(s).f, TopFrame(s).k)
AtInstr(ir, s) == TopFrame(s).p \in DOMAIN CodeAt(ir, s)
InstrAt(ir, s) == CodeAt(ir, s)[TopFrame(s).p]

ValueOf(fr, a) ==
  IF a = <<0, Arg>> THEN fr.arg
  ELSE IF a[1] = 0 THEN a[2]
  ELSE IF \E r \in Range(fr.regs) : r[1] = a
       THEN (CHOOSE r \in Range(fr.regs) : r[1] = a)[2]
       ELSE Undef

OperandsAt(ir, s) ==
  [j \in DOMAIN InstrAt(ir, s).args |->
     ValueOf(TopFrame(s), InstrAt(ir, s).args[j])]

(* The frame after its instruction got a value.                            *)
SetReg(fr, i, v) ==
  [fr EXCEPT !.p = @ + 1,
             !.regs = SelectSeq(@, LAMBDA r : r[1] # <<fr.k, i>>)
                        \o <<<<<<fr.k, i>>, v>>>>]

WithTop(s, fr) == [s EXCEPT !.stk = <<fr>> \o Tail(s.stk)]

Goto(ir, s, k) ==
  IF k \in Range(BlockList(ir, TopFrame(s).f))
  THEN WithTop(s, [TopFrame(s) EXCEPT !.k = k, !.p = 1, !.from = TopFrame(s).k])
  ELSE [s EXCEPT !.st = "stuck"]

(* A return: the value goes to the call instruction of the caller.         *)
ReturnValue(ir, s, v) ==
  IF Len(s.stk) = 1 THEN [s EXCEPT !.st = "ended"]
  ELSE LET caller == s.stk[2]
           call == CodeOf(ir, caller.f, caller.k)[caller.p]
       IN  [s EXCEPT !.stk = <<SetReg(caller, call.i, v)>> \o Tail(Tail(s.stk))]

CallFunction(ir, s, f, arg) ==
  IF HasBody(ir, f)
  THEN [s EXCEPT !.stk = <<FrameAt(ir, f, arg)>> \o s.stk]
  ELSE WithTop(s, SetReg(TopFrame(s), InstrAt(ir, s).i, Undef))

(* The value a PHI instruction takes: that of the block control came from. *)
PhiValue(fr, in) ==
  IF \E j \in DOMAIN in.to : in.to[j] = fr.from
  THEN ValueOf(fr, in.args[CHOOSE j \in DOMAIN in.to : in.to[j] = fr.from])
  ELSE Undef

FirstOr(seq, d) == IF seq = <<>> THEN d ELSE Head(seq)

(* The truth values a branch on an undefined condition may take.           *)
TruthValues(v) == IF v = Undef THEN {0, 1} ELSE {v}

(* The states after instruction in with operand values a.                  *)
Execute(ir, s, in, a) ==
  LET fr == TopFrame(s)
      value(v) == {WithTop(s, SetReg(fr, in.i, v))}
  IN  CASE in.op = "load"   -> value(s.mem[in.v])
        [] in.op = "not"    -> value(IF a[1] = Undef THEN Undef ELSE 1 - a[1])
        [] in.op = "phi"    -> value(PhiValue(fr, in))
        [] in.op = "crit"   -> value(Undef)
        [] in.op = "exit"   -> {[s EXCEPT !.st = "ended"]}
        [] in.op = "store"  ->
             {[WithTop(s, SetReg(fr, in.i, Undef)) EXCEPT !.mem[in.v] = a[1]]}
        [] in.op = "call"   ->
             {CallFunction(ir, s, in.fns[1 + c], FirstOr(Tail(a), Undef)) :
                c \in IF Len(in.fns) = 1 THEN {0} ELSE TruthValues(a[1])}
        [] in.op = "br"     -> {Goto(ir, s, in.to[2 - c]) : c \in TruthValues(a[1])}
        [] in.op = "jmp"    -> {Goto(ir, s, in.to[1])}
        [] in.op = "ret"    -> {ReturnValue(ir, s, FirstOr(a, Undef))}
        [] in.op = "unreachable" -> {[s EXCEPT !.st = "ended"]}

(* The next states of a running program.                                   *)
Steps(ir, s) ==
  IF AtInstr(ir, s)
  THEN Execute(ir, s, InstrAt(ir, s), OperandsAt(ir, s))
  ELSE {[s EXCEPT !.st = "stuck"]}

-----------------------------------------------------------------------------
(* Data dependence: the stores whose value may still be in the variable    *)
(* when an instruction is reached, along the interprocedural control flow. *)
(***************************************************************************)
Point(ir) ==
  UNION {UNION {{<<f, k, p>> : p \in DOMAIN CodeOf(ir, f, k)} :
                  k \in Range(BlockList(ir, f))} : f \in DOMAIN ir}

InstrOf(ir, x) == CodeOf(ir, x[1], x[2])[x[3]]

After(x) == <<x[1], x[2], x[3] + 1>>

(* Where control may go from a point.                                      *)
Flow(ir, x) ==
  LET in == InstrOf(ir, x) IN
  CASE in.op \in {"br", "jmp"} -> {<<x[1], k, 1>> : k \in Range(in.to)}
    [] in.op = "ret" -> {After(y) : y \in {z \in Point(ir) :
                           IsCall(InstrOf(ir, z)) /\ x[1] \in Range(InstrOf(ir, z).fns)}}
    [] in.op \in {"exit", "unreachable"} -> {}
    [] in.op = "call" ->
         {IF HasBody(ir, f) THEN <<f, EntryOf(ir, f), 1>> ELSE After(x) :
            f \in Range(in.fns)}
    [] OTHER -> {After(x)}

Stores(ir, v, x) == InstrOf(ir, x).op = "store" /\ InstrOf(ir, x).v = v

(* The points reached from From before variable v is written again.        *)
ReachedFrom(ir, flow, v, From) ==
  LET r[n \in 0 .. Cardinality(Point(ir))] ==
        IF n = 0 THEN From
        ELSE UNION {prev \cup UNION {flow[x] : x \in {y \in prev : ~Stores(ir, v, y)}} :
                      prev \in {r[n - 1]}}
  IN  r[Cardinality(Point(ir))]

(* LLVMDataDependenceAnalysis::getLLVMDefinitions as pairs of a point that *)
(* writes and a load; <<>> stands for the initial value of the variable.   *)
Definitions(ir) ==
  UNION {UNION {UNION {
      {<<d, x>> : x \in {y \in ReachedFrom(ir, flow, v,
                                IF d = <<>> THEN {<<Main, EntryOf(ir, Main), 1>>}
                                            ELSE flow[d]) :
                           InstrOf(ir, y).op = "load" /\ InstrOf(ir, y).v = v}} :
      d \in {<<>>} \cup {z \in Point(ir) : Stores(ir, v, z)}} :
    v \in {InstrOf(ir, z).v : z \in Point(ir)} \ {0}} :
    flow \in {[x \in Point(ir) |-> Flow(ir, x)]}}

=============================================================================
