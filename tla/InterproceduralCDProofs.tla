----------------------- MODULE InterproceduralCDProofs -----------------------
(***************************************************************************)
(* LLVMInterprocCD::computeFuncInfo finds exactly the points of no return, *)
(* for every module and every order of queries: what it keeps about a      *)
(* function does not depend on who asked first, although a recursive call  *)
(* is not followed and a function that has its entry is not entered again. *)
(* From these points computeCD finds exactly the calls an instruction      *)
(* depends on, in whatever order it serves the blocks.                     *)
(***************************************************************************)
EXTENDS InterproceduralCD, FiniteSetTheorems, FunctionTheorems, SequenceTheorems, TLAPS

(* f and the functions some chain of calls leads to from it.               *)
Below(f) == {f} \cup CalledFrom(f)

(* Every active call was made, through others, by those further out.       *)
Chain ==
  \A i, j \in 1 .. Len(stack) : i <= j => stack[i].fun \in Below(stack[j].fun)

(* A frame has dealt with all targets but those that are left and those of *)
(* the calls that are still to come: if one of them may not return, the    *)
(* call is a point of no return.                                           *)
FrameCovered(fr) ==
  /\ fr.rest \subseteq CallsOf(fr.fun)
  /\ \A d \in fr.left : d[1] \in CallsOf(fr.fun) /\ d[2] \in Targets(d[1])
  /\ Exits(fr.fun) \subseteq noret[fr.fun]
  /\ \A c \in CallsOf(fr.fun) \ fr.rest : \A g \in Targets(c) :
       MayNotReturn(g) => c \in noret[fr.fun] \/ <<c, g>> \in fr.left

(* What has been found so far is right.                                    *)
FoundRight == \A f \in Fun : noret[f] \subseteq NoretPoints(f)

IInv ==
  /\ prog \in Program
  /\ todo \in Seq(Fun)
  /\ stack \in Seq(Frame)
  /\ known \in SUBSET Fun
  /\ noret \in [Fun -> SUBSET Point]
  /\ OnStack \subseteq known
  /\ Chain
  /\ \A i \in 1 .. Len(stack) : FrameCovered(stack[i])
  /\ FoundRight
  /\ NoretExact

-----------------------------------------------------------------------------
(* Calls, and the functions below a function.                              *)
(***************************************************************************)
LEMMA FunBlock == Fun \subseteq Nat /\ Block \subseteq Nat
BY SizesAssumption DEF Fun, Block

LEMMA CallFacts ==
  ASSUME prog \in Program, NEW f \in Fun, NEW c \in CallsOf(f)
  PROVE  c \in Point /\ Targets(c) \subseteq Fun
<1>1. PICK b \in Block : c \in Range(CallsIn(f, b))
  BY DEF CallsOf
<1>2. prog.calls[f][b] \in Seq(SUBSET Fun)
  BY DEF Program
<1> DEFINE n == Len(prog.calls[f][b])
<1>3. n \in Nat /\ \A i \in 1 .. n : prog.calls[f][b][i] \subseteq Fun
  <2>1. \A i \in 1 .. n : prog.calls[f][b][i] \in SUBSET Fun
    BY <1>2, ElementOfSeq
  <2> QED
    BY <1>2, <2>1, LenProperties
<1>4. PICK i \in 1 .. n : c = <<f, b, i>>
  BY <1>1 DEF CallsIn, Range
<1> QED
  BY <1>3, <1>4, FunBlock DEF Point, Targets

LEMMA ExitsFacts ==
  ASSUME prog \in Program, NEW f \in Fun
  PROVE  /\ Exits(f) \subseteq Point
         /\ Exits(f) # {} => prog.exits[f] # {}
<1>1. prog.exits[f] \subseteq Block
  BY DEF Program
<1> QED
  BY <1>1 DEF Exits, Point

(* What f calls directly, and what is called from there, is called from f. *)
LEMMA CalledFromClosed ==
  ASSUME prog \in Program, NEW f \in Fun
  PROVE  /\ Calls(f) \subseteq CalledFrom(f)
         /\ \A g \in CalledFrom(f) : Calls(g) \subseteq CalledFrom(f)
<1> DEFINE Closed == {A \in SUBSET Fun : Calls(f) \subseteq A /\ \A g \in A : Calls(g) \subseteq A}
<1>1. \A g \in Fun : Calls(g) \subseteq Fun
  BY CallFacts DEF Calls
<1>2. CalledFrom(f) = {g \in Fun : \A A \in Closed : g \in A}
  BY <1>1 DEF CalledFrom
<1>3. \A A \in Closed : Calls(f) \subseteq A /\ \A g \in A : Calls(g) \subseteq A
  OBVIOUS
<1> HIDE DEF Closed
<1> QED
  BY <1>1, <1>2, <1>3

(* It is the least such set.                                               *)
LEMMA CalledFromLeast ==
  ASSUME prog \in Program, NEW f \in Fun, NEW A \in SUBSET Fun,
         Calls(f) \subseteq A, \A g \in A : Calls(g) \subseteq A
  PROVE  CalledFrom(f) \subseteq A
<1> DEFINE calls == [g \in Fun |-> Calls(g)]
<1>1. calls[f] \subseteq A /\ \A g \in A : calls[g] \subseteq A
  OBVIOUS
<1> QED
  BY <1>1 DEF CalledFrom

LEMMA BelowTransitive ==
  ASSUME prog \in Program, NEW f \in Fun, NEW g \in Below(f)
  PROVE  /\ g \in Fun
         /\ Calls(g) \subseteq CalledFrom(f)
         /\ CalledFrom(g) \subseteq CalledFrom(f)
<1>1. CalledFrom(f) \subseteq Fun
  BY DEF CalledFrom
<1>2. g \in Fun
  BY <1>1 DEF Below
<1>3. Calls(g) \subseteq CalledFrom(f)
  BY CalledFromClosed DEF Below
<1>4. CalledFrom(g) \subseteq CalledFrom(f)
  BY <1>1, <1>2, <1>3, CalledFromClosed, CalledFromLeast
<1> QED
  BY <1>2, <1>3, <1>4

(* Whatever is called from f is one of its targets or called from one.     *)
LEMMA CalledThroughTarget ==
  ASSUME prog \in Program, NEW f \in Fun, NEW g \in CalledFrom(f)
  PROVE  \E c \in CallsOf(f) : \E h \in Targets(c) : g \in Below(h)
<1> DEFINE A == UNION {UNION {Below(h) : h \in Targets(c)} : c \in CallsOf(f)}
<1>1. \A c \in CallsOf(f) : \A h \in Targets(c) : h \in Fun
  BY CallFacts
<1>2. A \in SUBSET Fun
  BY <1>1, BelowTransitive
<1>3. Calls(f) \subseteq A
  BY DEF Calls, Below
<1>4. ASSUME NEW x \in A PROVE Calls(x) \subseteq A
  <2>1. PICK c \in CallsOf(f) : \E h \in Targets(c) : x \in Below(h)
    OBVIOUS
  <2>2. PICK h \in Targets(c) : x \in Below(h)
    BY <2>1
  <2>3. Calls(x) \subseteq Below(h)
    BY <1>1, <2>2, BelowTransitive DEF Below
  <2> QED
    BY <2>3
<1>5. CalledFrom(f) \subseteq A
  BY <1>2, <1>3, <1>4, CalledFromLeast
<1> QED
  BY <1>5

(* A function may not return just if it has a point of no return.          *)
LEMMA NoretPointsOf ==
  ASSUME prog \in Program, NEW f \in Fun
  PROVE  MayNotReturn(f) <=> NoretPoints(f) # {}
<1>1. \A c \in CallsOf(f) : \A g \in Targets(c) : g \in Fun /\ g \in CalledFrom(f)
  BY CallFacts, CalledFromClosed DEF Calls
<1>2. ASSUME NEW c \in NoretPoints(f) PROVE MayNotReturn(f)
  <2>1. CASE c \in Exits(f)
    BY <2>1, ExitsFacts DEF MayNotReturn
  <2>2. CASE c \notin Exits(f)
    <3>1. PICK g \in Targets(c) : c \in CallsOf(f) /\ MayNotReturn(g)
      BY <2>2 DEF NoretPoints
    <3>2. Below(g) \subseteq CalledFrom(f)
      BY <1>1, <3>1, BelowTransitive DEF Below
    <3> QED
      BY <3>1, <3>2 DEF MayNotReturn, Below
  <2> QED
    BY <2>1, <2>2
<1>3. ASSUME NEW c \in CallsOf(f), NEW h \in Targets(c), MayNotReturn(h)
      PROVE  NoretPoints(f) # {}
  BY <1>3 DEF NoretPoints, Calls
<1>4. ASSUME MayNotReturn(f) PROVE NoretPoints(f) # {}
  <2>1. PICK g \in {f} \cup CalledFrom(f) : prog.exits[g] # {} \/ Recursive(g)
    BY <1>4 DEF MayNotReturn
  <2>2. CASE g \in CalledFrom(f)
    <3>1. PICK c \in CallsOf(f) : \E h \in Targets(c) : g \in Below(h)
      BY <2>2, CalledThroughTarget
    <3>2. PICK h \in Targets(c) : g \in Below(h)
      BY <3>1
    <3>3. MayNotReturn(h)
      BY <2>1, <3>2 DEF MayNotReturn, Below
    <3> QED
      BY <1>3, <3>3
  <2>3. CASE g \notin CalledFrom(f)
    BY <2>1, <2>3 DEF Recursive, NoretPoints, Exits
  <2> QED
    BY <2>2, <2>3
<1> QED
  BY <1>2, <1>4

-----------------------------------------------------------------------------
(* The stack.                                                              *)
(***************************************************************************)
LEMMA PushedFrame ==
  ASSUME NEW fr \in Frame, NEW t \in Seq(Frame)
  PROVE  /\ <<fr>> \o t \in Seq(Frame)
         /\ Len(<<fr>> \o t) = Len(t) + 1
         /\ (<<fr>> \o t)[1] = fr
         /\ \A i \in 2 .. Len(t) + 1 : (<<fr>> \o t)[i] = t[i - 1]
<1>1. <<fr>> \in Seq(Frame) /\ Len(<<fr>>) = 1 /\ <<fr>>[1] = fr
  OBVIOUS
<1>2. Len(t) \in Nat
  BY LenProperties
<1>3. /\ <<fr>> \o t \in Seq(Frame)
      /\ Len(<<fr>> \o t) = Len(t) + 1
      /\ \A i \in 1 .. 1 + Len(t) :
           (<<fr>> \o t)[i] = IF i <= 1 THEN <<fr>>[i] ELSE t[i - 1]
  BY <1>1, <1>2, ConcatProperties
<1> QED
  BY <1>1, <1>2, <1>3

LEMMA StackFacts ==
  ASSUME stack \in Seq(Frame)
  PROVE  /\ OnStack = {stack[i].fun : i \in 1 .. Len(stack)}
         /\ OnStack \subseteq Fun
         /\ \A i \in 1 .. Len(stack) : stack[i] \in Frame
         /\ stack # <<>> => /\ Len(stack) \in Nat \ {0}
                            /\ 1 \in 1 .. Len(stack)
                            /\ Top = stack[1]
                            /\ Top \in Frame
<1>1. /\ DOMAIN stack = 1 .. Len(stack)
      /\ \A i \in 1 .. Len(stack) : stack[i] \in Frame
  BY LenProperties, ElementOfSeq
<1>2. stack # <<>> => Len(stack) \in Nat \ {0} /\ 1 \in 1 .. Len(stack) /\ Top = stack[1]
  BY EmptySeq DEF Top
<1> QED
  BY <1>1, <1>2 DEF OnStack, Frame

LEMMA PoppedFrame ==
  ASSUME stack \in Seq(Frame), stack # <<>>
  PROVE  /\ Tail(stack) \in Seq(Frame)
         /\ Len(Tail(stack)) = Len(stack) - 1
         /\ \A i \in 1 .. Len(stack) - 1 : Tail(stack)[i] = stack[i + 1]
         /\ \A i \in 1 .. Len(stack) - 1 : i + 1 \in 1 .. Len(stack)
<1>1. Len(stack) \in Nat \ {0}
  BY StackFacts
<1> QED
  BY <1>1, HeadTailProperties

(* What the properties are about depends on the module only.               *)
LEMMA SameModule ==
  ASSUME prog' = prog
  PROVE  \A f, g : /\ Exits(f)' = Exits(f)
                   /\ CallsOf(f)' = CallsOf(f)
                   /\ Targets(f)' = Targets(f)
                   /\ CalledFrom(f)' = CalledFrom(f)
                   /\ Below(f)' = Below(f)
                   /\ MayNotReturn(f)' = MayNotReturn(f)
                   /\ NoretPoints(f)' = NoretPoints(f)
<1>1. \A f : Exits(f)' = Exits(f) /\ CallsOf(f)' = CallsOf(f) /\ Targets(f)' = Targets(f)
  BY DEF Exits, CallsOf, CallsIn, Targets
<1>2. \A f : Calls(f)' = Calls(f)
  BY <1>1 DEF Calls
<1>3. \A f : CalledFrom(f)' = CalledFrom(f)
  BY <1>2 DEF CalledFrom
<1>4. \A f : MayNotReturn(f)' = MayNotReturn(f)
  BY <1>3 DEF MayNotReturn, Recursive
<1>5. \A f : NoretPoints(f)' = NoretPoints(f)
  BY <1>1, <1>2, <1>4 DEF NoretPoints
<1> QED
  BY <1>1, <1>3, <1>4, <1>5 DEF Below

(* A step that replaces the innermost frame by one of the same function.   *)
LEMMA ReplacedFrame ==
  ASSUME prog \in Program, stack \in Seq(Frame), stack # <<>>, Chain,
         NEW fr \in Frame, fr.fun = Top.fun,
         stack' = <<fr>> \o Tail(stack), prog' = prog
  PROVE  /\ stack' \in Seq(Frame)
         /\ Len(stack') = Len(stack)
         /\ stack'[1] = fr
         /\ \A i \in 2 .. Len(stack) : stack'[i] = stack[i]
         /\ OnStack' = OnStack
         /\ Chain'
<1>1. /\ Len(stack) \in Nat \ {0} /\ Top = stack[1]
      /\ Tail(stack) \in Seq(Frame) /\ Len(Tail(stack)) = Len(stack) - 1
      /\ \A i \in 1 .. Len(stack) - 1 : Tail(stack)[i] = stack[i + 1]
  BY StackFacts, PoppedFrame
<1>2. /\ stack' \in Seq(Frame) /\ Len(stack') = Len(stack) /\ stack'[1] = fr
      /\ \A i \in 2 .. Len(stack) : stack'[i] = Tail(stack)[i - 1]
  BY <1>1, PushedFrame
<1>3. \A i \in 2 .. Len(stack) : stack'[i] = stack[i]
  <2> SUFFICES ASSUME NEW i \in 2 .. Len(stack) PROVE stack'[i] = stack[i]
    OBVIOUS
  <2>1. i - 1 \in 1 .. Len(stack) - 1 /\ (i - 1) + 1 = i
    BY <1>1
  <2> QED
    BY <1>1, <1>2, <2>1
<1>4. \A i \in 1 .. Len(stack) : stack'[i].fun = stack[i].fun
  <2>1. \A i \in 1 .. Len(stack) : i = 1 \/ i \in 2 .. Len(stack)
    BY <1>1
  <2> QED
    BY <1>1, <1>2, <1>3, <2>1
<1>5. OnStack' = OnStack
  <2>1. DOMAIN stack' = 1 .. Len(stack) /\ DOMAIN stack = 1 .. Len(stack)
    BY <1>2, LenProperties
  <2> QED
    BY <1>4, <2>1 DEF OnStack
<1>6. Chain'
  BY <1>2, <1>4, SameModule DEF Chain
<1> QED
  BY <1>2, <1>3, <1>5, <1>6

-----------------------------------------------------------------------------
LEMMA InitIInv == ASSUME Init PROVE IInv
<1>1. prog \in Program
  BY ProgramsAssumption DEF Init
<1>2. stack \in Seq(Frame) /\ todo \in Seq(Fun) /\ OnStack = {} /\ Len(stack) = 0
  BY EmptySeq DEF Init, OnStack
<1> QED
  BY <1>1, <1>2 DEF Init, IInv, Chain, FoundRight, NoretExact

(* A call of computeFuncInfo for a function that has no entry, by a query  *)
(* or by the innermost active call.                                        *)
LEMMA EnterIInv ==
  ASSUME IInv, NEW f \in Fun, f \notin known, Enter(f),
         stack = <<>> \/ f \in Calls(Top.fun),
         prog' = prog, todo' \in Seq(Fun)
  PROVE  IInv'
<1> DEFINE L == Len(stack)
           fr == [fun |-> f, rest |-> CallsOf(f), left |-> {}]
<1>1. /\ prog \in Program /\ stack \in Seq(Frame) /\ Chain /\ FoundRight /\ NoretExact
      /\ noret \in [Fun -> SUBSET Point] /\ known \in SUBSET Fun /\ OnStack \subseteq known
      /\ L \in Nat /\ \A i \in 1 .. L : FrameCovered(stack[i])
  BY LenProperties DEF IInv
<1>2. fr \in Frame
  BY <1>1, CallFacts DEF Frame
<1>3. /\ stack' \in Seq(Frame) /\ Len(stack') = L + 1 /\ stack'[1] = fr
      /\ \A i \in 2 .. L + 1 : stack'[i] = stack[i - 1]
  BY <1>1, <1>2, PushedFrame DEF Enter
<1>4. /\ known' = known \cup {f} /\ noret' = [noret EXCEPT ![f] = Exits(f)]
      /\ noret'[f] = Exits(f) /\ \A g \in Fun : g # f => noret'[g] = noret[g]
      /\ noret' \in [Fun -> SUBSET Point] /\ known' \in SUBSET Fun
  BY <1>1, ExitsFacts DEF Enter
<1> HIDE DEF fr, L
<1>5. \A i \in 1 .. L + 1 : i = 1 \/ (i # 1 /\ i \in 2 .. L + 1 /\ i - 1 \in 1 .. L)
  BY <1>1
<1>6. OnStack' = OnStack \cup {f}
  <2>1. /\ OnStack' = {stack'[i].fun : i \in 1 .. L + 1}
        /\ OnStack = {stack[i].fun : i \in 1 .. L}
    BY <1>1, <1>3, LenProperties DEF OnStack, L
  <2>2. 1 \in 1 .. L + 1 /\ \A i \in 1 .. L : i + 1 \in 2 .. L + 1 /\ (i + 1) - 1 = i
    BY <1>1
  <2>3. stack'[1].fun = f
    BY <1>3 DEF fr
  <2>4. \A i \in 1 .. L : i + 1 \in 1 .. L + 1 /\ stack'[i + 1].fun = stack[i].fun
    BY <1>1, <1>3, <2>2
  <2>5. \A i \in 1 .. L + 1 : stack'[i].fun \in OnStack \cup {f}
    BY <1>3, <1>5, <2>1, <2>3
  <2> QED
    BY <2>1, <2>2, <2>3, <2>4, <2>5
<1>7. Chain'
  <2> SUFFICES ASSUME NEW i \in 1 .. L + 1, NEW j \in 1 .. L + 1, i <= j
               PROVE  stack'[i].fun \in Below(stack'[j].fun)
    BY <1>3, SameModule DEF Chain
  <2>1. CASE j = 1
    <3>1. i = 1
      BY <1>1, <2>1
    <3> QED
      BY <2>1, <3>1 DEF Below
  <2>2. CASE j # 1
    <3>1. j - 1 \in 1 .. L /\ stack'[j] = stack[j - 1] /\ stack # <<>> /\ 1 <= j - 1
      BY <1>1, <1>3, <1>5, <2>2, EmptySeq DEF L
    <3>2. stack[j - 1].fun \in Fun
      BY <1>1, <3>1, StackFacts DEF L, Frame
    <3>3. CASE i = 1
      <4>1. Top = stack[1] /\ 1 \in 1 .. L
        BY <1>1, <3>1, StackFacts DEF L
      <4>2. Top.fun \in Below(stack[j - 1].fun)
        BY <1>1, <3>1, <4>1 DEF Chain, L
      <4>3. f \in CalledFrom(stack[j - 1].fun)
        BY <1>1, <3>1, <3>2, <4>2, BelowTransitive
      <4> QED
        BY <1>3, <3>1, <3>3, <4>3 DEF Below, fr
    <3>4. CASE i # 1
      <4>1. i - 1 \in 1 .. L /\ stack'[i] = stack[i - 1] /\ i - 1 <= j - 1
        BY <1>1, <1>3, <1>5, <3>4
      <4> QED
        BY <1>1, <3>1, <4>1 DEF Chain, L
    <3> QED
      BY <3>3, <3>4
  <2> QED
    BY <2>1, <2>2
<1>8. \A i \in 1 .. L + 1 : FrameCovered(stack[i])'
  <2> SUFFICES ASSUME NEW i \in 1 .. L + 1 PROVE FrameCovered(stack[i])'
    OBVIOUS
  <2>1. CASE i = 1
    <3>1. stack'[i].fun = f /\ stack'[i].rest = CallsOf(f) /\ stack'[i].left = {}
      BY <1>3, <2>1 DEF fr
    <3> QED
      BY <1>4, <3>1, SameModule DEF FrameCovered
  <2>2. CASE i # 1
    <3>1. i - 1 \in 1 .. L /\ stack'[i] = stack[i - 1]
      BY <1>3, <1>5, <2>2
    <3>2. stack[i - 1].fun \in known /\ stack[i - 1].fun \in Fun
      BY <1>1, <3>1, StackFacts DEF L
    <3>3. noret'[stack'[i].fun] = noret[stack[i - 1].fun]
      BY <1>4, <3>1, <3>2
    <3>4. FrameCovered(stack[i - 1])
      BY <1>1, <3>1
    <3> QED
      BY <3>1, <3>3, <3>4, SameModule DEF FrameCovered
  <2> QED
    BY <2>1, <2>2
<1>9. FoundRight'
  BY <1>1, <1>4, SameModule DEF FoundRight, NoretPoints
<1>10. NoretExact'
  BY <1>1, <1>4, <1>6, SameModule DEF NoretExact
<1> QED
  BY <1>1, <1>3, <1>4, <1>6, <1>7, <1>8, <1>9, <1>10 DEF IInv

(* A call of a function on the stack is a recursive one.                   *)
LEMMA OnStackRecursive ==
  ASSUME IInv, stack # <<>>, NEW g \in OnStack, g \in Calls(Top.fun)
  PROVE  MayNotReturn(g)
<1>1. prog \in Program /\ stack \in Seq(Frame) /\ Chain
  BY DEF IInv
<1>2. PICK i \in 1 .. Len(stack) : stack[i].fun = g
  BY <1>1, StackFacts
<1>3. g \in Fun /\ Top = stack[1] /\ 1 \in 1 .. Len(stack) /\ 1 <= i
  BY <1>1, <1>2, StackFacts
<1>4. Top.fun \in Below(g)
  BY <1>1, <1>2, <1>3 DEF Chain
<1>5. g \in CalledFrom(g)
  BY <1>1, <1>3, <1>4, BelowTransitive
<1> QED
  BY <1>5 DEF MayNotReturn, Recursive

(* A target on the stack or with an entry: it makes the call a point of no *)
(* return just if it may not return.                                       *)
LEMMA AccountIInv ==
  ASSUME IInv, NEW c, NEW g, Account(c, g)
  PROVE  IInv'
<1> DEFINE L == Len(stack)
           fr == [Top EXCEPT !.left = @ \ {<<c, g>>}]
           f == Top.fun
<1>1. /\ prog \in Program /\ stack \in Seq(Frame) /\ Chain /\ FoundRight /\ NoretExact
      /\ todo \in Seq(Fun)
      /\ noret \in [Fun -> SUBSET Point] /\ known \in SUBSET Fun /\ OnStack \subseteq known
      /\ \A i \in 1 .. L : FrameCovered(stack[i])
  BY DEF IInv
<1>2. /\ stack # <<>> /\ <<c, g>> \in Top.left /\ g \in known /\ g \in Fun
      /\ stack' = <<fr>> \o Tail(stack) /\ prog' = prog /\ todo' = todo /\ known' = known
      /\ noret' = [noret EXCEPT ![f] = IF CallIsNoret(g) THEN @ \cup {c} ELSE @]
  BY <1>1 DEF Account, InCall, front
<1>3. /\ L \in Nat \ {0} /\ 1 \in 1 .. L /\ Top = stack[1] /\ Top \in Frame /\ f \in OnStack
      /\ f \in Fun /\ FrameCovered(Top)
  BY <1>1, <1>2, StackFacts DEF Frame
<1>4. /\ fr \in Frame /\ fr.fun = f /\ fr.rest = Top.rest /\ fr.left = Top.left \ {<<c, g>>}
  BY <1>3 DEF Frame
<1>5. c \in CallsOf(f) /\ c \in Point /\ g \in Targets(c) /\ g \in Calls(f)
  BY <1>1, <1>2, <1>3, CallFacts DEF FrameCovered, Calls
<1>6. CallIsNoret(g) <=> MayNotReturn(g)
  <2>1. CASE g \in OnStack
    BY <1>2, <1>5, <2>1, OnStackRecursive DEF CallIsNoret
  <2>2. CASE g \notin OnStack
    <3>1. noret[g] = NoretPoints(g)
      BY <1>1, <1>2, <2>2 DEF NoretExact
    <3> QED
      BY <1>1, <1>2, <2>2, <3>1, NoretPointsOf DEF CallIsNoret
  <2> QED
    BY <2>1, <2>2
<1> HIDE DEF fr, L, f
<1>7. /\ noret' \in [Fun -> SUBSET Point]
      /\ \A h \in Fun : noret[h] \subseteq noret'[h]
      /\ \A h \in Fun : h # f => noret'[h] = noret[h]
      /\ noret'[f] \subseteq noret[f] \cup {c}
      /\ c \in noret'[f] \/ noret'[f] = noret[f]
      /\ c \in noret'[f] \/ ~MayNotReturn(g)
      /\ MayNotReturn(g) \/ noret'[f] = noret[f]
  BY <1>1, <1>2, <1>3, <1>5, <1>6
<1>8. /\ stack' \in Seq(Frame) /\ Len(stack') = L /\ stack'[1] = fr
      /\ \A i \in 2 .. L : stack'[i] = stack[i]
      /\ OnStack' = OnStack /\ Chain'
  BY <1>1, <1>2, <1>4, ReplacedFrame DEF L, f
<1>9. \A i \in 1 .. L : FrameCovered(stack[i])'
  <2> SUFFICES ASSUME NEW i \in 1 .. L PROVE FrameCovered(stack[i])'
    OBVIOUS
  <2>1. CASE i = 1
    <3>1. stack'[i].fun = f /\ stack'[i].rest = Top.rest /\ stack'[i].left = Top.left \ {<<c, g>>}
      BY <1>4, <1>8, <2>1
    <3>2. ASSUME NEW d \in CallsOf(f) \ Top.rest, NEW h \in Targets(d), MayNotReturn(h)
          PROVE  d \in noret'[f] \/ <<d, h>> \in Top.left \ {<<c, g>>}
      <4>1. d \in noret[f] \/ <<d, h>> \in Top.left
        BY <1>3, <3>2 DEF FrameCovered, f
      <4>2. <<d, h>> = <<c, g>> => d = c /\ h = g
        OBVIOUS
      <4> QED
        BY <1>3, <1>7, <3>2, <4>1, <4>2
    <3>3. /\ Top.rest \subseteq CallsOf(f)
          /\ \A d \in Top.left : d[1] \in CallsOf(f) /\ d[2] \in Targets(d[1])
          /\ Exits(f) \subseteq noret'[f]
      BY <1>3, <1>7 DEF FrameCovered, f
    <3> QED
      BY <1>2, <3>1, <3>2, <3>3, SameModule DEF FrameCovered
  <2>2. CASE i # 1
    <3>1. stack'[i] = stack[i]
      BY <1>3, <1>8, <2>2
    <3>2. stack[i].fun \in Fun
      BY <1>1, StackFacts DEF L, Frame
    <3>3. noret[stack[i].fun] \subseteq noret'[stack'[i].fun]
      BY <1>7, <3>1, <3>2
    <3>4. FrameCovered(stack[i])
      BY <1>1 DEF L
    <3> QED
      BY <1>2, <3>1, <3>3, <3>4, SameModule DEF FrameCovered
  <2> QED
    BY <2>1, <2>2
<1>10. FoundRight'
  <2>1. MayNotReturn(g) => c \in NoretPoints(f)
    BY <1>5 DEF NoretPoints, Calls
  <2>2. \A h \in Fun : noret'[h] \subseteq NoretPoints(h)
    BY <1>1, <1>3, <1>7, <2>1 DEF FoundRight
  <2> QED
    BY <1>2, <2>2, SameModule DEF FoundRight
<1>11. NoretExact'
  BY <1>1, <1>2, <1>3, <1>7, <1>8, SameModule DEF NoretExact
<1> QED
  BY <1>1, <1>2, <1>7, <1>8, <1>9, <1>10, <1>11 DEF IInv

LEMMA NextCallIInv ==
  ASSUME IInv, NEW c, NextCall(c)
  PROVE  IInv'
<1> DEFINE L == Len(stack)
           fr == [Top EXCEPT !.rest = @ \ {c}, !.left = {c} \X Targets(c)]
           f == Top.fun
<1>1. /\ prog \in Program /\ stack \in Seq(Frame) /\ Chain /\ FoundRight /\ NoretExact
      /\ todo \in Seq(Fun)
      /\ noret \in [Fun -> SUBSET Point] /\ known \in SUBSET Fun /\ OnStack \subseteq known
      /\ \A i \in 1 .. L : FrameCovered(stack[i])
  BY DEF IInv
<1>2. /\ stack # <<>> /\ Top.left = {} /\ c \in Top.rest
      /\ stack' = <<fr>> \o Tail(stack) /\ prog' = prog
      /\ UNCHANGED <<todo, known, noret>>
  BY DEF NextCall, InCall, front
<1>3. /\ L \in Nat \ {0} /\ 1 \in 1 .. L /\ Top = stack[1] /\ Top \in Frame /\ f \in Fun
      /\ FrameCovered(Top)
  BY <1>1, <1>2, StackFacts DEF Frame
<1>4. c \in CallsOf(f) /\ c \in Point /\ Targets(c) \subseteq Fun
  BY <1>1, <1>2, <1>3, CallFacts DEF FrameCovered
<1>5. fr \in Frame /\ fr.fun = f /\ fr.rest = Top.rest \ {c} /\ fr.left = {c} \X Targets(c)
  BY <1>3, <1>4 DEF Frame
<1> HIDE DEF fr, L, f
<1>6. /\ stack' \in Seq(Frame) /\ Len(stack') = L /\ stack'[1] = fr
      /\ \A i \in 2 .. L : stack'[i] = stack[i]
      /\ OnStack' = OnStack /\ Chain'
  BY <1>1, <1>2, <1>5, ReplacedFrame DEF L, f
<1>7. \A i \in 1 .. L : FrameCovered(stack[i])'
  <2> SUFFICES ASSUME NEW i \in 1 .. L PROVE FrameCovered(stack[i])'
    OBVIOUS
  <2>1. CASE i = 1
    <3>1. /\ stack'[i].fun = f /\ stack'[i].rest = Top.rest \ {c}
          /\ stack'[i].left = {c} \X Targets(c)
      BY <1>5, <1>6, <2>1
    <3>2. /\ Top.rest \subseteq CallsOf(f) /\ Exits(f) \subseteq noret[f]
          /\ \A d \in CallsOf(f) \ Top.rest : \A g \in Targets(d) :
               MayNotReturn(g) => d \in noret[f]
      BY <1>2, <1>3 DEF FrameCovered, f
    <3>3. \A d \in CallsOf(f) \ (Top.rest \ {c}) : \A g \in Targets(d) :
            MayNotReturn(g) => d \in noret[f] \/ <<d, g>> \in {c} \X Targets(c)
      BY <3>2
    <3>4. \A d \in {c} \X Targets(c) : d[1] \in CallsOf(f) /\ d[2] \in Targets(d[1])
      BY <1>4
    <3> DEFINE W == {c} \X Targets(c)
    <3>5. stack'[i].left = W /\ noret'[f] = noret[f]
      BY <1>2, <3>1
    <3>6. /\ \A d \in CallsOf(f) \ (Top.rest \ {c}) : \A g \in Targets(d) :
               MayNotReturn(g) => d \in noret[f] \/ <<d, g>> \in W
          /\ \A d \in W : d[1] \in CallsOf(f) /\ d[2] \in Targets(d[1])
      BY <3>3, <3>4
    <3> HIDE DEF W
    <3>7. \A h : /\ CallsOf(h)' = CallsOf(h) /\ Exits(h)' = Exits(h)
                 /\ Targets(h)' = Targets(h) /\ MayNotReturn(h)' = MayNotReturn(h)
      BY <1>2, SameModule
    <3>8. (stack[i].rest \subseteq CallsOf(stack[i].fun))'
      BY <3>1, <3>2, <3>7
    <3>9. (\A d \in stack[i].left : d[1] \in CallsOf(stack[i].fun) /\ d[2] \in Targets(d[1]))'
      BY <3>1, <3>5, <3>6, <3>7
    <3>10. (Exits(stack[i].fun) \subseteq noret[stack[i].fun])'
      BY <3>1, <3>2, <3>5, <3>7
    <3>11. (\A d \in CallsOf(stack[i].fun) \ stack[i].rest : \A g \in Targets(d) :
              MayNotReturn(g) => d \in noret[stack[i].fun] \/ <<d, g>> \in stack[i].left)'
      BY <3>1, <3>5, <3>6, <3>7
    <3> QED
      BY <3>8, <3>9, <3>10, <3>11 DEF FrameCovered
  <2>2. CASE i # 1
    <3>1. stack'[i] = stack[i] /\ FrameCovered(stack[i])
      BY <1>1, <1>3, <1>6, <2>2 DEF L
    <3> QED
      BY <1>2, <3>1, SameModule DEF FrameCovered
  <2> QED
    BY <2>1, <2>2
<1>8. FoundRight' /\ NoretExact'
  BY <1>1, <1>2, <1>6, SameModule DEF FoundRight, NoretExact
<1> QED
  BY <1>1, <1>2, <1>6, <1>7, <1>8 DEF IInv

(* A call that has dealt with everything has found all points of no return *)
(* of its function.                                                        *)
LEMMA ReturnIInv == ASSUME IInv, Return PROVE IInv'
<1> DEFINE L == Len(stack)
           f == Top.fun
<1>1. /\ prog \in Program /\ stack \in Seq(Frame) /\ Chain /\ FoundRight /\ NoretExact
      /\ todo \in Seq(Fun)
      /\ noret \in [Fun -> SUBSET Point] /\ known \in SUBSET Fun /\ OnStack \subseteq known
      /\ \A i \in 1 .. L : FrameCovered(stack[i])
  BY DEF IInv
<1>2. /\ stack # <<>> /\ Top.left = {} /\ Top.rest = {}
      /\ stack' = Tail(stack) /\ prog' = prog /\ UNCHANGED <<todo, known, noret>>
  BY DEF Return, InCall, front
<1>3. /\ L \in Nat \ {0} /\ 1 \in 1 .. L /\ Top = stack[1] /\ f \in Fun
      /\ FrameCovered(Top)
  BY <1>1, <1>2, StackFacts DEF Frame
<1>4. noret[f] = NoretPoints(f)
  <2>1. Exits(f) \subseteq noret[f]
    BY <1>3 DEF FrameCovered
  <2>2. \A c \in CallsOf(f) : \A g \in Targets(c) : MayNotReturn(g) => c \in noret[f]
    BY <1>2, <1>3 DEF FrameCovered
  <2>3. NoretPoints(f) \subseteq noret[f]
    BY <2>1, <2>2 DEF NoretPoints
  <2> QED
    BY <1>1, <1>3, <2>3 DEF FoundRight
<1>5. /\ stack' \in Seq(Frame) /\ Len(stack') = L - 1
      /\ \A i \in 1 .. L - 1 : stack'[i] = stack[i + 1] /\ i + 1 \in 1 .. L
  BY <1>1, <1>2, PoppedFrame
<1> HIDE DEF L, f
<1>6. OnStack \subseteq OnStack' \cup {f} /\ OnStack' \subseteq OnStack
  <2>1. /\ OnStack' = {stack'[i].fun : i \in 1 .. L - 1}
        /\ OnStack = {stack[i].fun : i \in 1 .. L}
    BY <1>1, <1>5, LenProperties DEF OnStack, L
  <2>2. \A i \in 1 .. L : i = 1 \/ (i - 1 \in 1 .. L - 1 /\ (i - 1) + 1 = i)
    BY <1>3
  <2>3. ASSUME NEW i \in 1 .. L PROVE stack[i].fun \in OnStack' \cup {f}
    <3>1. CASE i = 1
      BY <1>3, <3>1 DEF f
    <3>2. CASE i # 1
      <4>1. i - 1 \in 1 .. L - 1 /\ (i - 1) + 1 = i
        BY <2>2, <3>2
      <4>2. stack'[i - 1] = stack[i]
        BY <1>5, <4>1
      <4> QED
        BY <2>1, <4>1, <4>2
    <3> QED
      BY <3>1, <3>2
  <2>4. \A i \in 1 .. L - 1 : stack'[i].fun \in OnStack
    BY <1>5, <2>1
  <2> QED
    BY <2>1, <2>3, <2>4
<1>7. Chain'
  <2> SUFFICES ASSUME NEW i \in 1 .. L - 1, NEW j \in 1 .. L - 1, i <= j
               PROVE  stack'[i].fun \in Below(stack'[j].fun)
    BY <1>2, <1>3, <1>5, SameModule DEF Chain
  <2>1. i + 1 <= j + 1
    BY <1>3
  <2> QED
    BY <1>1, <1>5, <2>1 DEF Chain, L
<1>8. \A i \in 1 .. L - 1 : FrameCovered(stack[i])'
  <2> SUFFICES ASSUME NEW i \in 1 .. L - 1 PROVE FrameCovered(stack[i])'
    OBVIOUS
  <2>1. stack'[i] = stack[i + 1] /\ FrameCovered(stack[i + 1])
    BY <1>1, <1>5 DEF L
  <2> QED
    BY <1>2, <2>1, SameModule DEF FrameCovered
<1>9. FoundRight'
  BY <1>1, <1>2, SameModule DEF FoundRight
<1>10. NoretExact'
  BY <1>1, <1>2, <1>4, <1>6, SameModule DEF NoretExact
<1> QED
  BY <1>1, <1>2, <1>5, <1>6, <1>7, <1>8, <1>9, <1>10 DEF IInv

(* Everything else leaves alone what has been found; a query only says for *)
(* which functions computeFuncInfo is called.                              *)
LEMMA OtherIInv ==
  ASSUME IInv, UNCHANGED <<prog, stack, known, noret>>, todo' \in Seq(Fun)
  PROVE  IInv'
<1>1. OnStack' = OnStack /\ Chain'
  BY SameModule DEF IInv, OnStack, Chain
<1>2. \A i \in 1 .. Len(stack) : FrameCovered(stack[i])'
  BY SameModule DEF IInv, FrameCovered
<1>3. FoundRight' /\ NoretExact'
  BY <1>1, SameModule DEF IInv, FoundRight, NoretExact
<1> QED
  BY <1>1, <1>2, <1>3 DEF IInv

LEMMA AskIInv ==
  ASSUME IInv, NEW fs \in Seq(Fun), NEW f, AskInterproc(fs, f)
  PROVE  IInv'
<1>1. UNCHANGED <<prog, stack, known, noret>> /\ todo' \in Seq(Fun)
  BY DEF AskInterproc, IInv
<1> QED
  BY <1>1, OtherIInv

LEMMA NextIInv == ASSUME IInv, [Next]_vars PROVE IInv'
<1>1. todo \in Seq(Fun)
  BY DEF IInv
<1>2. [f \in Fun |-> f] \in Seq(Fun)
  BY SizesAssumption, IsASeq DEF Fun
<1>3. ASSUME NEW f \in Fun,
             \/ GetDependencies(f) \/ GetBlockDependencies(f)
             \/ ComputeFunction(f) \/ GetNoReturns(f)
      PROVE  IInv'
  <2>1. <<f>> \in Seq(Fun) /\ <<>> \in Seq(Fun)
    OBVIOUS
  <2> QED
    BY <1>3, <2>1, AskIInv DEF GetDependencies, GetBlockDependencies, ComputeFunction,
                               GetNoReturns
<1>4. CASE ComputeAll
  <2>1. (IF opts.interproc /\ known # Fun THEN [f \in Fun |-> f] ELSE <<>>) \in Seq(Fun)
    BY <1>2, EmptySeq
  <2> QED
    BY <1>4, <2>1, AskIInv DEF ComputeAll
<1>5. ASSUME NEW f \in Fun, Descend(f) PROVE IInv'
  <2>1. stack # <<>> /\ stack \in Seq(Frame) /\ prog \in Program
    BY <1>5 DEF Descend, InCall, IInv
  <2>2. FrameCovered(Top)
    BY <2>1, StackFacts DEF IInv
  <2>3. f \in Calls(Top.fun)
    BY <1>5, <2>2 DEF Descend, FrameCovered, Calls
  <2> QED
    BY <1>1, <1>5, <2>3, EnterIInv DEF Descend, front
<1>6. CASE EnterNext
  <2>1. stack = <<>> /\ todo # <<>> /\ prog' = prog /\ todo' = Tail(todo)
    BY <1>6 DEF EnterNext, front
  <2>2. todo' \in Seq(Fun) /\ Head(todo) \in Fun
    BY <1>1, <2>1, HeadTailProperties
  <2>3. CASE Head(todo) \in known
    BY <1>6, <2>1, <2>2, <2>3, OtherIInv DEF EnterNext
  <2>4. CASE Head(todo) \notin known
    BY <1>6, <2>1, <2>2, <2>4, EnterIInv DEF EnterNext
  <2> QED
    BY <2>3, <2>4
<1>7. CASE AnswerNoReturns \/ StartCD \/ PopBlock \/ EndCD \/ Idle \/ UNCHANGED vars
  <2>1. UNCHANGED <<prog, stack, known, noret, todo>>
    BY <1>7 DEF AnswerNoReturns, StartCD, PopBlock, EndCD, Idle, vars, front
  <2> QED
    BY <1>1, <2>1, OtherIInv
<1> QED
  BY <1>3, <1>4, <1>5, <1>6, <1>7, AccountIInv, NextCallIInv, ReturnIInv DEF Next

(* The points of no return kept for a function are right as soon as its    *)
(* call of computeFuncInfo has returned, on every module, recursive or     *)
(* not, and after every sequence of queries.                               *)
THEOREM NoretCorrect == Spec => []NoretExact
<1>1. Init => IInv
  BY InitIInv
<1>2. IInv /\ [Next]_vars => IInv'
  BY NextIInv
<1>3. IInv => NoretExact
  BY DEF IInv
<1> QED
  BY <1>1, <1>2, <1>3, PTL DEF Spec

-----------------------------------------------------------------------------
(* computeCD.  While the fixpoint is computed, what has reached a block is *)
(* right, and along every edge either the block it leads to is still       *)
(* queued or everything has been handed on.                                *)
(***************************************************************************)
CallTargetsKnown == \A c \in CallsOf(want) : Targets(c) \subseteq known

ReachedRight ==
  \A b \in Block : \A c \in cds[b] : c \in Noret(want) /\ b \in After(want, c[2])

HandedOn ==
  \A a \in Block : \A b \in Succ(a) :
    b \in Range(queue) \/ cds[a] \cup BlockNoret(a) \subseteq cds[b]

CDInv ==
  /\ pc # "info" => stack = <<>>
  /\ want \in {0} \cup Fun
  /\ queue \in Seq(Block)
  /\ cds \in [Block -> SUBSET Point]
  /\ hasCD \subseteq Fun
  /\ DOMAIN blockCD = Fun /\ DOMAIN instrCD = Fun
  /\ pc = "cd" => want \in Fun /\ CallTargetsKnown /\ ReachedRight /\ HandedOn
  /\ InterprocExact

(* The blocks after block b: the least set that has its successors and     *)
(* those of its elements.                                                  *)
LEMMA SuccFacts ==
  ASSUME prog \in Program, NEW f \in Fun, NEW b \in Block
  PROVE  prog.succ[f][b] \subseteq Block
BY DEF Program

LEMMA AfterClosed ==
  ASSUME prog \in Program, NEW f \in Fun, NEW b \in Block
  PROVE  /\ prog.succ[f][b] \subseteq After(f, b)
         /\ \A a \in After(f, b) : a \in Block /\ prog.succ[f][a] \subseteq After(f, b)
<1> DEFINE succ == prog.succ[f]
           Closed == {A \in SUBSET Block : succ[b] \subseteq A /\ \A a \in A : succ[a] \subseteq A}
<1>1. After(f, b) = {a \in Block : \A A \in Closed : a \in A}
  BY DEF After
<1>2. \A A \in Closed : succ[b] \subseteq A /\ \A a \in A : succ[a] \subseteq A
  OBVIOUS
<1>3. \A a \in Block : succ[a] \subseteq Block
  BY SuccFacts
<1> HIDE DEF Closed, succ
<1>4. succ[b] \subseteq After(f, b) /\ \A a \in After(f, b) : a \in Block /\ succ[a] \subseteq After(f, b)
  BY <1>1, <1>2, <1>3
<1> QED
  BY <1>4 DEF succ

LEMMA AfterLeast ==
  ASSUME prog \in Program, NEW f \in Fun, NEW b \in Block, NEW A \in SUBSET Block,
         prog.succ[f][b] \subseteq A, \A a \in A : prog.succ[f][a] \subseteq A
  PROVE  After(f, b) \subseteq A
BY DEF After

(* A call by its function, block and place.                                *)
LEMMA CallPlace ==
  ASSUME prog \in Program, NEW f \in Fun, NEW c \in CallsOf(f)
  PROVE  /\ c[2] \in Block /\ c[3] \in Nat \ {0}
         /\ c \in Range(CallsIn(f, c[2]))
         /\ c \notin Exits(f)
         /\ \A b \in Block : c \in Range(CallsIn(f, b)) => b = c[2]
<1>1. PICK b \in Block : c \in Range(CallsIn(f, b))
  BY DEF CallsOf
<1>2. \A d \in Block : Len(prog.calls[f][d]) \in Nat
  <2>1. \A d \in Block : prog.calls[f][d] \in Seq(SUBSET Fun)
    BY DEF Program
  <2> QED
    BY <2>1, LenProperties
<1>3. \A d \in Block : c \in Range(CallsIn(f, d)) =>
        \E i \in 1 .. Len(prog.calls[f][d]) : c = <<f, d, i>>
  BY DEF CallsIn, Range
<1>4. PICK i \in 1 .. Len(prog.calls[f][b]) : c = <<f, b, i>>
  BY <1>1, <1>3
<1>5. i \in Nat \ {0}
  BY <1>2, <1>4
<1>6. c \notin Exits(f)
  BY <1>4, <1>5 DEF Exits
<1>7. \A d \in Block : c \in Range(CallsIn(f, d)) => d = c[2]
  BY <1>3
<1> QED
  BY <1>1, <1>4, <1>5, <1>6, <1>7

LEMMA NoretIsCalls ==
  ASSUME prog \in Program, NEW f \in Fun
  PROVE  Noret(f) = {c \in CallsOf(f) : \E g \in Targets(c) : MayNotReturn(g)}
<1>1. \A c \in CallsOf(f) : c \notin Exits(f)
  BY CallPlace
<1>2. \A c \in CallsOf(f) : \A g \in Targets(c) : g \in Calls(f)
  BY DEF Calls
<1> QED
  BY <1>1, <1>2 DEF Noret, NoretPoints

(* Nothing is being found out about any function when computeCD runs, so   *)
(* what a block contributes are its calls that may not return.             *)
LEMMA BlockNoretIs ==
  ASSUME IInv, stack = <<>>, want \in Fun, CallTargetsKnown, NEW b \in Block
  PROVE  BlockNoret(b) = {c \in Noret(want) : c[2] = b}
<1> USE DEF IInv
<1>1. OnStack = {}
  BY DEF OnStack
<1>2. \A c \in CallsOf(want) : \A g \in Targets(c) :
        g \in Fun /\ (noret[g] # {} <=> MayNotReturn(g))
  <2> SUFFICES ASSUME NEW c \in CallsOf(want), NEW g \in Targets(c)
               PROVE  g \in Fun /\ (noret[g] # {} <=> MayNotReturn(g))
    OBVIOUS
  <2>1. g \in Fun
    BY CallFacts
  <2>2. noret[g] = NoretPoints(g)
    BY <1>1 DEF NoretExact, CallTargetsKnown
  <2> QED
    BY <2>1, <2>2, NoretPointsOf
<1>3. \A c \in Range(CallsIn(want, b)) : c \in CallsOf(want) /\ c[2] = b
  BY CallPlace DEF CallsOf
<1>4. \A c \in CallsOf(want) : c[2] = b => c \in Range(CallsIn(want, b))
  BY CallPlace
<1> QED
  BY <1>2, <1>3, <1>4, NoretIsCalls DEF BlockNoret

-----------------------------------------------------------------------------
(* The queue.                                                              *)
(***************************************************************************)
(* SetToSeqs(A): sequences of just the elements of A.                      *)
LEMMA OrderOf ==
  ASSUME NEW A, IsFiniteSet(A), NEW order \in SetToSeqs(A)
  PROVE  order \in Seq(A) /\ Range(order) = A
<1> DEFINE D == 1 .. Cardinality(A)
<1>1. Cardinality(A) \in Nat
  BY FS_CardinalityType
<1>2. order \in [D -> A] /\ \A i, j \in D : i # j => order[i] # order[j]
  BY DEF SetToSeqs
<1>3. order \in Injection(D, A)
  BY <1>2, Fun_IsInj
<1>4. IsFiniteSet(D) /\ Cardinality(D) = Cardinality(A)
  BY <1>1, FS_Interval
<1>5. Range(order) = A
  BY <1>3, <1>4, FS_Injection, Fun_SurjectionProperties
<1> QED
  BY <1>1, <1>2, <1>5

LEMMA BlocksFinite ==
  IsFiniteSet(Block) /\ \A A \in SUBSET Block : IsFiniteSet(A)
<1>1. IsFiniteSet(Block)
  BY SizesAssumption, FS_Interval DEF Block
<1> QED
  BY <1>1, FS_Subset

LEMMA ConcatBlocks ==
  ASSUME NEW s \in Seq(Block), NEW t \in Seq(Block)
  PROVE  s \o t \in Seq(Block) /\ Range(s \o t) = Range(s) \cup Range(t)
<1>1. Range(s \o t) = Range(s) \cup Range(t)
  BY RangeConcatenation
<1> QED
  BY <1>1, ConcatProperties

LEMMA PoppedBlock ==
  ASSUME NEW q \in Seq(Block), q # <<>>
  PROVE  /\ Head(q) \in Block
         /\ Tail(q) \in Seq(Block)
         /\ Range(q) \subseteq {Head(q)} \cup Range(Tail(q))
<1>1. /\ Tail(q) \in Seq(Block) /\ Head(q) \in Block
      /\ Len(q) \in Nat \ {0} /\ Len(Tail(q)) = Len(q) - 1
      /\ Head(q) = q[1]
      /\ \A i \in 1 .. Len(Tail(q)) : Tail(q)[i] = q[i + 1]
  BY HeadTailProperties, LenProperties, EmptySeq
<1>2. DOMAIN q = 1 .. Len(q) /\ DOMAIN Tail(q) = 1 .. Len(q) - 1
  BY <1>1, LenProperties
<1>3. ASSUME NEW i \in DOMAIN q, i # 1
      PROVE  i - 1 \in DOMAIN Tail(q) /\ Tail(q)[i - 1] = q[i]
  BY <1>1, <1>2, <1>3
<1>4. \A i \in DOMAIN q : q[i] \in {Head(q)} \cup Range(Tail(q))
  BY <1>1, <1>3 DEF Range
<1> QED
  BY <1>1, <1>4 DEF Range

-----------------------------------------------------------------------------
(* The steps of computeCD.                                                 *)
(***************************************************************************)
(* What the answers are compared with depends on the module only.          *)
LEMMA SameAnswers ==
  ASSUME prog' = prog
  PROVE  \A f, x : /\ After(f, x)' = After(f, x)
                   /\ Noret(f)' = Noret(f)
                   /\ CallDependencies(f, x)' = CallDependencies(f, x)
<1>1. \A f, x : After(f, x)' = After(f, x)
  BY DEF After
<1>2. \A f : Noret(f)' = Noret(f)
  BY SameModule DEF Noret
<1> QED
  BY <1>1, <1>2 DEF CallDependencies

LEMMA SameBlockNoret ==
  ASSUME UNCHANGED <<prog, want, noret>>
  PROVE  \A b : BlockNoret(b)' = BlockNoret(b) /\ Succ(b)' = Succ(b)
BY DEF BlockNoret, Succ, CallsIn, Targets

LEMMA SameExact ==
  ASSUME UNCHANGED <<prog, hasCD, blockCD, instrCD>>, InterprocExact
  PROVE  InterprocExact'
BY SameModule, SameAnswers DEF InterprocExact

LEMMA StartCDInv == ASSUME IInv, CDInv, StartCD PROVE CDInv'
<1>1. /\ UNCHANGED <<prog, want, stack, known, noret, hasCD, blockCD, instrCD>>
      /\ stack = <<>> /\ want \in Fun /\ prog \in Program
  BY DEF StartCD, InfoDone, front, CDInv, IInv
<1>2. InterprocExact'
  BY <1>1, SameExact DEF CDInv
<1>3. CASE ~CallTargetsKnown
  <2>1. UNCHANGED <<cds, queue>> /\ pc' = "aborted"
    BY <1>3 DEF StartCD, CallTargetsKnown
  <2> QED
    BY <1>1, <1>2, <2>1 DEF CDInv
<1>4. CASE CallTargetsKnown
  <2>1. /\ cds' = [b \in Block |-> {}] /\ pc' = "cd"
        /\ \E order \in SetToSeqs(NoretEdges) : queue' = [i \in DOMAIN order |-> order[i][2]]
    BY <1>4 DEF StartCD, CallTargetsKnown
  <2>2. PICK order \in SetToSeqs(NoretEdges) : queue' = [i \in DOMAIN order |-> order[i][2]]
    BY <2>1
  <2>3. NoretEdges \subseteq Block \X Block /\ IsFiniteSet(NoretEdges)
    <3>1. NoretEdges \subseteq Block \X Block
      BY DEF NoretEdges
    <3>2. IsFiniteSet(Block \X Block)
      BY BlocksFinite, FS_Product
    <3> QED
      BY <3>1, <3>2, FS_Subset
  <2>4. order \in Seq(NoretEdges) /\ Range(order) = NoretEdges
    BY <2>2, <2>3, OrderOf
  <2>5. DOMAIN order = 1 .. Len(order) /\ Len(order) \in Nat
    BY <2>4, LenProperties
  <2>6. \A i \in 1 .. Len(order) : order[i] \in Block \X Block
    BY <2>3, <2>4, <2>5, ElementOfSeq
  <2>7. queue' \in Seq(Block)
    <3>1. \A i \in 1 .. Len(order) : order[i][2] \in Block
      BY <2>6
    <3> QED
      BY <2>2, <2>5, <3>1, IsASeq
  <2>8. \A e \in NoretEdges : e[2] \in Range(queue')
    <3>1. \A i \in DOMAIN order : order[i][2] \in Range(queue')
      BY <2>2 DEF Range
    <3>2. \A e \in NoretEdges : \E i \in DOMAIN order : order[i] = e
      BY <2>4 DEF Range
    <3> QED
      BY <3>1, <3>2
  <2>9. HandedOn'
    <3> SUFFICES ASSUME NEW a \in Block, NEW b \in Succ(a),
                        b \notin Range(queue')
                 PROVE  BlockNoret(a) = {}
      BY <1>1, <2>1, SameBlockNoret, SuccFacts DEF HandedOn, Succ
    <3>1. b \in Block
      BY <1>1, SuccFacts DEF Succ
    <3>2. <<a, b>> \notin NoretEdges
      BY <2>8
    <3> QED
      BY <3>1, <3>2 DEF NoretEdges
  <2>10. ReachedRight'
    BY <2>1 DEF ReachedRight
  <2>11. CallTargetsKnown'
    BY <1>1, <1>4, SameModule DEF CallTargetsKnown
  <2>12. cds' \in [Block -> SUBSET Point]
    BY <2>1
  <2> QED
    BY <1>1, <1>2, <2>7, <2>9, <2>10, <2>11, <2>12 DEF CDInv
<1> QED
  BY <1>3, <1>4

LEMMA PopBlockInv == ASSUME IInv, CDInv, PopBlock PROVE CDInv'
<1> DEFINE b == Head(queue)
<1>1. /\ UNCHANGED <<prog, pc, want, stack, known, noret, hasCD, blockCD, instrCD>>
      /\ pc = "cd" /\ stack = <<>> /\ want \in Fun /\ prog \in Program
      /\ queue \in Seq(Block) /\ queue # <<>>
      /\ cds \in [Block -> SUBSET Point]
      /\ cds' = [cds EXCEPT ![b] = Merged(b)]
      /\ CallTargetsKnown /\ ReachedRight /\ HandedOn
  BY DEF PopBlock, front, CDInv, IInv
<1>2. InterprocExact'
  BY <1>1, SameExact DEF CDInv
<1>3. /\ b \in Block /\ Tail(queue) \in Seq(Block)
      /\ Range(queue) \subseteq {b} \cup Range(Tail(queue))
  BY <1>1, PoppedBlock
<1>4. \A a \in Block : BlockNoret(a) = {c \in Noret(want) : c[2] = a}
  BY <1>1, BlockNoretIs
<1>5. Succ(b) \subseteq Block
  BY <1>1, <1>3, SuccFacts DEF Succ
<1>6. /\ queue' \in Seq(Block)
      /\ Range(Tail(queue)) \subseteq Range(queue')
      /\ Merged(b) # cds[b] => Succ(b) \subseteq Range(queue')
  <2>1. CASE Merged(b) = cds[b]
    BY <1>3, <2>1 DEF PopBlock
  <2>2. CASE Merged(b) # cds[b]
    <3>1. PICK order \in SetToSeqs(Succ(b)) : queue' = order \o Tail(queue)
      BY <2>2 DEF PopBlock
    <3>2. order \in Seq(Succ(b)) /\ Range(order) = Succ(b)
      BY <1>5, BlocksFinite, OrderOf
    <3>3. order \in Seq(Block)
      BY <1>5, <3>2, SeqMonotonic
    <3>4. Range(queue') = Range(order) \cup Range(Tail(queue)) /\ queue' \in Seq(Block)
      BY <1>3, <3>1, <3>3, ConcatBlocks
    <3> QED
      BY <3>2, <3>4
  <2> QED
    BY <2>1, <2>2
<1>7. \A c \in Merged(b) : c \in Noret(want) /\ b \in After(want, c[2])
  <2> SUFFICES ASSUME NEW c \in Merged(b), c \notin cds[b]
               PROVE  c \in Noret(want) /\ b \in After(want, c[2])
    BY <1>1, <1>3 DEF ReachedRight
  <2>1. PICK a \in Block : b \in prog.succ[want][a] /\ c \in cds[a] \cup BlockNoret(a)
    BY DEF Merged, Pred, Succ
  <2>2. CASE c \in cds[a]
    <3>1. c \in Noret(want) /\ a \in After(want, c[2])
      BY <1>1, <2>2 DEF ReachedRight
    <3>2. c[2] \in Block
      BY <1>1, <3>1, NoretIsCalls, CallPlace
    <3> QED
      BY <1>1, <2>1, <3>1, <3>2, AfterClosed
  <2>3. CASE c \in BlockNoret(a)
    BY <1>1, <1>4, <2>1, <2>3, AfterClosed
  <2> QED
    BY <2>1, <2>2, <2>3
<1>8. \A a \in Block : cds'[a] = IF a = b THEN Merged(b) ELSE cds[a]
  BY <1>1
<1>9. ReachedRight'
  BY <1>1, <1>7, <1>8, SameAnswers DEF ReachedRight
<1>10. HandedOn'
  <2> SUFFICES ASSUME NEW a \in Block, NEW d \in Succ(a), d \notin Range(queue')
               PROVE  cds'[a] \cup BlockNoret(a) \subseteq cds'[d]
    BY <1>1, SameBlockNoret DEF HandedOn
  <2>1. d \in Block
    BY <1>1, SuccFacts DEF Succ
  <2>2. CASE d = b
    <3>1. a \in Pred(b)
      BY <2>2 DEF Pred
    <3>2. cds[a] \cup BlockNoret(a) \subseteq Merged(b) /\ cds[b] \subseteq Merged(b)
      BY <3>1 DEF Merged
    <3>3. cds'[d] = Merged(b) /\ cds'[a] \subseteq cds[a] \cup Merged(b)
      BY <1>3, <1>8, <2>2
    <3>4. cds'[a] \subseteq Merged(b)
      BY <3>2, <3>3
    <3> QED
      BY <3>2, <3>3, <3>4
  <2>3. CASE d # b
    <3>1. cds[a] \cup BlockNoret(a) \subseteq cds[d]
      BY <1>1, <1>3, <1>6, <2>3 DEF HandedOn
    <3>2. a = b => Merged(b) = cds[b]
      BY <1>6
    <3> QED
      BY <1>8, <2>1, <2>3, <3>1, <3>2
  <2> QED
    BY <2>2, <2>3
<1>11. CallTargetsKnown'
  BY <1>1, SameModule DEF CallTargetsKnown
<1>12. cds' \in [Block -> SUBSET Point]
  <2>1. \A c \in Merged(b) : c \in Point
    BY <1>1, <1>7, NoretIsCalls, CallFacts
  <2> QED
    BY <1>1, <2>1
<1> QED
  BY <1>1, <1>2, <1>6, <1>9, <1>10, <1>11, <1>12 DEF CDInv

(* When the queue is empty, a call has reached all blocks after its own.   *)
LEMMA Finished ==
  ASSUME IInv, CDInv, pc = "cd", queue = <<>>, NEW c \in Noret(want)
  PROVE  \A b \in Block : c \in cds[b] <=> b \in After(want, c[2])
<1> DEFINE A == {b \in Block : c \in cds[b]}
<1>1. /\ stack = <<>> /\ want \in Fun /\ prog \in Program
      /\ CallTargetsKnown /\ ReachedRight /\ HandedOn
  BY DEF CDInv, IInv
<1>2. c[2] \in Block /\ c \in BlockNoret(c[2])
  <2>1. c[2] \in Block
    BY <1>1, NoretIsCalls, CallPlace
  <2> QED
    BY <1>1, <2>1, BlockNoretIs
<1>3. \A a \in Block : \A b \in prog.succ[want][a] :
        b \in Block /\ cds[a] \cup BlockNoret(a) \subseteq cds[b]
  <2>1. Range(queue) = {}
    BY DEF Range
  <2> QED
    BY <1>1, <2>1, SuccFacts DEF HandedOn, Succ
<1>4. prog.succ[want][c[2]] \subseteq A /\ \A a \in A : prog.succ[want][a] \subseteq A
  BY <1>2, <1>3
<1>5. After(want, c[2]) \subseteq A
  <2> HIDE DEF A
  <2>1. A \in SUBSET Block
    BY DEF A
  <2> QED
    BY <1>1, <1>2, <1>4, <2>1, AfterLeast
<1> QED
  BY <1>1, <1>5 DEF ReachedRight

LEMMA EndCDInv == ASSUME IInv, CDInv, EndCD PROVE CDInv'
<1>1. /\ UNCHANGED <<prog, stack, known, noret, cds, queue>>
      /\ pc = "cd" /\ queue = <<>> /\ stack = <<>> /\ want \in Fun /\ prog \in Program
      /\ pc' = "idle" /\ want' = 0
      /\ hasCD' = hasCD \cup {want}
      /\ DOMAIN blockCD = Fun /\ DOMAIN instrCD = Fun
      /\ blockCD' = [blockCD EXCEPT ![want] = cds]
      /\ instrCD' = [instrCD EXCEPT ![want] = InstrDeps]
      /\ CallTargetsKnown /\ ReachedRight
  BY DEF EndCD, front, CDInv, IInv
<1>2. ASSUME NEW x \in CallsOf(want)
      PROVE  cds[x[2]] \cup {d[2] : d \in {e \in InstrDeps : e[1] = x}}
               = CallDependencies(want, x)
  <2>1. x[2] \in Block /\ x[3] # 0
    BY <1>1, CallPlace
  <2>2. \A c \in Noret(want) : c \in CallsOf(want) /\ c[2] \in Block
    BY <1>1, NoretIsCalls, CallPlace
  <2>3. \A c \in CallsOf(want) : c \in BlockNoret(c[2]) <=> c \in Noret(want)
    BY <1>1, CallPlace, BlockNoretIs
  <2>4. {d[2] : d \in {e \in InstrDeps : e[1] = x}}
          = {c \in Noret(want) : x[2] = c[2] /\ c[3] < x[3]}
    <3>1. ASSUME NEW d \in InstrDeps, d[1] = x
          PROVE  d[2] \in Noret(want) /\ x[2] = d[2][2] /\ d[2][3] < x[3]
      BY <2>3, <3>1 DEF InstrDeps
    <3>2. ASSUME NEW c \in Noret(want), x[2] = c[2], c[3] < x[3]
          PROVE  <<x, c>> \in InstrDeps
      BY <2>2, <2>3, <3>2 DEF InstrDeps
    <3>3. ASSUME NEW c \in Noret(want), x[2] = c[2], c[3] < x[3]
          PROVE  \E e \in {e \in InstrDeps : e[1] = x} : e[2] = c
      <4>1. <<x, c>> \in InstrDeps /\ <<x, c>>[1] = x /\ <<x, c>>[2] = c
        BY <3>2, <3>3
      <4> QED
        BY <4>1
    <3> QED
      BY <3>1, <3>3
  <2>5. cds[x[2]] = {c \in Noret(want) : x[2] \in After(want, c[2])}
    <3>1. \A c \in cds[x[2]] : c \in Noret(want)
      BY <1>1, <2>1 DEF ReachedRight
    <3>2. \A c \in Noret(want) : c \in cds[x[2]] <=> x[2] \in After(want, c[2])
      BY <1>1, <2>1, Finished
    <3> QED
      BY <3>1, <3>2
  <2> QED
    BY <2>1, <2>4, <2>5 DEF CallDependencies
<1>3. InterprocExact'
  <2> SUFFICES ASSUME NEW f \in hasCD', NEW x \in CallsOf(f)
               PROVE  blockCD'[f][x[2]] \cup {d[2] : d \in {e \in instrCD'[f] : e[1] = x}}
                        = CallDependencies(f, x)
    BY <1>1, SameModule, SameAnswers DEF InterprocExact
  <2>1. CASE f = want
    <3>1. blockCD'[f] = cds /\ instrCD'[f] = InstrDeps
      BY <1>1, <2>1
    <3> QED
      BY <1>2, <2>1, <3>1
  <2>2. CASE f # want
    <3>1. f \in hasCD /\ f \in Fun
      BY <1>1, <2>2 DEF CDInv
    <3>2. blockCD'[f] = blockCD[f] /\ instrCD'[f] = instrCD[f]
      BY <1>1, <2>2, <3>1
    <3>3. blockCD[f][x[2]] \cup {d[2] : d \in {e \in instrCD[f] : e[1] = x}}
            = CallDependencies(f, x)
      BY <3>1 DEF CDInv, InterprocExact
    <3> QED
      BY <3>2, <3>3
  <2> QED
    BY <2>1, <2>2
<1> QED
  BY <1>1, <1>3 DEF CDInv

(* All other steps leave the results alone, and none of them is taken      *)
(* while computeCD runs.                                                   *)
LEMMA OtherCDInv ==
  ASSUME CDInv, UNCHANGED <<prog, cds, queue, hasCD, blockCD, instrCD>>,
         pc' # "cd", pc' # "info" => stack' = <<>>, want' \in {0} \cup Fun
  PROVE  CDInv'
<1>1. InterprocExact'
  BY SameExact DEF CDInv
<1> QED
  BY <1>1 DEF CDInv

LEMMA NextCDInv == ASSUME IInv, CDInv, [Next]_vars PROVE CDInv'
<1>1. ASSUME NEW fs, NEW f \in {0} \cup Fun, AskInterproc(fs, f), pc = "idle"
      PROVE  CDInv'
  <2>1. /\ UNCHANGED <<prog, stack, cds, queue, hasCD, blockCD, instrCD>>
        /\ pc' = "info" \/ pc' = "idle"
        /\ want' \in {0} \cup Fun
    BY <1>1 DEF AskInterproc, CDInv
  <2>2. stack' = <<>>
    BY <1>1, <2>1 DEF CDInv
  <2> QED
    BY <2>1, <2>2, OtherCDInv
<1>2. ASSUME NEW f \in Fun,
             \/ GetDependencies(f) \/ GetBlockDependencies(f)
             \/ ComputeFunction(f) \/ GetNoReturns(f)
      PROVE  CDInv'
  BY <1>1, <1>2 DEF GetDependencies, GetBlockDependencies, ComputeFunction, GetNoReturns
<1>3. CASE ComputeAll
  BY <1>1, <1>3 DEF ComputeAll
<1>4. ASSUME \/ EnterNext \/ Return
             \/ \E f \in Fun : Descend(f)
             \/ InCall /\ \E c \in Top.rest : NextCall(c)
             \/ InCall /\ \E d \in Top.left : Account(d[1], d[2])
      PROVE  CDInv'
  <2>1. UNCHANGED <<prog, pc, want, cds, queue, hasCD, blockCD, instrCD>> /\ pc = "info"
    BY <1>4 DEF EnterNext, Return, Descend, NextCall, Account, InCall, front
  <2>2. want' \in {0} \cup Fun
    BY <2>1 DEF CDInv
  <2> QED
    BY <2>1, <2>2, OtherCDInv
<1>5. CASE AnswerNoReturns
  <2>1. /\ UNCHANGED <<prog, want, stack, cds, queue, hasCD, blockCD, instrCD>>
        /\ pc' = "idle" /\ stack = <<>>
    BY <1>5 DEF AnswerNoReturns, InfoDone, front
  <2>2. want' \in {0} \cup Fun
    BY <2>1 DEF CDInv
  <2> QED
    BY <2>1, <2>2, OtherCDInv
<1>6. CASE Idle \/ UNCHANGED vars
  <2>1. UNCHANGED <<prog, pc, want, stack, known, noret, cds, queue, hasCD, blockCD, instrCD>>
    BY <1>6 DEF Idle, vars, front
  <2>2. InterprocExact'
    BY <2>1, SameExact DEF CDInv
  <2>3. pc = "cd" => (CallTargetsKnown /\ ReachedRight /\ HandedOn)'
    <3> SUFFICES ASSUME pc = "cd" PROVE (CallTargetsKnown /\ ReachedRight /\ HandedOn)'
      OBVIOUS
    <3>1. CallTargetsKnown'
      BY <2>1, SameModule DEF CDInv, CallTargetsKnown
    <3>2. ReachedRight'
      BY <2>1, SameAnswers DEF CDInv, ReachedRight
    <3>3. HandedOn'
      BY <2>1, SameBlockNoret DEF CDInv, HandedOn
    <3> QED
      BY <3>1, <3>2, <3>3
  <2> QED
    BY <2>1, <2>2, <2>3 DEF CDInv
<1> QED
  BY <1>2, <1>3, <1>4, <1>5, <1>6, StartCDInv, PopBlockInv, EndCDInv DEF Next

(* Whenever dependencies on calls that may not return have been computed   *)
(* for a function, an instruction depends on exactly the calls that may    *)
(* not return and may be executed before it: for every module, every       *)
(* sequence of queries, and every order in which blocks are queued.        *)
THEOREM InterprocCorrect == Spec => []InterprocExact
<1>1. Init => IInv /\ CDInv
  <2>1. ASSUME Init PROVE CDInv
    BY <2>1 DEF Init, CDInv, InterprocExact
  <2> QED
    BY <2>1, InitIInv
<1>2. IInv /\ CDInv /\ [Next]_vars => (IInv /\ CDInv)'
  BY NextIInv, NextCDInv
<1>3. CDInv => InterprocExact
  BY DEF CDInv
<1> QED
  BY <1>1, <1>2, <1>3, PTL DEF Spec

=============================================================================
