----------------------------- MODULE MCSlicing ------------------------------
(* Model checking of the slicer. *)
EXTENDS SliceSoundness

Load(i, v) == Instr(i, "load", v, <<>>, <<>>, <<>>)
Store(i, v, a) == Instr(i, "store", v, <<a>>, <<>>, <<>>)
Not(i, a) == Instr(i, "not", 0, <<a>>, <<>>, <<>>)
Phi(i, a, to) == Instr(i, "phi", 0, a, to, <<>>)
Crit(i, a) == Instr(i, "crit", 0, <<a>>, <<>>, <<>>)
Call(i, f) == Instr(i, "call", 0, <<<<0, 0>>>>, <<>>, <<f>>)
CallArg(i, f, a) == Instr(i, "call", 0, <<<<0, 0>>, a>>, <<>>, <<f>>)
CallPtr(i, fs, a) == Instr(i, "call", 0, <<a>>, <<>>, fs)
Exit(i) == Instr(i, "exit", 0, <<>>, <<>>, <<>>)
Stop(i) == Instr(i, "unreachable", 0, <<>>, <<>>, <<>>)
Ret(i) == Instr(i, "ret", 0, <<>>, <<>>, <<>>)
RetV(i, a) == Instr(i, "ret", 0, <<a>>, <<>>, <<>>)
(* To one block or, on the value a, to one of two. *)
Goes(i, a, to) == IF Len(to) = 1 THEN Instr(i, "jmp", 0, <<>>, to, <<>>)
                                 ELSE Instr(i, "br", 0, <<a>>, to, <<>>)

Fun(code, arg) == [list |-> [k \in DOMAIN code |-> k], code |-> code, arg |-> arg]

Opt(cda, forward, rmcrit, cutoff) ==
  [cda |-> cda, forward |-> forward, rmcrit |-> rmcrit, cutoff |-> cutoff]

(* One function of four blocks, the last of which returns.  Blocks branch *)
(* on the first variable; roles say what else they do. *)
Body(k, role) ==
  CASE role = "flip1" -> <<Load(2, 1), Not(3, <<k, 2>>), Store(4, 1, <<k, 3>>)>>
    [] role = "flip2" -> <<Load(2, 2), Not(3, <<k, 2>>), Store(4, 2, <<k, 3>>)>>
    [] role = "crit"  -> <<Load(2, 2), Crit(3, <<k, 2>>)>>
    [] role = "none"  -> <<>>

Block(k, role, to) ==
  <<Load(1, 1)>> \o Body(k, role) \o <<Goes(5, <<k, 1>>, to)>>

Targets1 == {<<k>> : k \in 2 .. 4} \cup {<<2, 3>>, <<3, 4>>, <<2, 4>>}
Intra(t, roles) ==
  <<Fun(<<Block(1, "none", t[1]), Block(2, roles[1], t[2]), Block(3, roles[2], t[3]),
          Body(4, roles[3]) \o <<Ret(5)>> >>, FALSE)>>

(* All blocks are reachable from the first. *)
Reachable(t1, t2, t3) ==
  LET nx(S) == S \cup UNION {CASE k = 1 -> Range(t1) [] k = 2 -> Range(t2)
                              [] k = 3 -> Range(t3) [] OTHER -> {} : k \in S}
  IN  nx(nx(nx({1}))) = 1 .. 4

(* Blocks from which the last one is reached. *)
Leaving(t1, t2, t3) ==
  LET pv(S) == S \cup {k \in 1 .. 3 : Range(<<t1, t2, t3>>[k]) \cap S # {}}
  IN  pv(pv(pv({4})))

Shapes == {t \in Targets1 \X Targets1 \X Targets1 : Reachable(t[1], t[2], t[3])}

Roles == {<<"flip2", "flip1", "crit">>, <<"crit", "flip1", "none">>}

IntraInputs ==
  {<<Intra(t, r), Opt("standard", FALSE, FALSE, FALSE)>> :
     t \in {u \in Shapes : Leaving(u[1], u[2], u[3]) = 1 .. 4}, r \in Roles}
  \cup {<<Intra(t, r), Opt("ntscd", FALSE, FALSE, FALSE)>> : t \in Shapes, r \in Roles}

(* Programs of several functions. *)
Flip(k, i, v) == <<Load(i, v), Not(i + 1, <<k, i>>), Store(i + 2, v, <<k, i + 1>>)>>
End(k, i) == <<Load(i, 2), Crit(i + 1, <<k, i>>), Ret(i + 2)>>

FlipFun == Fun(<<Flip(1, 1, 2) \o <<Ret(4)>> >>, FALSE)
ExitFun == Fun(<< <<Exit(1), Stop(2)>> >>, FALSE)
MayExit == Fun(<< <<Load(1, 1), Goes(2, <<1, 1>>, <<2, 3>>)>>, <<Exit(1), Stop(2)>>, <<Ret(1)>> >>, FALSE)
NotArg == Fun(<< <<Not(1, <<0, Arg>>), RetV(2, <<1, 1>>)>> >>, TRUE)
Choose == Fun(<< <<Load(1, 1), Goes(2, <<1, 1>>, <<2, 3>>)>>, <<RetV(1, <<0, Arg>>)>>, <<RetV(1, <<0, 1>>)>> >>, TRUE)
CritFun == Fun(<< <<Crit(1, <<0, Arg>>), Ret(2)>> >>, TRUE)
Recurse == Fun(<< <<Load(1, 1), Goes(2, <<1, 1>>, <<2, 3>>)>>,
                  Flip(2, 1, 1) \o <<Call(4, 2)>> \o Flip(2, 5, 2) \o <<Goes(8, 0, <<3>>)>>,
                  <<Ret(1)>> >>, FALSE)
Calls(f) == Fun(<< <<Call(1, f), Ret(2)>> >>, FALSE)

Main1(code) == Fun(<<code>>, FALSE)

Once == Main1(<<Call(1, 2)>> \o End(1, 2))
Twice == Main1(<<Call(1, 2), Load(2, 2), Crit(3, <<1, 2>>), Call(4, 2)>> \o End(1, 5))
Looping == Fun(<< <<Goes(1, 0, <<2>>)>>, <<Load(1, 1), Call(2, 2), Goes(3, <<2, 1>>, <<3, 4>>)>>,
                  Flip(3, 1, 1) \o <<Goes(4, 0, <<2>>)>>, End(4, 1)>>, FALSE)
Guarded == Fun(<< <<Load(1, 1), Goes(2, <<1, 1>>, <<2, 3>>)>>, <<Call(1, 2), Goes(2, 0, <<3>>)>>,
                  End(3, 1)>>, FALSE)
Returned == Main1(<<Load(1, 1), CallArg(2, 2, <<1, 1>>), Crit(3, <<1, 2>>), Ret(4)>>)
Passed == Fun(<< <<Load(1, 1), Goes(2, <<1, 1>>, <<2, 3>>)>>,
                 <<Load(1, 2), CallArg(2, 2, <<2, 1>>), Goes(3, 0, <<3>>)>>, <<Ret(1)>> >>, FALSE)
Pointer == Main1(<<Load(1, 1), CallPtr(2, <<2, 3>>, <<1, 1>>)>> \o End(1, 3))
Joined == Fun(<< <<Load(1, 1), Load(2, 2), Goes(3, <<1, 1>>, <<2, 3>>)>>, <<Goes(1, 0, <<4>>)>>,
                 <<Not(1, <<1, 2>>), Goes(2, 0, <<4>>)>>,
                 <<Phi(1, <<<<1, 2>>, <<3, 1>>>>, <<2, 3>>), Crit(2, <<4, 1>>), Ret(3)>> >>, FALSE)
Counted == Fun(<< <<Load(1, 1), Goes(2, 0, <<2>>)>>,
                  <<Phi(1, <<<<1, 1>>, <<3, 1>>>>, <<1, 3>>), Goes(2, <<2, 1>>, <<3, 4>>)>>,
                  <<Not(1, <<2, 1>>)>> \o Flip(3, 2, 2) \o <<Goes(5, 0, <<2>>)>>, End(4, 1)>>, FALSE)
Unused == Main1(Flip(1, 1, 2) \o End(1, 4))
NoCriterion == Main1(Flip(1, 1, 2) \o <<Ret(4)>>)

Inter ==
  {<<m, f>> : m \in {Once, Twice, Looping, Guarded}, f \in {FlipFun, ExitFun, MayExit, Recurse}}
  \cup {<<m, Calls(3), f>> : m \in {Once, Guarded}, f \in {FlipFun, ExitFun, MayExit}}
  \cup {<<Returned, f>> : f \in {NotArg, Choose}}
  \cup {<<Passed, CritFun>>, <<Pointer, FlipFun, MayExit>>, <<Joined>>, <<Counted>>,
        <<Unused, FlipFun, Calls(2), Calls(4)>>, <<NoCriterion>>, <<NoCriterion, CritFun>>,
        <<NoCriterion, Calls(3), Calls(2) >>}

InterInputs ==
  {<<m, Opt(c, x[1], x[2], x[3])>> : m \in Inter, c \in {"standard", "ntscd"},
     x \in {<<FALSE, FALSE, FALSE>>, <<TRUE, FALSE, FALSE>>, <<FALSE, TRUE, FALSE>>,
            <<FALSE, FALSE, TRUE>>}}

SmallInputs == IntraInputs \cup InterInputs
=============================================================================
