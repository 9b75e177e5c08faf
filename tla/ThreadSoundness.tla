-------------------------- MODULE ThreadSoundness --------------------------
(***************************************************************************)
(* What the dependencies between threads promise.  After the analysis the  *)
(* program runs, its threads interleaved; what an execution does must be   *)
(* found among the dependencies, because the slicer keeps an instruction   *)
(* only if something in the slice depends on it.                           *)
(***************************************************************************)
EXTENDS ThreadRegions

CONSTANTS MaxThreads,    \* threads of an execution
          MaxDepth,      \* nesting of calls of a thread
          Objects        \* variables: numbers from 1; 0 is an unknown pointer

ASSUME ThreadsAssumption == MaxThreads \in Nat

ASSUME ObjectsAssumption ==
  \A P \in Programs : \A f \in DOMAIN P : \A b \in DOMAIN P[f] : \A i \in DOMAIN P[f][b].ins :
    P[f][b].ins[i].v \subseteq Objects \cup {0}

VARIABLES
  thr,    \* for each thread: its state, stack of points, fork node and locks
  last,   \* for each variable: <<instruction, thread>> that wrote it last
  hnd     \* for each handle: the thread (0: none)

execVars == <<thr, last, hnd>>

Threads == 1 .. MaxThreads

NoNode == EntryNode(Main)
NewThread(f, fork) == [st |-> "run", stk |-> <<<<f, 1, 1>>>>, fork |-> fork, held |-> {}]

ThreadAt(t) == Head(thr[t].stk)
Runs(t) == thr[t].st = "run"

NextPoint(x) == <<x[1], x[2], x[3] + 1>>
Moved(t, x) == [thr[t] EXCEPT !.stk = <<x>> \o Tail(@)]
Advance(t) == Moved(t, NextPoint(ThreadAt(t)))

PointedTo(x) == IF 0 \in InstrAt(prog, x).v THEN Objects ELSE InstrAt(prog, x).v

Load(t) ==
  /\ InstrAt(prog, ThreadAt(t)).op = "load"
  /\ thr' = [thr EXCEPT ![t] = Advance(t)]
  /\ UNCHANGED <<last, hnd>>

Store(t) ==
  /\ InstrAt(prog, ThreadAt(t)).op = "store"
  /\ \E o \in PointedTo(ThreadAt(t)) : last' = [last EXCEPT ![o] = <<ThreadAt(t), t>>]
  /\ thr' = [thr EXCEPT ![t] = Advance(t)]
  /\ UNCHANGED hnd

Branch(t) ==
  /\ InstrAt(prog, ThreadAt(t)).op = "br"
  /\ \E k \in prog[ThreadAt(t)[1]][ThreadAt(t)[2]].succ :
       thr' = [thr EXCEPT ![t] = Moved(t, <<ThreadAt(t)[1], k, 1>>)]
  /\ UNCHANGED <<last, hnd>>

Ended(t) == [thr[t] EXCEPT !.st = "done"]

(* When main returns the process ends.                                     *)
AllEnded == [t \in Threads |-> [thr[t] EXCEPT !.st = IF @ = "run" THEN "stopped" ELSE @]]

Return(t) ==
  /\ InstrAt(prog, ThreadAt(t)).op = "ret"
  /\ thr' = IF Len(thr[t].stk) > 1
            THEN [thr EXCEPT ![t].stk = <<NextPoint(@[2])>> \o Tail(Tail(@))]
            ELSE IF t = 1 THEN AllEnded ELSE [thr EXCEPT ![t] = Ended(t)]
  /\ UNCHANGED <<last, hnd>>

CallFunction(t, callee) ==
  /\ callee.k = "fun"
  /\ Len(thr[t].stk) < MaxDepth
  /\ \E f \in callee.fns : thr' = [thr EXCEPT ![t].stk = <<<<f, 1, 1>>>> \o @]
  /\ UNCHANGED <<last, hnd>>

(* Threads are numbered in the order of their creation.                    *)
Create(t, callee, fork) ==
  /\ callee.k = "create"
  /\ \E u \in {v \in Threads : thr[v].st = "off" /\ \A w \in 1 .. v - 1 : thr[w].st # "off"} :
     \E f \in callee.fns, h \in callee.h :
       /\ thr' = [thr EXCEPT ![t] = Advance(t), ![u] = NewThread(f, fork)]
       /\ hnd' = [hnd EXCEPT ![h] = u]
  /\ UNCHANGED last

Join(t, callee) ==
  /\ callee.k = "join"
  /\ \E h \in callee.h : hnd[h] # 0 /\ thr[hnd[h]].st = "done"
  /\ thr' = [thr EXCEPT ![t] = Advance(t)]
  /\ UNCHANGED <<last, hnd>>

ThreadExit(t, callee) ==
  /\ callee.k = "exit"
  /\ thr' = [thr EXCEPT ![t] = Ended(t)]
  /\ UNCHANGED <<last, hnd>>

Held(m) == {l \in UNION {thr[t].held : t \in Threads} : CalleeOfNode(prog, l).h = m}

Lock(t, callee, node) ==
  /\ callee.k = "lock"
  /\ Held(callee.h) = {}
  /\ thr' = [thr EXCEPT ![t] = [Advance(t) EXCEPT !.held = @ \cup {node}]]
  /\ UNCHANGED <<last, hnd>>

Unlock(t, callee) ==
  /\ callee.k = "unlock"
  /\ Held(callee.h) \cap thr[t].held # {}
  /\ thr' = [thr EXCEPT ![t] = [Advance(t) EXCEPT !.held = @ \ Held(callee.h)]]
  /\ UNCHANGED <<last, hnd>>

OtherCall(t, callee) ==
  /\ callee.k = "other"
  /\ thr' = [thr EXCEPT ![t] = Advance(t)]
  /\ UNCHANGED <<last, hnd>>

Call(t) ==
  /\ IsCallInst(prog, ThreadAt(t))
  /\ \E c \in DOMAIN InstrAt(prog, ThreadAt(t)).to :
       LET callee == InstrAt(prog, ThreadAt(t)).to[c]
           node == CalleeFirst(prog, ThreadAt(t), IF InstrAt(prog, ThreadAt(t)).ptr THEN c ELSE 0)
       IN  \/ CallFunction(t, callee)
           \/ Create(t, callee, node)
           \/ Join(t, callee)
           \/ ThreadExit(t, callee)
           \/ Lock(t, callee, node)
           \/ Unlock(t, callee)
           \/ OtherCall(t, callee)

Step ==
  /\ phase = "run"
  /\ \E t \in {u \in Threads : Runs(u)} :
       Load(t) \/ Store(t) \/ Branch(t) \/ Return(t) \/ Call(t)
  /\ UNCHANGED vars

Init ==
  /\ BuilderInit
  /\ thr = [t \in Threads |->
              IF t = 1 THEN NewThread(Main, NoNode)
              ELSE [NewThread(Main, NoNode) EXCEPT !.st = "off"]]
  /\ last = [o \in Objects |-> <<>>]
  /\ hnd = [h \in UNION {CalleeOfNode(prog, n).h : n \in Forks \cup Joins} |-> 0]

Next == (BuilderNext /\ UNCHANGED execVars) \/ Step

Spec == Init /\ [][Next]_<<vars, execVars>>

-----------------------------------------------------------------------------
(* The edges of the graph that regions are built on.                       *)
AllSuccessors(n) == cfg.succ[n] \cup cfg.thr[n]

(* ThreadRegionsBuilder: the search ends with every node it can reach in   *)
(* one region, and control enters a region at its founding node only.      *)
RegionsSingleEntry ==
  (phase = "run" /\ last = [o \in Objects |-> <<>>]) =>
    /\ EntryNode(Main) \in DOMAIN tr.examined /\ DOMAIN tr.visited = {}
    /\ \A n \in DOMAIN tr.examined : \A s \in AllSuccessors(n) :
         /\ s \in DOMAIN tr.examined
         /\ \/ tr.examined[s] = tr.examined[n]
            \/ tr.founding[tr.examined[s]] = s
    /\ \A r \in DOMAIN tr.founding : tr.examined[tr.founding[r]] = r

(* computeInterferenceDependentEdges: when a thread reads a variable that  *)
(* another thread wrote last, the read depends on the write.               *)
InterferenceFound ==
  phase = "run" =>
    \A t \in {u \in Threads : Runs(u) /\ InstrAt(prog, ThreadAt(u)).op = "load"} :
      \A o \in {p \in PointedTo(ThreadAt(t)) : last[p] # <<>> /\ last[p][2] # t} :
        <<last[o][1], ThreadAt(t)>> \in deps.interference

(* Nothing branches between a lock and an unlock of the same mutex.        *)
Straight(lock) ==
  /\ \A n \in cs.sections[lock] \cup {lock} : \A a, b \in AllSuccessors(n) : a = b
  /\ \E n \in cs.sections[lock] :
       NodeType(n) = "UNLOCK" /\ CalleeOfNode(prog, n).h = CalleeOfNode(prog, lock).h

(* computeCriticalSections: what a thread executes while it holds a mutex  *)
(* depends on the call that locked it, which in turn depends on the unlock,*)
(* unless the search saw all unlocks before it came to the rest of a       *)
(* branch.  A thread that comes back to the very call waits for itself.    *)
HeldCovered ==
  phase = "run" =>
    \A t \in {u \in Threads : Runs(u)} :
      \A l \in {k \in thr[t].held : k \notin cs.ranOut \/ Straight(k)} :
        /\ \/ <<NodeInstr(l), ThreadAt(t)>> \in deps.sections
           \/ ThreadAt(t) = NodeInstr(l)
        /\ \A c \in DOMAIN InstrAt(prog, ThreadAt(t)).to :
             InstrAt(prog, ThreadAt(t)).to[c].k = "unlock" =>
               <<ThreadAt(t), NodeInstr(l)>> \in deps.sections

(* The threads that a join waits for, now that they have ended.            *)
Joined(t) ==
  {u \in Threads : thr[u].st = "done" /\
     \E c \in DOMAIN InstrAt(prog, ThreadAt(t)).to :
       /\ InstrAt(prog, ThreadAt(t)).to[c].k = "join"
       /\ \E h \in InstrAt(prog, ThreadAt(t)).to[c].h : hnd[h] = u}

ForkOfFound(t, u) == <<ThreadAt(t), NodeInstr(thr[u].fork)>> \in deps.forkjoin

(* ForkJoinAnalysis::matchJoin is right about the call that created the    *)
(* thread a join waits for where that call names pthread_create directly   *)
(* and no other call may spawn the same function.                          *)
ForksMatchedWhereDistinct ==
  phase = "run" =>
    \A t \in {u \in Threads : Runs(u)} : \A u \in Joined(t) :
      \/ ForkOfFound(t, u)
      \/ thr[u].fork[4] # 0
      \/ \E f \in Forks \ {thr[u].fork} :
           CalleeOfNode(prog, f).fns \cap CalleeOfNode(prog, thr[u].fork).fns # {}

-----------------------------------------------------------------------------
(***************************************************************************)
(* Programs for model checking.                                            *)
(***************************************************************************)
load(v) == Instr("load", v, FALSE, <<>>)
store(v) == Instr("store", v, FALSE, <<>>)
br == Instr("br", {}, FALSE, <<>>)
ret == Instr("ret", {}, FALSE, <<>>)
call(callee) == Instr("call", {}, FALSE, <<callee>>)
callptr(callees) == Instr("call", {}, TRUE, callees)

fun(f) == Callee("fun", {f}, {}, TRUE)
create(fns, h, now) == Callee("create", fns, h, now)
join(h) == Callee("join", {}, h, TRUE)
lock(m) == Callee("lock", {}, {m}, TRUE)
unlock(m) == Callee("unlock", {}, {m}, TRUE)
pexit == Callee("exit", {}, {}, TRUE)
other == Callee("other", {}, {}, TRUE)

Block(ins, succ) == [ins |-> ins, succ |-> succ]

(* main creates a thread in one of several ways, branches, and joins it.   *)
Spawns ==
  {call(create({2}, {"t"}, TRUE)),
   callptr(<<create({2}, {"t"}, TRUE)>>),
   callptr(<<create({2, 3}, {"t"}, FALSE), other>>),
   call(fun(3))}

Works ==
  {store({1}), store({0}), call(fun(3)), callptr(<<fun(3), fun(2)>>), callptr(<<>>),
   callptr(<<pexit>>), call(pexit)}

SpawnPrograms ==
  {<<
     <<Block(<<s, br>>, {2, 3}),
       Block(<<w, br>>, {4}),
       Block(<<load({1}), br>>, loop),
       Block(<<call(join({"t"})), load({1, 2}), ret>>, {})>>,
     <<Block(<<load({1}), store({1}), ret>>, {})>>,
     <<Block(<<g, ret>>, {})>>
   >> : s \in Spawns, w \in Works, loop \in {{4}, {3, 4}},
        g \in {store({2}), call(create({2}, {"t"}, TRUE))}}

(* Two calls that may create the thread that is joined, the second one in  *)
(* a loop.                                                                 *)
JoinPrograms ==
  {<<
     <<Block(<<call(create(a, {"t"}, TRUE)), br>>, {2, 3}),
       Block(<<call(create(b, h, now)), br>>, {2, 3}),
       Block(<<call(join({"t"})), ret>>, {})>>,
     <<Block(<<store({1}), ret>>, {})>>,
     <<Block(<<load({1}), ret>>, {})>>
   >> : a \in {{2}, {2, 3}}, b \in {{2}, {3}}, h \in {{"t"}, {"s"}, {"s", "t"}},
        now \in BOOLEAN}

(* A critical section with a branch, a nested one in a function that it    *)
(* calls, and another thread with or without one.                          *)
LockPrograms ==
  {<<
     <<Block(<<call(create({2}, {"t"}, TRUE)), call(lock("m")), br>>, two),
       Block(<<store({1}), u, br>>, {4}),
       Block(<<w, load({1}), br>>, back),
       Block(<<v, call(join({"t"})), ret>>, {})>>,
     <<Block(thread, {})>>,
     <<Block(<<call(lock("n")), br>>, {2}), Block(<<call(unlock("n")), ret>>, {})>>
   >> : two \in {{3}, {2, 3}}, u \in {load({2}), call(unlock("m"))},
        v \in {load({2}), call(unlock("m"))}, w \in {store({2}), call(fun(3))},
        back \in {{4}, {3, 4}},
        thread \in {<<store({1}), ret>>,
                   <<call(lock("m")), store({1}), call(unlock("m")), ret>>}}

AllPrograms == SpawnPrograms \cup JoinPrograms \cup LockPrograms

=============================================================================
