--------------------------- MODULE Executor_proofs ---------------------------
(***************************************************************************)
(* Facts about the call stacks and posted handlers of Executor, used by    *)
(* the proofs about the primitives that run on it: what each step does to  *)
(* the set of fibers on a stack, and when it keeps every fiber in one      *)
(* place (SingleFrame).                                                    *)
(***************************************************************************)
EXTENDS Executor, TLAPS

\* A thread's stack loses its first frame.
LEMMA LeaveStack ==
    ASSUME ExecTypeOK, NEW t \in Threads, NEW f \in Fibers, Running(t, f), Leave(t)
    PROVE  /\ stack' \in [Threads -> Seq(Fibers)]
           /\ Len(stack'[t]) = Len(stack[t]) - 1
           /\ \A i \in 1..Len(stack'[t]) : stack'[t][i] = stack[t][i + 1]
           /\ \A u \in Threads \ {t} : stack'[u] = stack[u]
           /\ f = stack[t][1] /\ 1 \in 1..Len(stack[t])
BY DEF ExecTypeOK, Running, Leave

\* A thread's stack gains a first frame.
LEMMA CallStack ==
    ASSUME ExecTypeOK, NEW t \in Threads, NEW g \in Fibers, Call(t, g)
    PROVE  /\ stack' \in [Threads -> Seq(Fibers)]
           /\ Len(stack'[t]) = Len(stack[t]) + 1
           /\ stack'[t][1] = g
           /\ \A i \in 2..Len(stack'[t]) : stack'[t][i] = stack[t][i - 1]
           /\ \A u \in Threads \ {t} : stack'[u] = stack[u]
BY DEF ExecTypeOK, Call

\* An idle thread's stack holds the fiber whose handler it took.
LEMMA TakeStack ==
    ASSUME ExecTypeOK, NEW t \in Threads, NEW f \in Fibers, TakePosted(t, f)
    PROVE  /\ stack' \in [Threads -> Seq(Fibers)]
           /\ stack[t] = <<>> /\ stack'[t] = <<f>>
           /\ \A u \in Threads \ {t} : stack'[u] = stack[u]
           /\ f \in ready /\ ready' = ready \ {f}
BY DEF ExecTypeOK, TakePosted

\* Nobody is on an empty stack.
LEMMA IdleOnStack ==
    ASSUME \A t \in Threads : stack[t] = <<>>
    PROVE  \A f : ~OnStack(f)
<1>1. Len(<<>>) = 0 /\ 1..0 = {}
  OBVIOUS
<1>2. QED
  BY <1>1 DEF OnStack

\* Leave removes the running fiber from the stacks and nobody else.
LEMMA LeaveOnStack ==
    ASSUME ExecTypeOK, SingleFrame,
           NEW t \in Threads, NEW f \in Fibers, Running(t, f), Leave(t)
    PROVE  \A g : OnStack(g)' => OnStack(g) /\ g # f
<1> SUFFICES ASSUME NEW g, NEW u \in Threads,
                    NEW i \in 1..Len(stack'[u]), stack'[u][i] = g
             PROVE  OnStack(g) /\ g # f
  BY DEF OnStack
<1>1. CASE u = t
  <2>1. i + 1 \in 1..Len(stack[t]) /\ stack[t][i + 1] = g /\ i + 1 # 1
    BY <1>1, LeaveStack DEF ExecTypeOK
  <2>2. stack[t][1] = f /\ 1 \in 1..Len(stack[t])
    BY LeaveStack
  <2>3. g # f
    BY <2>1, <2>2 DEF SingleFrame
  <2>4. QED
    BY <2>1, <2>3 DEF OnStack
<1>2. CASE u # t
  <2>1. i \in 1..Len(stack[u]) /\ stack[u][i] = g
    BY <1>2, LeaveStack
  <2>2. stack[t][1] = f /\ 1 \in 1..Len(stack[t])
    BY LeaveStack
  <2>3. g # f
    BY <1>2, <2>1, <2>2 DEF SingleFrame
  <2>4. QED
    BY <2>1, <2>3 DEF OnStack
<1>3. QED
  BY <1>1, <1>2

\* Call puts the called fiber on the stacks and nobody else.
LEMMA CallOnStack ==
    ASSUME ExecTypeOK, NEW t \in Threads, NEW g \in Fibers, Call(t, g)
    PROVE  \A h : OnStack(h)' => OnStack(h) \/ h = g
<1> SUFFICES ASSUME NEW h, NEW u \in Threads,
                    NEW i \in 1..Len(stack'[u]), stack'[u][i] = h, h # g
             PROVE  OnStack(h)
  BY DEF OnStack
<1>1. CASE u = t
  <2>1. i - 1 \in 1..Len(stack[t]) /\ stack[t][i - 1] = h
    BY <1>1, CallStack DEF ExecTypeOK
  <2>2. QED
    BY <2>1 DEF OnStack
<1>2. CASE u # t
  BY <1>2, CallStack DEF OnStack
<1>3. QED
  BY <1>1, <1>2

\* TakePosted puts the taken fiber on the stacks and nobody else.
LEMMA TakeOnStack ==
    ASSUME ExecTypeOK, NEW t \in Threads, NEW f \in Fibers, TakePosted(t, f)
    PROVE  \A h : OnStack(h)' => OnStack(h) \/ h = f
<1> SUFFICES ASSUME NEW h, NEW u \in Threads,
                    NEW i \in 1..Len(stack'[u]), stack'[u][i] = h, h # f
             PROVE  OnStack(h)
  BY DEF OnStack
<1>1. CASE u = t
  BY <1>1, TakeStack
<1>2. CASE u # t
  BY <1>2, TakeStack DEF OnStack
<1>3. QED
  BY <1>1, <1>2

\* The first conjunct of SingleFrame: all frames hold different fibers.
FramesDiffer ==
    \A t1, t2 \in Threads :
        \A i \in 1..Len(stack[t1]), j \in 1..Len(stack[t2]) :
            stack[t1][i] = stack[t2][j] => t1 = t2 /\ i = j

\* The two conjuncts of SingleFrame, the first one by name.
LEMMA SingleFrameParts ==
    SingleFrame <=> FramesDiffer /\ \A f \in ready : ~OnStack(f)
BY DEF SingleFrame, FramesDiffer

\* Frames stay different when one is removed, ...
LEMMA LeaveFrames ==
    ASSUME ExecTypeOK, FramesDiffer,
           NEW t \in Threads, NEW f \in Fibers, Running(t, f), Leave(t)
    PROVE  FramesDiffer'
<1> SUFFICES ASSUME NEW u \in Threads, NEW v \in Threads,
                    NEW i \in 1..Len(stack'[u]), NEW j \in 1..Len(stack'[v]),
                    stack'[u][i] = stack'[v][j]
             PROVE  u = v /\ i = j
  BY DEF FramesDiffer
<1> DEFINE old(w, k) == IF w = t THEN k + 1 ELSE k
<1>1. /\ old(u, i) \in 1..Len(stack[u]) /\ stack'[u][i] = stack[u][old(u, i)]
      /\ old(v, j) \in 1..Len(stack[v]) /\ stack'[v][j] = stack[v][old(v, j)]
  BY LeaveStack DEF ExecTypeOK
<1>2. u = v /\ old(u, i) = old(v, j)
  <2> HIDE DEF old
  <2>1. stack[u][old(u, i)] = stack[v][old(v, j)]
    BY <1>1
  <2>2. QED
    BY <1>1, <2>1 DEF FramesDiffer
<1>3. QED
  BY <1>2

\* ... when a fiber on no stack is called, ...
LEMMA CallFrames ==
    ASSUME ExecTypeOK, FramesDiffer,
           NEW t \in Threads, NEW g \in Fibers, ~OnStack(g), Call(t, g)
    PROVE  FramesDiffer'
<1> SUFFICES ASSUME NEW u \in Threads, NEW v \in Threads,
                    NEW i \in 1..Len(stack'[u]), NEW j \in 1..Len(stack'[v]),
                    stack'[u][i] = stack'[v][j]
             PROVE  u = v /\ i = j
  BY DEF FramesDiffer
<1> DEFINE new(w, k) == w = t /\ k = 1
           old(w, k) == IF w = t THEN k - 1 ELSE k
<1>1. ASSUME NEW w \in Threads, NEW k \in 1..Len(stack'[w])
      PROVE  \/ new(w, k) /\ stack'[w][k] = g
             \/ /\ ~new(w, k) /\ stack'[w][k] # g
                /\ old(w, k) \in 1..Len(stack[w])
                /\ stack'[w][k] = stack[w][old(w, k)]
  <2>1. CASE new(w, k)
    BY <2>1, CallStack
  <2>2. CASE ~new(w, k)
    <3>1. /\ old(w, k) \in 1..Len(stack[w])
          /\ stack'[w][k] = stack[w][old(w, k)]
      BY <2>2, CallStack DEF ExecTypeOK
    <3>2. QED
      BY <2>2, <3>1 DEF OnStack
  <2>3. QED
    BY <2>1, <2>2
<1>2. CASE new(u, i) /\ new(v, j)
  BY <1>2
<1>3. CASE ~new(u, i) /\ ~new(v, j)
  <2>1. /\ old(u, i) \in 1..Len(stack[u]) /\ stack'[u][i] = stack[u][old(u, i)]
        /\ old(v, j) \in 1..Len(stack[v]) /\ stack'[v][j] = stack[v][old(v, j)]
    BY <1>1, <1>3
  <2>2. u = v /\ old(u, i) = old(v, j)
    <3> HIDE DEF old
    <3>1. stack[u][old(u, i)] = stack[v][old(v, j)]
      BY <2>1
    <3>2. QED
      BY <2>1, <3>1 DEF FramesDiffer
  <2>3. QED
    BY <2>2
<1>4. QED
  BY <1>1, <1>2, <1>3

\* ... and when a posted fiber, which is on no stack, is taken.
LEMMA TakeFrames ==
    ASSUME ExecTypeOK, SingleFrame,
           NEW t \in Threads, NEW f \in Fibers, TakePosted(t, f)
    PROVE  FramesDiffer'
<1> SUFFICES ASSUME NEW u \in Threads, NEW v \in Threads,
                    NEW i \in 1..Len(stack'[u]), NEW j \in 1..Len(stack'[v]),
                    stack'[u][i] = stack'[v][j]
             PROVE  u = v /\ i = j
  BY DEF FramesDiffer
<1>1. ASSUME NEW w \in Threads, NEW k \in 1..Len(stack'[w])
      PROVE  \/ w = t /\ k = 1 /\ stack'[w][k] = f
             \/ w # t /\ stack'[w] = stack[w] /\ stack'[w][k] # f
  BY TakeStack DEF SingleFrame, OnStack
<1>2. QED
  BY <1>1 DEF SingleFrame

-----------------------------------------------------------------------------
(* What keeps every fiber in one place. *)

\* The running fiber suspends, with or without posting its own handler.
LEMMA LeaveSingle ==
    ASSUME ExecTypeOK, SingleFrame, NEW t \in Threads, NEW f \in Fibers,
           Running(t, f), Leave(t), UNCHANGED ready \/ Post(f)
    PROVE  SingleFrame'
BY LeaveFrames, LeaveOnStack, SingleFrameParts DEF Post, SingleFrame, FramesDiffer

\* The running fiber suspends and handlers are posted: for itself, or for
\* fibers on no stack.
LEMMA LeavePostSingle ==
    ASSUME ExecTypeOK, SingleFrame, NEW t \in Threads, NEW f \in Fibers,
           Running(t, f), Leave(t), NEW posted,
           ready' = ready \cup posted, \A g \in posted : g = f \/ ~OnStack(g)
    PROVE  SingleFrame'
BY LeaveFrames, LeaveOnStack, SingleFrameParts DEF SingleFrame, FramesDiffer

\* A handler is called directly: its fiber must be at rest.
LEMMA CallSingle ==
    ASSUME ExecTypeOK, SingleFrame, NEW t \in Threads, NEW g \in Fibers,
           ~OnStack(g), g \notin ready, Call(t, g), UNCHANGED ready
    PROVE  SingleFrame'
BY CallFrames, CallOnStack, SingleFrameParts DEF SingleFrame, FramesDiffer

\* A thread takes a posted handler.
LEMMA TakeSingle ==
    ASSUME ExecTypeOK, SingleFrame, NEW t \in Threads, NEW f \in Fibers,
           TakePosted(t, f)
    PROVE  SingleFrame'
BY TakeFrames, TakeOnStack, TakeStack, SingleFrameParts DEF SingleFrame, FramesDiffer

\* A handler is posted: its fiber must be at rest.
LEMMA PostSingle ==
    ASSUME SingleFrame, NEW f \in Fibers, ~OnStack(f), Post(f), UNCHANGED stack
    PROVE  SingleFrame'
BY DEF Post, SingleFrame, OnStack
=============================================================================
