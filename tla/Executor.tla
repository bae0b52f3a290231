------------------------------ MODULE Executor ------------------------------
(***************************************************************************)
(* The part of Boost.Asio the broker's coroutines run on (external code,   *)
(* modelled from how src/main.cpp and the synchronisation primitives use   *)
(* it).                                                                    *)
(*                                                                         *)
(* main() runs one io_context on several threads.  A coroutine ("fiber")   *)
(* advances only on the call stack of a thread, and gets there in one of   *)
(* two ways:                                                               *)
(*   - a handler that was posted for it is taken by an idle thread;        *)
(*   - a mutex that is being released calls the fiber's completion handler *)
(*     directly, so the fiber runs on top of the releasing one, which goes *)
(*     on only after the fiber it resumed has suspended.                   *)
(* stack[t] is the sequence of fibers on thread t, the running one first.  *)
(* ready is the set of fibers with a posted handler.  The order in which   *)
(* threads take posted handlers is left open.                              *)
(***************************************************************************)
EXTENDS Naturals, Sequences, FiniteSets

CONSTANTS Threads,  \* threads that call io_context::run()
          Fibers    \* coroutines

VARIABLES stack,    \* stack[t]: fibers on thread t's call stack, running one first
          ready     \* fibers whose resumption has been posted

ExecTypeOK ==
    /\ stack \in [Threads -> Seq(Fibers)]
    /\ ready \subseteq Fibers

ExecInit ==
    /\ stack = [t \in Threads |-> <<>>]
    /\ ready = {}

\* Fiber f is the one executing on thread t.
Running(t, f) == stack[t] # <<>> /\ Head(stack[t]) = f

\* Fiber f occupies a frame of some call stack (executing, or below a fiber
\* it has resumed).
OnStack(f) == \E t \in Threads : \E i \in 1..Len(stack[t]) : stack[t][i] = f

\* An idle thread takes the handler posted for f.
TakePosted(t, f) ==
    /\ stack[t] = <<>>
    /\ f \in ready
    /\ stack' = [stack EXCEPT ![t] = <<f>>]
    /\ ready' = ready \ {f}

\* The running fiber suspends: its frame leaves the call stack.
Leave(t) == stack' = [stack EXCEPT ![t] = Tail(@)]

\* The running fiber calls g's completion handler: g runs on top of it.
Call(t, g) == stack' = [stack EXCEPT ![t] = <<g>> \o @]

\* boost::asio::post of the handler that resumes f.
Post(f) == ready' = ready \cup {f}

\* A suspended fiber must not be resumed twice, nor while it executes: no
\* fiber occupies two frames, or a frame and a posted handler.
SingleFrame ==
    /\ \A t1, t2 \in Threads :
          \A i \in 1..Len(stack[t1]), j \in 1..Len(stack[t2]) :
              stack[t1][i] = stack[t2][j] => t1 = t2 /\ i = j
    /\ \A f \in ready : ~OnStack(f)
=============================================================================
