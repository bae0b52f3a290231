----------------------------- MODULE UniqueMutex -----------------------------
(***************************************************************************)
(* fibers::unique_mutex_t, the coroutine mutex of                          *)
(* src/common/fibers/sync-primitives/unique-mutex.h, used by fibers that   *)
(* lock, may suspend while they hold the guard, and release it.            *)
(*                                                                         *)
(* The std::mutex waiters_mutex_ is held for one step only, so each of its *)
(* critical sections is one action.  pc[f] is where fiber f stands:        *)
(*   outside  holds nothing and waits for nothing;                         *)
(*   granted  took the free mutex in async_lock; the handler that builds   *)
(*            its guard is posted but has not run;                         *)
(*   waiting  its handler is stored in waiters_;                           *)
(*   critical holds a lock_guard_t.                                        *)
(***************************************************************************)
EXTENDS Executor, UniqueMutexOps

VARIABLES mutex, pc

vars == <<stack, ready, mutex, pc>>

PCs == {"outside", "granted", "waiting", "critical"}

TypeOK ==
    /\ ExecTypeOK
    /\ mutex \in UniqueMutexType(Fibers)
    /\ pc \in [Fibers -> PCs]

Init ==
    /\ ExecInit
    /\ mutex = UnlockedMutex
    /\ pc = [f \in Fibers |-> "outside"]

-----------------------------------------------------------------------------
(* Actions *)

\* async_lock: take the mutex and post the handler, or queue the handler.
\* The calling fiber suspends either way.
AsyncLock(t, f) ==
    /\ Running(t, f)
    /\ pc[f] = "outside"
    /\ Leave(t)
    /\ \/ /\ ~mutex.locked_
          /\ mutex' = Take(mutex)
          /\ Post(f)
          /\ pc' = [pc EXCEPT ![f] = "granted"]
       \/ /\ mutex.locked_
          /\ mutex' = Enqueue(mutex, f)
          /\ pc' = [pc EXCEPT ![f] = "waiting"]
          /\ UNCHANGED ready

\* unlock, from lock_guard_t::unlock or the guard's destructor: free the
\* mutex, or keep it locked and call the first waiter's handler.
Unlock(t, f) ==
    /\ Running(t, f)
    /\ pc[f] = "critical"
    /\ \/ /\ mutex.waiters_ = <<>>
          /\ mutex' = Release(mutex)
          /\ pc' = [pc EXCEPT ![f] = "outside"]
          /\ UNCHANGED stack
       \/ /\ mutex.waiters_ # <<>>
          /\ mutex' = HandOff(mutex)
          /\ pc' = [pc EXCEPT ![f] = "outside", ![FirstWaiter(mutex)] = "critical"]
          /\ Call(t, FirstWaiter(mutex))
    /\ UNCHANGED ready

\* A thread runs a posted handler; a granted fiber resumes with its guard.
Dispatch(t, f) ==
    /\ TakePosted(t, f)
    /\ pc' = [pc EXCEPT ![f] = IF @ = "granted" THEN "critical" ELSE @]
    /\ UNCHANGED mutex

\* The fiber awaits something else (a socket), or returns.
Await(t, f) ==
    /\ Running(t, f)
    /\ pc[f] \in {"outside", "critical"}
    /\ Leave(t)
    /\ UNCHANGED <<ready, mutex, pc>>

\* What f awaited completes (or f is spawned): its handler is posted.
Complete(f) ==
    /\ pc[f] \in {"outside", "critical"}
    /\ ~OnStack(f)
    /\ f \notin ready
    /\ Post(f)
    /\ UNCHANGED <<stack, mutex, pc>>

Next ==
    \/ \E t \in Threads, f \in Fibers :
          AsyncLock(t, f) \/ Unlock(t, f) \/ Dispatch(t, f) \/ Await(t, f)
    \/ \E f \in Fibers : Complete(f)

Spec == Init /\ [][Next]_vars

\* Threads keep running what they have started, awaited I/O of a fiber that
\* holds the guard completes, every posted handler is eventually taken
\* (io_context queues are first-in first-out), and no fiber holds the guard
\* for ever (guards are scoped to blocks without loops).
Fairness ==
    /\ \A t \in Threads, f \in Fibers : WF_vars(Await(t, f) \/ AsyncLock(t, f))
    /\ \A f \in Fibers :
          /\ WF_vars(pc[f] = "critical" /\ Complete(f))
          /\ SF_vars(\E t \in Threads : Dispatch(t, f))
          /\ SF_vars(\E t \in Threads : Unlock(t, f))

FairSpec == Spec /\ Fairness

-----------------------------------------------------------------------------
(* Properties *)

\* The fibers that own the mutex.
Owners == {f \in Fibers : pc[f] \in {"granted", "critical"}}

\* At most one fiber owns the mutex, also while ownership travels through a
\* posted handler (async_lock) or through the direct call unlock makes.
MutualExclusion == \A f, g \in Owners : f = g

\* locked_ is set exactly while some fiber owns the mutex, and nobody is
\* queued on a mutex that nobody will release: unlock loses no waiter.
NoLostWakeup ==
    /\ mutex.locked_ <=> Owners # {}
    /\ mutex.waiters_ # <<>> => mutex.locked_

\* A fiber waits exactly when its handler is stored, once, in waiters_; it
\* is then suspended and not posted, so unlock resumes a coroutine that is
\* really at rest.
WaitersExact ==
    /\ \A f \in Fibers :
          pc[f] = "waiting" <=> \E i \in 1..Len(mutex.waiters_) : mutex.waiters_[i] = f
    /\ \A i, j \in 1..Len(mutex.waiters_) : mutex.waiters_[i] = mutex.waiters_[j] => i = j
    /\ \A f \in Fibers : pc[f] = "waiting" => ~OnStack(f) /\ f \notin ready

\* Hand-off in arrival order: while somebody waits, the mutex passes only
\* from its owner to the first in line, never to a newcomer (unlock leaves
\* locked_ set when it calls a waiter).
NoBarging ==
    [][mutex.waiters_ # <<>> =>
          Owners' = Owners \/ Owners' = {Head(mutex.waiters_)}]_vars

\* Every fiber whose handler is queued eventually holds the guard.
EveryWaiterServed == \A f \in Fibers : pc[f] = "waiting" ~> pc[f] = "critical"
=============================================================================
