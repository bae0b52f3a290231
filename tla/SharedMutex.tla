----------------------------- MODULE SharedMutex -----------------------------
(***************************************************************************)
(* fibers::shared_mutex_t, the readers-writer mutex of                     *)
(* src/common/fibers/sync-primitives/shared-mutex.h, used by fibers that   *)
(* take a shared or an exclusive guard, may suspend while they hold it,    *)
(* and release it.                                                         *)
(*                                                                         *)
(* state_mutex_ is held for one step only, so each of its critical         *)
(* sections is one action.  unlock() holds it again and again: it releases *)
(* it around every reader's handler it calls, so each turn of its loop is  *)
(* an action of its own (pc "unlocking").  pc[f] is where fiber f stands:  *)
(*   outside                 holds nothing and waits for nothing;          *)
(*   rgranted / wgranted     took the mutex in async_lock_shared /         *)
(*                           async_lock; the handler is posted;            *)
(*   rwaiting / wwaiting     its handler is stored in a queue;             *)
(*   reading / writing       holds the guard;                              *)
(*   unlocking               inside unlock(), in the loop over readers.    *)
(***************************************************************************)
EXTENDS Executor, SharedMutexOps

CONSTANTS Readers,  \* fibers that call lock_shared()
          Writers,  \* fibers that call lock(); a fiber may be in both sets
          AwaitUnder \* the guards ("reading", "writing") under which a fiber
                     \* may suspend; the broker's own code suspends under
                     \* the exclusive guard only

ASSUME RolesAssumption == Fibers = Readers \cup Writers

ASSUME FibersFinite == IsFiniteSet(Fibers)

ASSUME AwaitAssumption == AwaitUnder \subseteq {"reading", "writing"}

VARIABLES mutex, pc

vars == <<stack, ready, mutex, pc>>

PCs == {"outside", "rgranted", "wgranted", "rwaiting", "wwaiting",
        "reading", "writing", "unlocking"}

TypeOK ==
    /\ ExecTypeOK
    /\ mutex \in SharedMutexType(Fibers)
    /\ pc \in [Fibers -> PCs]

Init ==
    /\ ExecInit
    /\ mutex = IdleMutex
    /\ pc = [f \in Fibers |-> "outside"]

-----------------------------------------------------------------------------
(* Actions *)

\* async_lock: become the writer and post the handler, or queue the handler.
AsyncLock(t, f) ==
    /\ f \in Writers
    /\ Running(t, f)
    /\ pc[f] = "outside"
    /\ Leave(t)
    /\ \/ /\ LockFree(mutex)
          /\ mutex' = TakeUnique(mutex)
          /\ Post(f)
          /\ pc' = [pc EXCEPT ![f] = "wgranted"]
       \/ /\ ~LockFree(mutex)
          /\ mutex' = QueueUnique(mutex, f)
          /\ pc' = [pc EXCEPT ![f] = "wwaiting"]
          /\ UNCHANGED ready

\* async_lock_shared: become a reader and post the handler, or queue it.
AsyncLockShared(t, f) ==
    /\ f \in Readers
    /\ Running(t, f)
    /\ pc[f] = "outside"
    /\ Leave(t)
    /\ \/ /\ SharedFree(mutex)
          /\ mutex' = TakeShared(mutex)
          /\ Post(f)
          /\ pc' = [pc EXCEPT ![f] = "rgranted"]
       \/ /\ ~SharedFree(mutex)
          /\ mutex' = QueueShared(mutex, f)
          /\ pc' = [pc EXCEPT ![f] = "rwaiting"]
          /\ UNCHANGED ready

\* Hand the mutex m to the first queued writer and call its handler; the
\* releasing fiber f is done with the mutex.
CallWriter(t, f, m) ==
    LET g == Head(m.unique_waiters_)
    IN  /\ mutex' = PassToWriter(m)
        /\ pc' = [pc EXCEPT ![f] = "outside", ![g] = "writing"]
        /\ Call(t, g)

\* The head of unlock's loop: call the first queued reader's handler, or
\* leave the loop and return.
CallReaders(t, f, m) ==
    \/ LET g == Head(m.shared_waiters_)
       IN  /\ m.shared_waiters_ # <<>>
           /\ mutex' = PassToReader(m)
           /\ pc' = [pc EXCEPT ![f] = "unlocking", ![g] = "reading"]
           /\ Call(t, g)
    \/ /\ m.shared_waiters_ = <<>>
       /\ mutex' = m
       /\ pc' = [pc EXCEPT ![f] = "outside"]
       /\ UNCHANGED stack

\* unlock, up to the first handler it calls.
Unlock(t, f) ==
    LET m == DropUnique(mutex)
    IN  /\ Running(t, f)
        /\ pc[f] = "writing"
        /\ \/ m.unique_waiters_ # <<>> /\ CallWriter(t, f, m)
           \/ m.unique_waiters_ = <<>> /\ CallReaders(t, f, m)
        /\ UNCHANGED ready

\* unlock, after the called reader has suspended: state_mutex_ is locked
\* again and the loop goes on, whatever happened to the mutex meanwhile.
UnlockLoop(t, f) ==
    /\ Running(t, f)
    /\ pc[f] = "unlocking"
    /\ CallReaders(t, f, mutex)
    /\ UNCHANGED ready

\* unlock_shared: the last reader hands the mutex to a queued writer.
UnlockShared(t, f) ==
    LET m == DropShared(mutex)
    IN  /\ Running(t, f)
        /\ pc[f] = "reading"
        /\ \/ /\ m.reader_count_ = 0 /\ m.unique_waiters_ # <<>>
              /\ CallWriter(t, f, m)
           \/ /\ ~(m.reader_count_ = 0 /\ m.unique_waiters_ # <<>>)
              /\ mutex' = m
              /\ pc' = [pc EXCEPT ![f] = "outside"]
              /\ UNCHANGED stack
        /\ UNCHANGED ready

\* A thread runs a posted handler; a granted fiber resumes with its guard.
Dispatch(t, f) ==
    /\ TakePosted(t, f)
    /\ pc' = [pc EXCEPT ![f] = CASE @ = "rgranted" -> "reading"
                                 [] @ = "wgranted" -> "writing"
                                 [] OTHER -> @]
    /\ UNCHANGED mutex

\* The fiber awaits something else (a socket, another mutex), or returns.
Await(t, f) ==
    /\ Running(t, f)
    /\ pc[f] \in {"outside"} \cup AwaitUnder
    /\ Leave(t)
    /\ UNCHANGED <<ready, mutex, pc>>

\* What f awaited completes (or f is spawned): its handler is posted.
Complete(f) ==
    /\ pc[f] \in {"outside", "reading", "writing"}
    /\ ~OnStack(f)
    /\ f \notin ready
    /\ Post(f)
    /\ UNCHANGED <<stack, mutex, pc>>

Next ==
    \/ \E t \in Threads, f \in Fibers :
          \/ AsyncLock(t, f) \/ AsyncLockShared(t, f)
          \/ Unlock(t, f) \/ UnlockLoop(t, f) \/ UnlockShared(t, f)
          \/ Dispatch(t, f) \/ Await(t, f)
    \/ \E f \in Fibers : Complete(f)

Spec == Init /\ [][Next]_vars

\* As for UniqueMutex: threads keep running, I/O awaited under a guard
\* completes, posted handlers are taken, guards are released.
Fairness ==
    /\ \A t \in Threads, f \in Fibers :
          WF_vars(Await(t, f) \/ AsyncLock(t, f) \/ AsyncLockShared(t, f)
                  \/ UnlockLoop(t, f))
    /\ \A f \in Fibers :
          /\ WF_vars(pc[f] \in {"reading", "writing"} /\ Complete(f))
          /\ SF_vars(\E t \in Threads : Dispatch(t, f))
          /\ SF_vars(\E t \in Threads : Unlock(t, f) \/ UnlockShared(t, f))

FairSpec == Spec /\ Fairness

-----------------------------------------------------------------------------
(* Properties *)

ActiveReaders == {f \in Fibers : pc[f] \in {"rgranted", "reading"}}
ActiveWriters == {f \in Fibers : pc[f] \in {"wgranted", "writing"}}

\* A writer excludes every reader and every other writer.
Exclusion ==
    /\ \A f, g \in ActiveWriters : f = g
    /\ ActiveWriters # {} => ActiveReaders = {}

\* The counters say what they count, so that reader_count_ reaches zero
\* exactly when the last reader leaves and never wraps around.
CountersExact ==
    /\ mutex.reader_count_ = Cardinality(ActiveReaders)
    /\ mutex.writers_waiting_ = Len(mutex.unique_waiters_)

\* Nobody is queued on a mutex that nobody will hand over: a queued writer
\* has a writer or a reader ahead of it, a queued reader has a writer ahead
\* of it, queued or active, or is being served by unlock's loop.
NoLostWakeup ==
    /\ mutex.unique_waiters_ # <<>> => ActiveWriters \cup ActiveReaders # {}
    /\ mutex.shared_waiters_ # <<>> =>
          \/ ActiveWriters # {}
          \/ mutex.unique_waiters_ # <<>>
          \/ \E f \in Fibers : pc[f] = "unlocking"

\* Every fiber whose handler is queued for writing eventually writes.
EveryWriterServed == \A f \in Fibers : pc[f] = "wwaiting" ~> pc[f] = "writing"

\* unlock's loop ends, although other threads may queue readers while it runs.
UnlockReturns == \A f \in Fibers : pc[f] = "unlocking" ~> pc[f] # "unlocking"

\* Every fiber whose handler is queued for reading eventually reads.
EveryReaderServed == \A f \in Fibers : pc[f] = "rwaiting" ~> pc[f] = "reading"
=============================================================================
