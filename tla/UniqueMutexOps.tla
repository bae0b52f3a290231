--------------------------- MODULE UniqueMutexOps ---------------------------
(***************************************************************************)
(* The data of fibers::unique_mutex_t and what the critical sections of    *)
(* its std::mutex (waiters_mutex_) do to it.  A waiter is represented by   *)
(* the fiber its stored handler resumes.                                   *)
(***************************************************************************)
EXTENDS Naturals, Sequences

\* The values of a mutex used by the fibers in F.
UniqueMutexType(F) == [locked_ : BOOLEAN, waiters_ : Seq(F)]

UnlockedMutex == [locked_ |-> FALSE, waiters_ |-> <<>>]

\* async_lock on a free mutex.
TakeLeavesUnlocked(m) == m

Take(m) == [m EXCEPT !.locked_ = TRUE]

\* async_lock on a locked mutex: the handler joins the end of waiters_.
EnqueueAtFront(m, f) == [m EXCEPT !.waiters_ = <<f>> \o @]

Enqueue(m, f) == [m EXCEPT !.waiters_ = Append(@, f)]

\* unlock with nobody waiting.
ReleaseKeepsLocked(m) == m

Release(m) == [m EXCEPT !.locked_ = FALSE]

\* unlock with waiters: the first handler leaves waiters_ and is called after
\* waiters_mutex_ is released.  locked_ stays set: ownership is handed over.
HandOffClearsLocked(m) == [m EXCEPT !.locked_ = FALSE, !.waiters_ = Tail(@)]

HandOffWithoutPop(m) == m

HandOff(m) == [m EXCEPT !.waiters_ = Tail(@)]

\* The fiber that HandOff resumes.
LastWaiter(m) == m.waiters_[Len(m.waiters_)]

FirstWaiter(m) == Head(m.waiters_)
=============================================================================
