--------------------------- MODULE SharedMutexOps ---------------------------
(***************************************************************************)
(* The data of fibers::shared_mutex_t and what the critical sections of    *)
(* its std::mutex (state_mutex_) do to it.  A waiter is represented by the *)
(* fiber its stored handler resumes.  The counters are size_t in the code; *)
(* they stay far below 2^64, and the type invariant shows that they never  *)
(* step below zero.                                                        *)
(***************************************************************************)
EXTENDS Integers, Sequences

\* The values of a mutex used by the fibers in F.
SharedMutexType(F) ==
    [writer_active_   : BOOLEAN,
     reader_count_    : Nat,
     writers_waiting_ : Nat,
     shared_waiters_  : Seq(F),
     unique_waiters_  : Seq(F)]

IdleMutex ==
    [writer_active_   |-> FALSE,
     reader_count_    |-> 0,
     writers_waiting_ |-> 0,
     shared_waiters_  |-> <<>>,
     unique_waiters_  |-> <<>>]

-----------------------------------------------------------------------------
(* async_lock *)

LockFreeIgnoresReaders(m) == ~m.writer_active_

LockFree(m) == ~m.writer_active_ /\ m.reader_count_ = 0

TakeUnique(m) == [m EXCEPT !.writer_active_ = TRUE]

QueueUnique(m, f) ==
    [m EXCEPT !.writers_waiting_ = @ + 1, !.unique_waiters_ = Append(@, f)]

(* async_lock_shared *)

SharedFreeBarges(m) == ~m.writer_active_

SharedFree(m) == ~m.writer_active_ /\ m.writers_waiting_ = 0

TakeShared(m) == [m EXCEPT !.reader_count_ = @ + 1]

QueueShared(m, f) == [m EXCEPT !.shared_waiters_ = Append(@, f)]

-----------------------------------------------------------------------------
(* unlock and unlock_shared *)

\* unlock: the guard's owner stops being the writer ...
DropUniqueKeepsWriter(m) == m

DropUnique(m) == [m EXCEPT !.writer_active_ = FALSE]

\* unlock_shared: ... or one of the readers.
DropShared(m) == [m EXCEPT !.reader_count_ = @ - 1]

\* Both: the first queued writer becomes the writer; its handler is called.
PassToWriterKeepsCount(m) ==
    [m EXCEPT !.unique_waiters_ = Tail(@), !.writer_active_ = TRUE]

PassToWriter(m) ==
    [m EXCEPT !.unique_waiters_  = Tail(@),
              !.writers_waiting_ = @ - 1,
              !.writer_active_   = TRUE]

\* One turn of unlock's loop: the first queued reader becomes a reader; its
\* handler is called with state_mutex_ released.
PassToReaderWithoutPop(m) == [m EXCEPT !.reader_count_ = @ + 1]

PassToReaderUncounted(m) == [m EXCEPT !.shared_waiters_ = Tail(@)]

PassToReader(m) ==
    [m EXCEPT !.shared_waiters_ = Tail(@), !.reader_count_ = @ + 1]
=============================================================================
