-------------------------- MODULE SharedMutex_proofs --------------------------
(***************************************************************************)
(* Proofs about SharedMutex, for any threads, readers and writers.         *)
(*                                                                         *)
(* With any number of writers the counters are exact and no waiter is      *)
(* forgotten (IInv).  That a writer is alone is a theorem for one writer   *)
(* only: with two, the loop in unlock() admits readers next to a writer.   *)
(***************************************************************************)
EXTENDS SharedMutex, Executor_proofs, FiniteSetTheorems

WaitingWriters == {f \in Fibers : pc[f] = "wwaiting"}
WaitingReaders == {f \in Fibers : pc[f] = "rwaiting"}
Unlocking      == {f \in Fibers : pc[f] = "unlocking"}

\* The sequence s lists every element of S once.
Lists(s, S) ==
    /\ \A x \in S : \E i \in 1..Len(s) : s[i] = x
    /\ \A i \in 1..Len(s) : s[i] \in S
    /\ \A i, j \in 1..Len(s) : s[i] = s[j] => i = j

\* The queues hold the handlers of the waiting fibers, which are at rest.
QueuesExact ==
    /\ Lists(mutex.unique_waiters_, WaitingWriters)
    /\ Lists(mutex.shared_waiters_, WaitingReaders)
    /\ \A f \in WaitingWriters \cup WaitingReaders : ~OnStack(f) /\ f \notin ready

\* The flag is never left set without a writer.  (The converse fails: with
\* two writers inside, the first to leave clears it.)
FlagOwned == mutex.writer_active_ => ActiveWriters # {}

IInv ==
    /\ TypeOK
    /\ CountersExact
    /\ NoLostWakeup
    /\ QueuesExact
    /\ SingleFrame
    /\ FlagOwned

-----------------------------------------------------------------------------
(* Queues *)

\* A new waiter joins a queue.
LEMMA ListsAppend ==
    ASSUME NEW S, NEW s \in Seq(Fibers), Lists(s, S), NEW x \in Fibers, x \notin S
    PROVE  Lists(Append(s, x), S \cup {x})
<1>1. /\ Len(Append(s, x)) = Len(s) + 1 /\ Len(s) \in Nat
      /\ \A i \in 1..Len(s) : Append(s, x)[i] = s[i]
      /\ Append(s, x)[Len(s) + 1] = x
  OBVIOUS
<1> DEFINE a == Append(s, x)
<1> HIDE DEF a
<1>2. \A y \in S \cup {x} : \E i \in 1..Len(a) : a[i] = y
  BY <1>1 DEF Lists, a
<1>3. \A i \in 1..Len(a) : i \in 1..Len(s) \/ i = Len(s) + 1
  BY <1>1 DEF a
<1>4. \A i \in 1..Len(a) : a[i] \in S \cup {x}
  BY <1>1, <1>3 DEF Lists, a
<1>5. ASSUME NEW i \in 1..Len(a), NEW j \in 1..Len(a), a[i] = a[j]
      PROVE  i = j
  <2>1. CASE i \in 1..Len(s) /\ j \in 1..Len(s)
    BY <1>1, <1>5, <2>1 DEF Lists, a
  <2>2. CASE i = Len(s) + 1 \/ j = Len(s) + 1
    BY <1>1, <1>3, <1>5, <2>2 DEF Lists, a
  <2>3. QED
    BY <1>3, <2>1, <2>2
<1>6. QED
  BY <1>2, <1>4, <1>5 DEF Lists, a

\* The first waiter leaves a queue.
LEMMA ListsTail ==
    ASSUME NEW S, NEW s \in Seq(Fibers), Lists(s, S), s # <<>>
    PROVE  /\ Head(s) \in S /\ Head(s) \in Fibers
           /\ Tail(s) \in Seq(Fibers) /\ Len(Tail(s)) = Len(s) - 1
           /\ Lists(Tail(s), S \ {Head(s)})
<1>1. /\ Head(s) = s[1] /\ 1 \in 1..Len(s) /\ Len(s) \in Nat
      /\ Tail(s) \in Seq(Fibers) /\ Len(Tail(s)) = Len(s) - 1
      /\ \A i \in 1..Len(Tail(s)) : Tail(s)[i] = s[i + 1]
      /\ Head(s) \in Fibers
  OBVIOUS
<1> DEFINE b == Tail(s)
           h == Head(s)
<1> HIDE DEF b, h
<1>2. \A i \in 1..Len(b) : i + 1 \in 1..Len(s) /\ i + 1 # 1 /\ b[i] = s[i + 1]
  BY <1>1 DEF b
<1>3. h = s[1] /\ h \in S
  BY <1>1 DEF Lists, h
<1>4. ASSUME NEW y \in S \ {h}
      PROVE  \E i \in 1..Len(b) : b[i] = y
  <2>1. PICK i \in 1..Len(s) : s[i] = y
    BY DEF Lists
  <2>2. i - 1 \in 1..Len(b) /\ i = (i - 1) + 1
    BY <1>1, <1>3, <2>1 DEF b
  <2>3. QED
    BY <1>2, <2>1, <2>2
<1>5. \A i \in 1..Len(b) : b[i] \in S \ {h}
  BY <1>1, <1>2, <1>3 DEF Lists
<1>6. ASSUME NEW i \in 1..Len(b), NEW j \in 1..Len(b), b[i] = b[j]
      PROVE  i = j
  <2>1. i + 1 = j + 1
    BY <1>2, <1>6 DEF Lists
  <2>2. QED
    BY <2>1
<1>7. Lists(b, S \ {h})
  BY <1>4, <1>5, <1>6 DEF Lists
<1>8. QED
  BY <1>1, <1>3, <1>7 DEF b, h

\* An empty queue means that nobody waits.
LEMMA ListsEmpty ==
    ASSUME NEW S, Lists(<<>>, S)
    PROVE  S = {}
BY DEF Lists

-----------------------------------------------------------------------------
(* Counting readers *)

\* A fiber that was not a reader becomes one.
LEMMA CountUp ==
    ASSUME NEW S \in SUBSET Fibers, NEW f \in Fibers, f \notin S
    PROVE  Cardinality(S \cup {f}) = Cardinality(S) + 1 /\ Cardinality(S) \in Nat
BY FibersFinite, FS_Subset, FS_AddElement, FS_CardinalityType

\* A reader leaves: there was at least one, and the count reaches zero when
\* it was the last.
LEMMA CountDown ==
    ASSUME NEW S \in SUBSET Fibers, NEW f \in S
    PROVE  /\ Cardinality(S \ {f}) = Cardinality(S) - 1
           /\ Cardinality(S) - 1 \in Nat
           /\ Cardinality(S) - 1 = 0 <=> S \ {f} = {}
<1>1. IsFiniteSet(S) /\ IsFiniteSet(S \ {f})
  BY FibersFinite, FS_Subset
<1>2. Cardinality(S \ {f}) = Cardinality(S) - 1
  BY <1>1, FS_RemoveElement
<1>3. Cardinality(S \ {f}) \in Nat /\ (Cardinality(S \ {f}) = 0 <=> S \ {f} = {})
  BY <1>1, FS_CardinalityType, FS_EmptySet
<1>4. QED
  BY <1>2, <1>3

-----------------------------------------------------------------------------
(* The mutex operations: what each does to the members. *)

\* async_lock on a free mutex.
LEMMA TakeUniqueOps ==
    ASSUME NEW m \in SharedMutexType(Fibers)
    PROVE  /\ TakeUnique(m) \in SharedMutexType(Fibers)
           /\ TakeUnique(m).writer_active_ = TRUE
           /\ TakeUnique(m).reader_count_ = m.reader_count_
           /\ TakeUnique(m).writers_waiting_ = m.writers_waiting_
           /\ TakeUnique(m).shared_waiters_ = m.shared_waiters_
           /\ TakeUnique(m).unique_waiters_ = m.unique_waiters_
<1>2. TakeUnique(m) \in SharedMutexType(Fibers)
  BY DEF SharedMutexType, TakeUnique
<1>3. QED
  BY <1>2 DEF SharedMutexType, TakeUnique

\* async_lock on a mutex in use.
LEMMA QueueUniqueOps ==
    ASSUME NEW m \in SharedMutexType(Fibers), NEW f \in Fibers
    PROVE  /\ QueueUnique(m, f) \in SharedMutexType(Fibers)
           /\ QueueUnique(m, f).writer_active_ = m.writer_active_
           /\ QueueUnique(m, f).reader_count_ = m.reader_count_
           /\ QueueUnique(m, f).writers_waiting_ = m.writers_waiting_ + 1
           /\ QueueUnique(m, f).shared_waiters_ = m.shared_waiters_
           /\ QueueUnique(m, f).unique_waiters_ = Append(m.unique_waiters_, f)
<1>1. m.writers_waiting_ + 1 \in Nat /\ Append(m.unique_waiters_, f) \in Seq(Fibers)
  BY DEF SharedMutexType
<1>2. QueueUnique(m, f) \in SharedMutexType(Fibers)
  BY <1>1 DEF SharedMutexType, QueueUnique
<1>3. QED
  BY <1>2 DEF SharedMutexType, QueueUnique

\* async_lock_shared without writers.
LEMMA TakeSharedOps ==
    ASSUME NEW m \in SharedMutexType(Fibers)
    PROVE  /\ TakeShared(m) \in SharedMutexType(Fibers)
           /\ TakeShared(m).writer_active_ = m.writer_active_
           /\ TakeShared(m).reader_count_ = m.reader_count_ + 1
           /\ TakeShared(m).writers_waiting_ = m.writers_waiting_
           /\ TakeShared(m).shared_waiters_ = m.shared_waiters_
           /\ TakeShared(m).unique_waiters_ = m.unique_waiters_
<1>1. m.reader_count_ + 1 \in Nat
  BY DEF SharedMutexType
<1>2. TakeShared(m) \in SharedMutexType(Fibers)
  BY <1>1 DEF SharedMutexType, TakeShared
<1>3. QED
  BY <1>2 DEF SharedMutexType, TakeShared

\* async_lock_shared with writers.
LEMMA QueueSharedOps ==
    ASSUME NEW m \in SharedMutexType(Fibers), NEW f \in Fibers
    PROVE  /\ QueueShared(m, f) \in SharedMutexType(Fibers)
           /\ QueueShared(m, f).writer_active_ = m.writer_active_
           /\ QueueShared(m, f).reader_count_ = m.reader_count_
           /\ QueueShared(m, f).writers_waiting_ = m.writers_waiting_
           /\ QueueShared(m, f).shared_waiters_ = Append(m.shared_waiters_, f)
           /\ QueueShared(m, f).unique_waiters_ = m.unique_waiters_
<1>1. Append(m.shared_waiters_, f) \in Seq(Fibers)
  BY DEF SharedMutexType
<1>2. QueueShared(m, f) \in SharedMutexType(Fibers)
  BY <1>1 DEF SharedMutexType, QueueShared
<1>3. QED
  BY <1>2 DEF SharedMutexType, QueueShared

\* unlock_shared, first statement.
LEMMA DropSharedOps ==
    ASSUME NEW m \in SharedMutexType(Fibers), m.reader_count_ - 1 \in Nat
    PROVE  /\ DropShared(m) \in SharedMutexType(Fibers)
           /\ DropShared(m).writer_active_ = m.writer_active_
           /\ DropShared(m).reader_count_ = m.reader_count_ - 1
           /\ DropShared(m).writers_waiting_ = m.writers_waiting_
           /\ DropShared(m).shared_waiters_ = m.shared_waiters_
           /\ DropShared(m).unique_waiters_ = m.unique_waiters_
<1>2. DropShared(m) \in SharedMutexType(Fibers)
  BY DEF SharedMutexType, DropShared
<1>3. QED
  BY <1>2 DEF SharedMutexType, DropShared

\* unlock, first statement.
LEMMA DropUniqueOps ==
    ASSUME NEW m \in SharedMutexType(Fibers)
    PROVE  /\ DropUnique(m) \in SharedMutexType(Fibers)
           /\ DropUnique(m).writer_active_ = FALSE
           /\ DropUnique(m).reader_count_ = m.reader_count_
           /\ DropUnique(m).writers_waiting_ = m.writers_waiting_
           /\ DropUnique(m).shared_waiters_ = m.shared_waiters_
           /\ DropUnique(m).unique_waiters_ = m.unique_waiters_
<1>2. DropUnique(m) \in SharedMutexType(Fibers)
  BY DEF SharedMutexType, DropUnique
<1>3. QED
  BY <1>2 DEF SharedMutexType, DropUnique

\* A queued writer is admitted.
LEMMA PassToWriterOps ==
    ASSUME NEW m \in SharedMutexType(Fibers), m.unique_waiters_ # <<>>,
           m.writers_waiting_ = Len(m.unique_waiters_)
    PROVE  /\ PassToWriter(m) \in SharedMutexType(Fibers)
           /\ PassToWriter(m).writer_active_ = TRUE
           /\ PassToWriter(m).reader_count_ = m.reader_count_
           /\ PassToWriter(m).writers_waiting_ = m.writers_waiting_ - 1
           /\ PassToWriter(m).shared_waiters_ = m.shared_waiters_
           /\ PassToWriter(m).unique_waiters_ = Tail(m.unique_waiters_)
<1>1. Tail(m.unique_waiters_) \in Seq(Fibers) /\ m.writers_waiting_ - 1 \in Nat
  BY DEF SharedMutexType
<1>2. PassToWriter(m) \in SharedMutexType(Fibers)
  BY <1>1 DEF SharedMutexType, PassToWriter
<1>3. QED
  BY <1>2 DEF SharedMutexType, PassToWriter

\* A queued reader is admitted.
LEMMA PassToReaderOps ==
    ASSUME NEW m \in SharedMutexType(Fibers), m.shared_waiters_ # <<>>
    PROVE  /\ PassToReader(m) \in SharedMutexType(Fibers)
           /\ PassToReader(m).writer_active_ = m.writer_active_
           /\ PassToReader(m).reader_count_ = m.reader_count_ + 1
           /\ PassToReader(m).writers_waiting_ = m.writers_waiting_
           /\ PassToReader(m).shared_waiters_ = Tail(m.shared_waiters_)
           /\ PassToReader(m).unique_waiters_ = m.unique_waiters_
<1>1. Tail(m.shared_waiters_) \in Seq(Fibers) /\ m.reader_count_ + 1 \in Nat
  BY DEF SharedMutexType
<1>2. PassToReader(m) \in SharedMutexType(Fibers)
  BY <1>1 DEF SharedMutexType, PassToReader
<1>3. QED
  BY <1>2 DEF SharedMutexType, PassToReader

-----------------------------------------------------------------------------
(* Steps *)

\* The fiber that runs is not posted as well.
LEMMA RunningNotReady ==
    ASSUME ExecTypeOK, SingleFrame, NEW t \in Threads, NEW f \in Fibers, Running(t, f)
    PROVE  f \notin ready
BY DEF ExecTypeOK, SingleFrame, OnStack, Running

\* The facts of the invariant that the steps below start from.
LEMMA Facts ==
    ASSUME IInv
    PROVE  /\ ExecTypeOK /\ SingleFrame
           /\ pc \in [Fibers -> PCs]
           /\ mutex \in SharedMutexType(Fibers)
           /\ mutex.reader_count_ = Cardinality(ActiveReaders)
           /\ mutex.reader_count_ \in Nat
           /\ mutex.writers_waiting_ = Len(mutex.unique_waiters_)
           /\ mutex.unique_waiters_ \in Seq(Fibers)
           /\ mutex.shared_waiters_ \in Seq(Fibers)
           /\ ActiveReaders \in SUBSET Fibers
BY DEF IInv, TypeOK, CountersExact, SharedMutexType, ActiveReaders

\* async_lock: the caller becomes a writer of a mutex without readers and
\* without a writer's flag, or the last queued writer behind somebody.
LEMMA AsyncLockStep ==
    ASSUME IInv, NEW t \in Threads, NEW f \in Fibers, AsyncLock(t, f)
    PROVE  IInv'
<1> USE Facts
<1>1. pc[f] = "outside" /\ Running(t, f) /\ Leave(t) /\ f \notin ready
  BY RunningNotReady DEF AsyncLock
<1>2. SingleFrame' /\ stack' \in [Threads -> Seq(Fibers)]
  BY <1>1, LeaveSingle, LeaveStack DEF AsyncLock
<1>3. \A g : OnStack(g)' => OnStack(g) /\ g # f
  BY <1>1, LeaveOnStack
<1>4. CASE LockFree(mutex)
  <2>1. /\ mutex' = TakeUnique(mutex)
        /\ pc' = [pc EXCEPT ![f] = "wgranted"]
        /\ ready' = ready \cup {f}
    BY <1>4 DEF AsyncLock, Post
  <2>2. /\ ActiveReaders' = ActiveReaders /\ ActiveWriters' = ActiveWriters \cup {f}
        /\ WaitingWriters' = WaitingWriters /\ WaitingReaders' = WaitingReaders
        /\ f \notin WaitingWriters \cup WaitingReaders
        /\ pc' \in [Fibers -> PCs]
    BY <1>1, <2>1
       DEF ActiveReaders, ActiveWriters, WaitingWriters, WaitingReaders, PCs
  <2>3. TypeOK' /\ CountersExact'
    BY <1>2, <2>1, <2>2, TakeUniqueOps DEF TypeOK, ExecTypeOK, CountersExact
  <2>4. QueuesExact'
    BY <1>3, <2>1, <2>2, TakeUniqueOps DEF IInv, QueuesExact
  <2>5. NoLostWakeup' /\ FlagOwned'
    BY <2>2 DEF NoLostWakeup, FlagOwned
  <2>6. QED
    BY <1>2, <2>3, <2>4, <2>5 DEF IInv
<1>5. CASE ~LockFree(mutex)
  <2>1. /\ mutex' = QueueUnique(mutex, f)
        /\ pc' = [pc EXCEPT ![f] = "wwaiting"]
        /\ ready' = ready
    BY <1>5 DEF AsyncLock
  <2>2. /\ ActiveReaders' = ActiveReaders /\ ActiveWriters' = ActiveWriters
        /\ WaitingWriters' = WaitingWriters \cup {f} /\ WaitingReaders' = WaitingReaders
        /\ f \notin WaitingWriters \cup WaitingReaders
        /\ pc' \in [Fibers -> PCs]
    BY <1>1, <2>1
       DEF ActiveReaders, ActiveWriters, WaitingWriters, WaitingReaders, PCs
  <2>3. TypeOK' /\ CountersExact'
    <3>1. /\ mutex' \in SharedMutexType(Fibers)
          /\ mutex'.reader_count_ = mutex.reader_count_
          /\ mutex'.writers_waiting_ = mutex.writers_waiting_ + 1
          /\ mutex'.unique_waiters_ = Append(mutex.unique_waiters_, f)
      BY <2>1, QueueUniqueOps
    <3>2. TypeOK'
      BY <1>2, <2>1, <2>2, <3>1 DEF TypeOK, ExecTypeOK
    <3>3. Len(mutex'.unique_waiters_) = Len(mutex.unique_waiters_) + 1
      BY <3>1
    <3>4. QED
      BY <2>2, <3>1, <3>2, <3>3 DEF CountersExact
  <2>4. Lists(mutex'.unique_waiters_, WaitingWriters')
    <3>1. mutex'.unique_waiters_ = Append(mutex.unique_waiters_, f)
      BY <2>1, QueueUniqueOps
    <3>2. Lists(Append(mutex.unique_waiters_, f), WaitingWriters \cup {f})
      BY <2>2, ListsAppend DEF IInv, QueuesExact
    <3>3. QED
      BY <2>2, <3>1, <3>2
  <2>5. QueuesExact'
    BY <1>1, <1>3, <2>1, <2>2, <2>4, QueueUniqueOps DEF IInv, QueuesExact
  <2>6. mutex.writer_active_ \/ mutex.reader_count_ # 0
    BY <1>5 DEF LockFree
  <2>7. ActiveWriters \cup ActiveReaders # {}
    BY <2>6, FS_EmptySet DEF IInv, FlagOwned
  <2>8. mutex'.unique_waiters_ # <<>>
    BY <2>1, QueueUniqueOps
  <2>9. NoLostWakeup' /\ FlagOwned'
    BY <2>1, <2>2, <2>7, <2>8, QueueUniqueOps DEF IInv, NoLostWakeup, FlagOwned
  <2>10. QED
    BY <1>2, <2>3, <2>5, <2>9 DEF IInv
<1>6. QED
  BY <1>4, <1>5

\* async_lock_shared: the caller becomes a reader, or the last queued reader
\* behind a writer.
LEMMA AsyncLockSharedStep ==
    ASSUME IInv, NEW t \in Threads, NEW f \in Fibers, AsyncLockShared(t, f)
    PROVE  IInv'
<1> USE Facts
<1>1. pc[f] = "outside" /\ Running(t, f) /\ Leave(t) /\ f \notin ready
  BY RunningNotReady DEF AsyncLockShared
<1>2. SingleFrame' /\ stack' \in [Threads -> Seq(Fibers)]
  BY <1>1, LeaveSingle, LeaveStack DEF AsyncLockShared
<1>3. \A g : OnStack(g)' => OnStack(g) /\ g # f
  BY <1>1, LeaveOnStack
<1>4. CASE SharedFree(mutex)
  <2>1. /\ mutex' = TakeShared(mutex)
        /\ pc' = [pc EXCEPT ![f] = "rgranted"]
        /\ ready' = ready \cup {f}
    BY <1>4 DEF AsyncLockShared, Post
  <2>2. /\ ActiveReaders' = ActiveReaders \cup {f} /\ ActiveWriters' = ActiveWriters
        /\ f \notin ActiveReaders
        /\ WaitingWriters' = WaitingWriters /\ WaitingReaders' = WaitingReaders
        /\ f \notin WaitingWriters \cup WaitingReaders
        /\ Unlocking' = Unlocking
        /\ pc' \in [Fibers -> PCs]
    BY <1>1, <2>1
       DEF ActiveReaders, ActiveWriters, WaitingWriters, WaitingReaders, Unlocking, PCs
  <2>3. TypeOK' /\ CountersExact'
    BY <1>2, <2>1, <2>2, TakeSharedOps, CountUp DEF TypeOK, ExecTypeOK, CountersExact
  <2>4. QueuesExact'
    BY <1>3, <2>1, <2>2, TakeSharedOps DEF IInv, QueuesExact
  <2>5. NoLostWakeup' /\ FlagOwned'
    BY <2>1, <2>2, TakeSharedOps DEF IInv, NoLostWakeup, FlagOwned, Unlocking
  <2>6. QED
    BY <1>2, <2>3, <2>4, <2>5 DEF IInv
<1>5. CASE ~SharedFree(mutex)
  <2>1. /\ mutex' = QueueShared(mutex, f)
        /\ pc' = [pc EXCEPT ![f] = "rwaiting"]
        /\ ready' = ready
    BY <1>5 DEF AsyncLockShared
  <2>2. /\ ActiveReaders' = ActiveReaders /\ ActiveWriters' = ActiveWriters
        /\ WaitingWriters' = WaitingWriters /\ WaitingReaders' = WaitingReaders \cup {f}
        /\ f \notin WaitingWriters \cup WaitingReaders
        /\ pc' \in [Fibers -> PCs]
    BY <1>1, <2>1
       DEF ActiveReaders, ActiveWriters, WaitingWriters, WaitingReaders, PCs
  <2>3. TypeOK' /\ CountersExact'
    BY <1>2, <2>1, <2>2, QueueSharedOps DEF TypeOK, ExecTypeOK, CountersExact
  <2>4. Lists(mutex'.shared_waiters_, WaitingReaders')
    <3>1. mutex'.shared_waiters_ = Append(mutex.shared_waiters_, f)
      BY <2>1, QueueSharedOps
    <3>2. Lists(Append(mutex.shared_waiters_, f), WaitingReaders \cup {f})
      BY <2>2, ListsAppend DEF IInv, QueuesExact
    <3>3. QED
      BY <2>2, <3>1, <3>2
  <2>5. QueuesExact'
    BY <1>1, <1>3, <2>1, <2>2, <2>4, QueueSharedOps DEF IInv, QueuesExact
  <2>6. mutex.writer_active_ \/ mutex.writers_waiting_ # 0
    BY <1>5 DEF SharedFree
  <2>7. ActiveWriters # {} \/ mutex.unique_waiters_ # <<>>
    BY <2>6 DEF IInv, FlagOwned
  <2>8. /\ mutex'.unique_waiters_ = mutex.unique_waiters_
        /\ mutex'.writer_active_ = mutex.writer_active_
    BY <2>1, QueueSharedOps
  <2>9. NoLostWakeup'
    BY <2>2, <2>7, <2>8 DEF IInv, NoLostWakeup
  <2>10. FlagOwned'
    BY <2>2, <2>8 DEF IInv, FlagOwned
  <2>11. QED
    BY <1>2, <2>3, <2>5, <2>9, <2>10 DEF IInv
<1>6. QED
  BY <1>4, <1>5

\* unlock and unlock_shared with a queued writer: the first one, which was at
\* rest, becomes a writer.  m is the mutex after the releasing fiber left.
LEMMA CallWriterEffect ==
    ASSUME IInv, NEW t \in Threads, NEW f \in Fibers,
           pc[f] \in {"reading", "writing"}, UNCHANGED ready,
           NEW m \in SharedMutexType(Fibers),
           m.unique_waiters_ = mutex.unique_waiters_, m.unique_waiters_ # <<>>,
           m.shared_waiters_ = mutex.shared_waiters_,
           m.writers_waiting_ = mutex.writers_waiting_,
           m.reader_count_ = Cardinality(ActiveReaders \ {f}),
           CallWriter(t, f, m)
    PROVE  /\ IInv'
           /\ ActiveReaders' = ActiveReaders \ {f}
           /\ \E g \in WaitingWriters : g # f
           /\ mutex'.writer_active_
<1> USE Facts
<1> DEFINE g == Head(m.unique_waiters_)
<1>1. /\ mutex' = PassToWriter(m)
      /\ pc' = [pc EXCEPT ![f] = "outside", ![g] = "writing"]
      /\ Call(t, g)
  BY DEF CallWriter
<1>2. /\ g \in WaitingWriters /\ g \in Fibers
      /\ Len(Tail(m.unique_waiters_)) = Len(m.unique_waiters_) - 1
      /\ Lists(Tail(m.unique_waiters_), WaitingWriters \ {g})
  BY ListsTail DEF IInv, QueuesExact
<1>3. /\ mutex' \in SharedMutexType(Fibers)
      /\ mutex'.reader_count_ = m.reader_count_
      /\ mutex'.writers_waiting_ = m.writers_waiting_ - 1
      /\ mutex'.unique_waiters_ = Tail(m.unique_waiters_)
      /\ mutex'.shared_waiters_ = mutex.shared_waiters_
  BY <1>1, PassToWriterOps
<1>0. mutex'.writer_active_
  BY <1>1, PassToWriterOps
<1> HIDE DEF g
<1>4. /\ g # f /\ ~OnStack(g) /\ g \notin ready
      /\ ActiveReaders' = ActiveReaders \ {f}
      /\ ActiveWriters' = (ActiveWriters \ {f}) \cup {g}
      /\ WaitingWriters' = WaitingWriters \ {g} /\ WaitingReaders' = WaitingReaders
      /\ pc' \in [Fibers -> PCs]
  <2>1. pc[g] = "wwaiting" /\ g # f /\ ~OnStack(g) /\ g \notin ready
    BY <1>2 DEF WaitingWriters, IInv, QueuesExact
  <2>2. QED
    BY <1>1, <1>2, <2>1
       DEF ActiveReaders, ActiveWriters, WaitingWriters, WaitingReaders, PCs
<1>5. /\ SingleFrame' /\ stack' \in [Threads -> Seq(Fibers)]
      /\ \A h : OnStack(h)' => OnStack(h) \/ h = g
  BY <1>1, <1>2, <1>4, CallSingle, CallStack, CallOnStack
<1>6. TypeOK'
  BY <1>3, <1>4, <1>5 DEF TypeOK, ExecTypeOK
<1>7. CountersExact'
  BY <1>2, <1>3, <1>4 DEF CountersExact
<1>8. g \notin WaitingReaders
  BY <1>2 DEF WaitingWriters, WaitingReaders
<1>9. QueuesExact'
  BY <1>2, <1>3, <1>4, <1>5, <1>8 DEF IInv, QueuesExact
<1>10. NoLostWakeup' /\ FlagOwned'
  BY <1>4 DEF NoLostWakeup, FlagOwned
<1>11. QED
  BY <1>0, <1>2, <1>4, <1>5, <1>6, <1>7, <1>9, <1>10 DEF IInv

\* The head of unlock's loop: the first queued reader, which was at rest,
\* becomes a reader, or the loop ends because there is none.
LEMMA CallReadersEffect ==
    ASSUME IInv, NEW t \in Threads, NEW f \in Fibers,
           pc[f] \in {"writing", "unlocking"}, UNCHANGED ready,
           NEW m \in SharedMutexType(Fibers),
           m.unique_waiters_ = mutex.unique_waiters_,
           m.shared_waiters_ = mutex.shared_waiters_,
           m.writers_waiting_ = mutex.writers_waiting_,
           m.reader_count_ = mutex.reader_count_,
           m.writer_active_ => ActiveWriters \ {f} # {},
           m.unique_waiters_ # <<>> => ActiveReaders \cup (ActiveWriters \ {f}) # {},
           CallReaders(t, f, m)
    PROVE  /\ IInv'
           /\ ActiveWriters' = ActiveWriters \ {f}
<1> USE Facts
<1>1. CASE m.shared_waiters_ # <<>>
  <2> DEFINE g == Head(m.shared_waiters_)
  <2>1. /\ mutex' = PassToReader(m)
        /\ pc' = [pc EXCEPT ![f] = "unlocking", ![g] = "reading"]
        /\ Call(t, g)
    BY <1>1 DEF CallReaders
  <2>2. /\ g \in WaitingReaders /\ g \in Fibers
        /\ Lists(Tail(m.shared_waiters_), WaitingReaders \ {g})
    BY <1>1, ListsTail DEF IInv, QueuesExact
  <2>3. /\ mutex' \in SharedMutexType(Fibers)
        /\ mutex'.reader_count_ = m.reader_count_ + 1
        /\ mutex'.writers_waiting_ = m.writers_waiting_
        /\ mutex'.shared_waiters_ = Tail(m.shared_waiters_)
        /\ mutex'.unique_waiters_ = mutex.unique_waiters_
    BY <1>1, <2>1, PassToReaderOps
  <2>0. mutex'.writer_active_ = m.writer_active_
    BY <1>1, <2>1, PassToReaderOps
  <2> HIDE DEF g
  <2>4. /\ g # f /\ ~OnStack(g) /\ g \notin ready
        /\ ActiveReaders' = ActiveReaders \cup {g} /\ g \notin ActiveReaders
        /\ ActiveWriters' = ActiveWriters \ {f}
        /\ WaitingReaders' = WaitingReaders \ {g} /\ WaitingWriters' = WaitingWriters
        /\ f \in Unlocking'
        /\ pc' \in [Fibers -> PCs]
    <3>1. pc[g] = "rwaiting" /\ g # f /\ ~OnStack(g) /\ g \notin ready
      BY <2>2 DEF WaitingReaders, IInv, QueuesExact
    <3>2. QED
      BY <2>1, <2>2, <3>1
         DEF ActiveReaders, ActiveWriters, WaitingWriters, WaitingReaders, Unlocking, PCs
  <2>5. /\ SingleFrame' /\ stack' \in [Threads -> Seq(Fibers)]
        /\ \A h : OnStack(h)' => OnStack(h) \/ h = g
    BY <2>1, <2>2, <2>4, CallSingle, CallStack, CallOnStack
  <2>6. TypeOK'
    BY <2>3, <2>4, <2>5 DEF TypeOK, ExecTypeOK
  <2>7. CountersExact'
    BY <2>2, <2>3, <2>4, CountUp DEF CountersExact
  <2>8. g \notin WaitingWriters
    BY <2>2 DEF WaitingWriters, WaitingReaders
  <2>9. QueuesExact'
    BY <2>2, <2>3, <2>4, <2>5, <2>8 DEF IInv, QueuesExact
  <2>10. NoLostWakeup'
    BY <2>4 DEF NoLostWakeup, Unlocking
  <2>11. FlagOwned'
    BY <2>0, <2>4 DEF FlagOwned
  <2>12. QED
    BY <2>4, <2>5, <2>6, <2>7, <2>9, <2>10, <2>11 DEF IInv
<1>2. CASE m.shared_waiters_ = <<>>
  <2>1. /\ mutex' = m
        /\ pc' = [pc EXCEPT ![f] = "outside"]
        /\ stack' = stack
    BY <1>2 DEF CallReaders
  <2>2. /\ ActiveReaders' = ActiveReaders /\ ActiveWriters' = ActiveWriters \ {f}
        /\ WaitingWriters' = WaitingWriters /\ WaitingReaders' = WaitingReaders
        /\ pc' \in [Fibers -> PCs]
    BY <2>1 DEF ActiveReaders, ActiveWriters, WaitingWriters, WaitingReaders, PCs
  <2>3. TypeOK' /\ CountersExact'
    BY <2>1, <2>2 DEF TypeOK, ExecTypeOK, CountersExact
  <2>4. QueuesExact' /\ SingleFrame'
    BY <2>1, <2>2 DEF IInv, QueuesExact, SingleFrame, OnStack
  <2>5. NoLostWakeup' /\ FlagOwned'
    BY <1>2, <2>1, <2>2 DEF NoLostWakeup, FlagOwned
  <2>6. QED
    BY <2>2, <2>3, <2>4, <2>5 DEF IInv
<1>3. QED
  BY <1>1, <1>2

\* unlock.
LEMMA UnlockStep ==
    ASSUME IInv, NEW t \in Threads, NEW f \in Fibers, Unlock(t, f)
    PROVE  /\ IInv'
           /\ \/ ActiveWriters' = ActiveWriters \ {f}
              \/ /\ ActiveReaders' = ActiveReaders
                 /\ \E g \in WaitingWriters : g # f
<1> USE Facts
<1> DEFINE m == DropUnique(mutex)
<1>1. pc[f] = "writing" /\ f \notin ActiveReaders /\ ready' = ready
  BY DEF Unlock, ActiveReaders
<1>2. /\ m \in SharedMutexType(Fibers)
      /\ m.unique_waiters_ = mutex.unique_waiters_
      /\ m.shared_waiters_ = mutex.shared_waiters_
      /\ m.writers_waiting_ = mutex.writers_waiting_
      /\ m.reader_count_ = mutex.reader_count_
  BY DropUniqueOps
<1>3. m.writer_active_ = FALSE
  BY DropUniqueOps
<1>4. \/ m.unique_waiters_ # <<>> /\ CallWriter(t, f, m)
      \/ m.unique_waiters_ = <<>> /\ CallReaders(t, f, m)
  BY DEF Unlock
<1>5. ActiveReaders \ {f} = ActiveReaders
  BY <1>1
<1> HIDE DEF m
<1>6. CASE m.unique_waiters_ # <<>> /\ CallWriter(t, f, m)
  <2>1. m.reader_count_ = Cardinality(ActiveReaders \ {f})
    BY <1>2, <1>5
  <2>2. /\ IInv' /\ ActiveReaders' = ActiveReaders \ {f}
        /\ \E g \in WaitingWriters : g # f
    BY <1>1, <1>2, <1>6, <2>1, CallWriterEffect
  <2>3. QED
    BY <1>5, <2>2
<1>7. CASE m.unique_waiters_ = <<>> /\ CallReaders(t, f, m)
  <2>1. m.writer_active_ => ActiveWriters \ {f} # {}
    BY <1>3
  <2>2. QED
    BY <1>1, <1>2, <1>7, <2>1, CallReadersEffect
<1>8. QED
  BY <1>4, <1>6, <1>7

\* unlock, the later turns of its loop.
LEMMA UnlockLoopStep ==
    ASSUME IInv, NEW t \in Threads, NEW f \in Fibers, UnlockLoop(t, f)
    PROVE  IInv' /\ ActiveWriters' = ActiveWriters
<1> USE Facts
<1>1. pc[f] = "unlocking" /\ ready' = ready /\ CallReaders(t, f, mutex)
  BY DEF UnlockLoop
<1>2. ActiveWriters \ {f} = ActiveWriters
  BY <1>1 DEF ActiveWriters
<1>3. mutex.writer_active_ => ActiveWriters \ {f} # {}
  BY <1>2 DEF IInv, FlagOwned
<1>4. mutex.unique_waiters_ # <<>> => ActiveReaders \cup (ActiveWriters \ {f}) # {}
  BY <1>2 DEF IInv, NoLostWakeup
<1>5. IInv' /\ ActiveWriters' = ActiveWriters \ {f}
  BY <1>1, <1>3, <1>4, CallReadersEffect
<1>6. QED
  BY <1>2, <1>5

\* unlock_shared.
LEMMA UnlockSharedStep ==
    ASSUME IInv, NEW t \in Threads, NEW f \in Fibers, UnlockShared(t, f)
    PROVE  /\ IInv'
           /\ ActiveReaders' = ActiveReaders \ {f}
           /\ \/ ActiveWriters' = ActiveWriters
              \/ ActiveReaders' = {} /\ mutex'.writer_active_
<1> USE Facts
<1> DEFINE m == DropShared(mutex)
           pass == m.reader_count_ = 0 /\ m.unique_waiters_ # <<>>
<1>1. pc[f] = "reading" /\ f \in ActiveReaders /\ ready' = ready
  BY DEF UnlockShared, ActiveReaders
<1>2. /\ Cardinality(ActiveReaders \ {f}) = mutex.reader_count_ - 1
      /\ mutex.reader_count_ - 1 \in Nat
      /\ mutex.reader_count_ - 1 = 0 <=> ActiveReaders \ {f} = {}
  BY <1>1, CountDown
<1>3. /\ m \in SharedMutexType(Fibers)
      /\ m.unique_waiters_ = mutex.unique_waiters_
      /\ m.shared_waiters_ = mutex.shared_waiters_
      /\ m.writers_waiting_ = mutex.writers_waiting_
      /\ m.reader_count_ = mutex.reader_count_ - 1
  BY <1>2, DropSharedOps
<1>4. m.writer_active_ = mutex.writer_active_
  BY <1>2, DropSharedOps
<1>5. \/ pass /\ CallWriter(t, f, m)
      \/ /\ ~pass /\ mutex' = m /\ stack' = stack
         /\ pc' = [pc EXCEPT ![f] = "outside"]
  BY DEF UnlockShared
<1> HIDE DEF m
<1>6. CASE pass /\ CallWriter(t, f, m)
  <2>1. IInv' /\ ActiveReaders' = ActiveReaders \ {f} /\ mutex'.writer_active_
    BY <1>1, <1>2, <1>3, <1>6, CallWriterEffect
  <2>2. QED
    BY <1>2, <1>3, <1>6, <2>1
<1>7. CASE /\ ~pass /\ mutex' = m /\ stack' = stack
           /\ pc' = [pc EXCEPT ![f] = "outside"]
  <2>1. /\ ActiveReaders' = ActiveReaders \ {f} /\ ActiveWriters' = ActiveWriters
        /\ WaitingWriters' = WaitingWriters /\ WaitingReaders' = WaitingReaders
        /\ Unlocking' = Unlocking
        /\ pc' \in [Fibers -> PCs]
    BY <1>1, <1>7
       DEF ActiveReaders, ActiveWriters, WaitingWriters, WaitingReaders, Unlocking, PCs
  <2>2. TypeOK' /\ CountersExact'
    BY <1>1, <1>2, <1>3, <1>7, <2>1 DEF TypeOK, ExecTypeOK, CountersExact
  <2>3. QueuesExact' /\ SingleFrame'
    BY <1>1, <1>3, <1>7, <2>1 DEF IInv, QueuesExact, SingleFrame, OnStack
  <2>4. mutex'.unique_waiters_ # <<>> => ActiveReaders' # {}
    BY <1>2, <1>3, <1>7, <2>1
  <2>5. NoLostWakeup'
    BY <1>3, <1>7, <2>1, <2>4 DEF IInv, NoLostWakeup, Unlocking
  <2>6. FlagOwned'
    BY <1>4, <1>7, <2>1 DEF IInv, FlagOwned
  <2>7. QED
    BY <2>1, <2>2, <2>3, <2>5, <2>6 DEF IInv
<1>8. QED
  BY <1>5, <1>6, <1>7

\* The steps of the executor, which leave the mutex alone.
LEMMA ExecutorStep ==
    ASSUME IInv, NEW f \in Fibers,
           (\E t \in Threads : Dispatch(t, f) \/ Await(t, f)) \/ Complete(f)
    PROVE  /\ IInv'
           /\ ActiveReaders' = ActiveReaders /\ ActiveWriters' = ActiveWriters
<1> USE Facts
<1>1. ASSUME NEW t \in Threads, Dispatch(t, f)
      PROVE  /\ SingleFrame' /\ stack' \in [Threads -> Seq(Fibers)] /\ mutex' = mutex
             /\ \A h : OnStack(h)' => OnStack(h) \/ h \in ready
             /\ ready' \subseteq ready /\ pc' \in [Fibers -> PCs]
             /\ ActiveReaders' = ActiveReaders /\ ActiveWriters' = ActiveWriters
             /\ WaitingWriters' = WaitingWriters /\ WaitingReaders' = WaitingReaders
             /\ Unlocking' = Unlocking
  <2>1. TakePosted(t, f) /\ mutex' = mutex
    BY <1>1 DEF Dispatch
  <2>2. /\ SingleFrame' /\ stack' \in [Threads -> Seq(Fibers)]
        /\ f \in ready /\ ready' = ready \ {f}
        /\ \A h : OnStack(h)' => OnStack(h) \/ h = f
    BY <2>1, TakeSingle, TakeStack, TakeOnStack
  <2>3. /\ \A h \in Fibers \ {f} : pc'[h] = pc[h]
        /\ pc'[f] = CASE pc[f] = "rgranted" -> "reading"
                      [] pc[f] = "wgranted" -> "writing"
                      [] OTHER -> pc[f]
        /\ pc' \in [Fibers -> PCs]
    BY <1>1 DEF Dispatch, PCs
  <2>4. /\ ActiveReaders' = ActiveReaders /\ ActiveWriters' = ActiveWriters
        /\ WaitingWriters' = WaitingWriters /\ WaitingReaders' = WaitingReaders
        /\ Unlocking' = Unlocking
    BY <2>3 DEF ActiveReaders, ActiveWriters, WaitingWriters, WaitingReaders, Unlocking
  <2>5. QED
    BY <2>1, <2>2, <2>3, <2>4
<1>2. ASSUME NEW t \in Threads, Await(t, f)
      PROVE  /\ SingleFrame' /\ stack' \in [Threads -> Seq(Fibers)]
             /\ \A h : OnStack(h)' => OnStack(h)
             /\ UNCHANGED <<ready, mutex, pc>>
  BY <1>2, LeaveSingle, LeaveStack, LeaveOnStack DEF Await
<1>3. ASSUME Complete(f)
      PROVE  /\ SingleFrame' /\ ready' = ready \cup {f}
             /\ UNCHANGED <<stack, mutex, pc>>
             /\ f \notin WaitingWriters \cup WaitingReaders
  BY <1>3, PostSingle DEF Complete, Post, WaitingWriters, WaitingReaders
<1>4. ASSUME NEW t \in Threads, Dispatch(t, f)
      PROVE  IInv' /\ ActiveReaders' = ActiveReaders /\ ActiveWriters' = ActiveWriters
  <2>1. TypeOK' /\ CountersExact'
    BY <1>1, <1>4 DEF TypeOK, ExecTypeOK, CountersExact
  <2>2. QueuesExact'
    BY <1>1, <1>4 DEF IInv, QueuesExact
  <2>3. NoLostWakeup' /\ FlagOwned'
    BY <1>1, <1>4 DEF IInv, NoLostWakeup, FlagOwned, Unlocking
  <2>4. QED
    BY <1>1, <1>4, <2>1, <2>2, <2>3 DEF IInv
<1>5. ASSUME NEW t \in Threads, Await(t, f)
      PROVE  IInv' /\ ActiveReaders' = ActiveReaders /\ ActiveWriters' = ActiveWriters
  <2>1. /\ ActiveReaders' = ActiveReaders /\ ActiveWriters' = ActiveWriters
        /\ WaitingWriters' = WaitingWriters /\ WaitingReaders' = WaitingReaders
    BY <1>2, <1>5 DEF ActiveReaders, ActiveWriters, WaitingWriters, WaitingReaders
  <2>2. QED
    BY <1>2, <1>5, <2>1
       DEF IInv, TypeOK, ExecTypeOK, CountersExact, QueuesExact, NoLostWakeup, FlagOwned
<1>6. ASSUME Complete(f)
      PROVE  IInv' /\ ActiveReaders' = ActiveReaders /\ ActiveWriters' = ActiveWriters
  <2>1. /\ ActiveReaders' = ActiveReaders /\ ActiveWriters' = ActiveWriters
        /\ WaitingWriters' = WaitingWriters /\ WaitingReaders' = WaitingReaders
    BY <1>3, <1>6 DEF ActiveReaders, ActiveWriters, WaitingWriters, WaitingReaders
  <2>2. QueuesExact'
    BY <1>3, <1>6, <2>1 DEF IInv, QueuesExact, OnStack
  <2>3. QED
    BY <1>3, <1>6, <2>1, <2>2
       DEF IInv, TypeOK, ExecTypeOK, CountersExact, NoLostWakeup, FlagOwned
<1>7. QED
  BY <1>4, <1>5, <1>6

-----------------------------------------------------------------------------
(* Any number of writers *)

\* The invariant is inductive.
LEMMA InductiveStep == IInv /\ [Next]_vars => IInv'
<1> SUFFICES ASSUME IInv, [Next]_vars
             PROVE  IInv'
  OBVIOUS
<1>1. CASE UNCHANGED vars
  BY <1>1 DEF vars, IInv, TypeOK, ExecTypeOK, CountersExact, QueuesExact, NoLostWakeup,
              FlagOwned, SingleFrame, OnStack, ActiveReaders, ActiveWriters,
              WaitingWriters, WaitingReaders
<1>2. CASE Next
  BY <1>2, AsyncLockStep, AsyncLockSharedStep, UnlockStep, UnlockLoopStep,
     UnlockSharedStep, ExecutorStep DEF Next
<1>3. QED
  BY <1>1, <1>2

\* The mutex starts in the invariant.
LEMMA InitialState == Init => IInv
<1> SUFFICES ASSUME Init PROVE IInv
  OBVIOUS
<1>1. /\ pc = [f \in Fibers |-> "outside"] /\ mutex = IdleMutex
      /\ stack = [t \in Threads |-> <<>>] /\ ready = {}
  BY DEF Init, ExecInit
<1>2. /\ ActiveReaders = {} /\ ActiveWriters = {}
      /\ WaitingWriters = {} /\ WaitingReaders = {}
  BY <1>1 DEF ActiveReaders, ActiveWriters, WaitingWriters, WaitingReaders
<1>3. TypeOK
  BY <1>1 DEF TypeOK, ExecTypeOK, IdleMutex, SharedMutexType, PCs
<1>4. CountersExact
  BY <1>1, <1>2, FS_EmptySet DEF CountersExact, IdleMutex
<1>5. QueuesExact /\ SingleFrame
  BY <1>1, <1>2 DEF QueuesExact, Lists, SingleFrame, IdleMutex
<1>6. NoLostWakeup /\ FlagOwned
  BY <1>1 DEF NoLostWakeup, FlagOwned, IdleMutex
<1>7. QED
  BY <1>3, <1>4, <1>5, <1>6 DEF IInv

\* The invariant holds in every state of the mutex.
THEOREM Invariance == Spec => []IInv
BY InitialState, InductiveStep, PTL DEF Spec

\* The members of shared_mutex_t keep their types; in particular neither
\* --reader_count_ nor --writers_waiting_ ever wraps around.
THEOREM TypeCorrect == Spec => []TypeOK
BY Invariance, PTL DEF IInv

\* reader_count_ and writers_waiting_ count what they should, with any number
\* of readers and writers.
THEOREM CountersAgree == Spec => []CountersExact
BY Invariance, PTL DEF IInv

\* Nobody is queued on an idle shared_mutex_t: no queued handler is forgotten.
THEOREM NobodyForgotten == Spec => []NoLostWakeup
BY Invariance, PTL DEF IInv

\* The handlers that unlock and unlock_shared call directly are those of
\* suspended fibers, also while unlock's loop over readers is interrupted.
THEOREM NoFiberResumedTwice == Spec => []SingleFrame
BY Invariance, PTL DEF IInv

-----------------------------------------------------------------------------
(* One writer *)

\* Only fibers of Writers hold, await or release the exclusive guard.
OnlyWriters ==
    \A f \in Fibers :
        pc[f] \in {"wgranted", "wwaiting", "writing", "unlocking"} => f \in Writers

\* The flag is set whenever there is a writer.
FlagExact == ActiveWriters # {} => mutex.writer_active_

OneWriterInv == IInv /\ OnlyWriters /\ FlagExact /\ Exclusion

\* The steps keep it so: a queued handler that unlock or unlock_shared calls
\* as a writer was queued by a writer.
LEMMA OnlyWritersStep ==
    ASSUME IInv, OnlyWriters, [Next]_vars
    PROVE  OnlyWriters'
<1> USE Facts DEF OnlyWriters
<1>1. ASSUME NEW t \in Threads, NEW f \in Fibers, AsyncLock(t, f)
      PROVE  OnlyWriters'
  BY <1>1 DEF AsyncLock
<1>2. ASSUME NEW t \in Threads, NEW f \in Fibers, AsyncLockShared(t, f)
      PROVE  OnlyWriters'
  BY <1>2 DEF AsyncLockShared
<1>3. ASSUME NEW t \in Threads, NEW f \in Fibers, NEW m, CallWriter(t, f, m),
             m.unique_waiters_ = mutex.unique_waiters_, m.unique_waiters_ # <<>>
      PROVE  OnlyWriters'
  <2> DEFINE g == Head(m.unique_waiters_)
  <2>1. g \in WaitingWriters
    BY <1>3, ListsTail DEF IInv, QueuesExact
  <2>2. pc' = [pc EXCEPT ![f] = "outside", ![g] = "writing"]
    BY <1>3 DEF CallWriter
  <2> HIDE DEF g
  <2>3. QED
    BY <2>1, <2>2 DEF WaitingWriters
<1>4. ASSUME NEW t \in Threads, NEW f \in Fibers, NEW m, CallReaders(t, f, m), f \in Writers
      PROVE  OnlyWriters'
  BY <1>4 DEF CallReaders
<1>5. ASSUME NEW t \in Threads, NEW f \in Fibers, Unlock(t, f)
      PROVE  OnlyWriters'
  <2>1. f \in Writers
    BY <1>5 DEF Unlock
  <2>2. DropUnique(mutex).unique_waiters_ = mutex.unique_waiters_
    BY DropUniqueOps
  <2>3. QED
    BY <1>3, <1>4, <1>5, <2>1, <2>2 DEF Unlock
<1>6. ASSUME NEW t \in Threads, NEW f \in Fibers, UnlockLoop(t, f)
      PROVE  OnlyWriters'
  BY <1>4, <1>6 DEF UnlockLoop
<1>7. ASSUME NEW t \in Threads, NEW f \in Fibers, UnlockShared(t, f)
      PROVE  OnlyWriters'
  <2>1. mutex.reader_count_ - 1 \in Nat
    BY <1>7, CountDown DEF UnlockShared, ActiveReaders
  <2>2. DropShared(mutex).unique_waiters_ = mutex.unique_waiters_
    BY <2>1, DropSharedOps
  <2>3. CASE CallWriter(t, f, DropShared(mutex)) /\ mutex.unique_waiters_ # <<>>
    BY <1>3, <2>2, <2>3
  <2>4. CASE pc' = [pc EXCEPT ![f] = "outside"]
    BY <2>4
  <2>5. QED
    BY <1>7, <2>2, <2>3, <2>4 DEF UnlockShared
<1>8. ASSUME NEW t \in Threads, NEW f \in Fibers, Dispatch(t, f)
      PROVE  OnlyWriters'
  BY <1>8 DEF Dispatch
<1>9. ASSUME NEW t \in Threads, NEW f \in Fibers, Await(t, f)
      PROVE  OnlyWriters'
  BY <1>9 DEF Await
<1>10. ASSUME NEW f \in Fibers, Complete(f)
       PROVE  OnlyWriters'
  BY <1>10 DEF Complete
<1>11. CASE UNCHANGED vars
  BY <1>11 DEF vars
<1>12. QED
  BY <1>1, <1>2, <1>5, <1>6, <1>7, <1>8, <1>9, <1>10, <1>11 DEF Next

\* With one writer, the writer is alone: nobody else can take the mutex while
\* the writer is in unlock's loop.
LEMMA OneWriterStep ==
    ASSUME \A f, g \in Writers : f = g,
           OneWriterInv, [Next]_vars
    PROVE  OneWriterInv'
<1> USE Facts DEF OneWriterInv
<1>0. IInv' /\ pc' \in [Fibers -> PCs]
  BY InductiveStep, Facts DEF IInv, TypeOK
<1>1. ASSUME NEW t \in Threads, NEW f \in Fibers, AsyncLock(t, f)
      PROVE  OneWriterInv'
  <2>1. f \in Writers /\ pc[f] = "outside"
    BY <1>1 DEF AsyncLock
  <2>2. CASE LockFree(mutex)
    <3>1. /\ mutex' = TakeUnique(mutex) /\ pc' = [pc EXCEPT ![f] = "wgranted"]
      BY <1>1, <2>2 DEF AsyncLock
    <3>2. mutex'.writer_active_
      BY <3>1, TakeUniqueOps
    <3>3. ActiveReaders = {} /\ ActiveWriters = {}
      BY <2>2, FibersFinite, FS_Subset, FS_EmptySet DEF LockFree, FlagExact
    <3>4. ActiveReaders' = {} /\ ActiveWriters' = {f} /\ OnlyWriters'
      BY <2>1, <3>1, <3>3 DEF ActiveReaders, ActiveWriters, OnlyWriters
    <3>5. QED
      BY <1>0, <3>2, <3>4 DEF FlagExact, Exclusion
  <2>3. CASE ~LockFree(mutex)
    <3>1. /\ mutex' = QueueUnique(mutex, f) /\ pc' = [pc EXCEPT ![f] = "wwaiting"]
      BY <1>1, <2>3 DEF AsyncLock
    <3>2. mutex'.writer_active_ = mutex.writer_active_
      BY <3>1, QueueUniqueOps
    <3>3. /\ ActiveReaders' = ActiveReaders /\ ActiveWriters' = ActiveWriters
          /\ OnlyWriters'
      BY <2>1, <3>1 DEF ActiveReaders, ActiveWriters, OnlyWriters
    <3>4. QED
      BY <1>0, <3>2, <3>3 DEF FlagExact, Exclusion
  <2>4. QED
    BY <2>2, <2>3
<1>2. ASSUME NEW t \in Threads, NEW f \in Fibers, AsyncLockShared(t, f)
      PROVE  OneWriterInv'
  <2>1. pc[f] = "outside"
    BY <1>2 DEF AsyncLockShared
  <2>2. CASE SharedFree(mutex)
    <3>1. /\ mutex' = TakeShared(mutex) /\ pc' = [pc EXCEPT ![f] = "rgranted"]
      BY <1>2, <2>2 DEF AsyncLockShared
    <3>2. ActiveWriters = {}
      BY <2>2 DEF SharedFree, FlagExact
    <3>3. ActiveWriters' = {} /\ OnlyWriters'
      BY <2>1, <3>1, <3>2 DEF ActiveWriters, OnlyWriters
    <3>4. QED
      BY <1>0, <3>3 DEF FlagExact, Exclusion
  <2>3. CASE ~SharedFree(mutex)
    <3>1. /\ mutex' = QueueShared(mutex, f) /\ pc' = [pc EXCEPT ![f] = "rwaiting"]
      BY <1>2, <2>3 DEF AsyncLockShared
    <3>2. mutex'.writer_active_ = mutex.writer_active_
      BY <3>1, QueueSharedOps
    <3>3. /\ ActiveReaders' = ActiveReaders /\ ActiveWriters' = ActiveWriters
          /\ OnlyWriters'
      BY <2>1, <3>1 DEF ActiveReaders, ActiveWriters, OnlyWriters
    <3>4. QED
      BY <1>0, <3>2, <3>3 DEF FlagExact, Exclusion
  <2>4. QED
    BY <2>2, <2>3
<1>3. ASSUME NEW t \in Threads, NEW f \in Fibers, Unlock(t, f)
      PROVE  OneWriterInv'
  <2>1. f \in Writers /\ f \in ActiveWriters
    BY <1>3 DEF Unlock, OnlyWriters, ActiveWriters
  <2>2. WaitingWriters \subseteq Writers /\ ActiveWriters \subseteq Writers
    BY DEF WaitingWriters, ActiveWriters, OnlyWriters
  <2>3. ActiveWriters' = {}
    BY <1>3, <2>1, <2>2, UnlockStep
  <2>4. QED
    BY <1>0, <2>3, OnlyWritersStep DEF FlagExact, Exclusion
<1>4. ASSUME NEW t \in Threads, NEW f \in Fibers, UnlockLoop(t, f)
      PROVE  OneWriterInv'
  <2>1. f \in Writers /\ pc[f] = "unlocking"
    BY <1>4 DEF UnlockLoop, OnlyWriters
  <2>2. ActiveWriters = {}
    BY <2>1 DEF ActiveWriters, OnlyWriters
  <2>3. ActiveWriters' = {}
    BY <1>4, <2>2, UnlockLoopStep
  <2>4. QED
    BY <1>0, <2>3, OnlyWritersStep DEF FlagExact, Exclusion
<1>5. ASSUME NEW t \in Threads, NEW f \in Fibers, UnlockShared(t, f)
      PROVE  OneWriterInv'
  <2>1. f \in ActiveReaders
    BY <1>5 DEF UnlockShared, ActiveReaders
  <2>2. ActiveWriters = {}
    BY <2>1 DEF Exclusion
  <2>3. OnlyWriters'
    BY OnlyWritersStep
  <2>4. ActiveWriters' \subseteq Writers
    BY <2>3 DEF ActiveWriters, OnlyWriters
  <2>5. ActiveWriters' = {} \/ (ActiveReaders' = {} /\ mutex'.writer_active_)
    BY <1>5, <2>2, UnlockSharedStep
  <2>6. QED
    BY <1>0, <2>3, <2>4, <2>5 DEF FlagExact, Exclusion
<1>6. ASSUME NEW f \in Fibers,
             (\E t \in Threads : Dispatch(t, f) \/ Await(t, f)) \/ Complete(f)
      PROVE  OneWriterInv'
  <2>1. ActiveReaders' = ActiveReaders /\ ActiveWriters' = ActiveWriters
    BY <1>6, ExecutorStep
  <2>2. mutex' = mutex
    BY <1>6 DEF Dispatch, Await, Complete
  <2>3. QED
    BY <1>0, <2>1, <2>2, OnlyWritersStep DEF FlagExact, Exclusion
<1>7. CASE UNCHANGED vars
  BY <1>0, <1>7 DEF vars, OnlyWriters, FlagExact, Exclusion, ActiveReaders, ActiveWriters
<1>8. QED
  BY <1>1, <1>2, <1>3, <1>4, <1>5, <1>6, <1>7 DEF Next

\* With at most one writer, and any number of readers and threads, a writer
\* holding shared_mutex_t is alone with it.
THEOREM OneWriterExclusion ==
    ASSUME \A f, g \in Writers : f = g
    PROVE  Spec => []Exclusion
<1>1. Init => OneWriterInv
  BY InitialState
     DEF Init, OneWriterInv, OnlyWriters, FlagExact, Exclusion, ActiveReaders, ActiveWriters
<1>2. OneWriterInv /\ [Next]_vars => OneWriterInv'
  BY OneWriterStep
<1>3. OneWriterInv => Exclusion
  BY DEF OneWriterInv
<1>4. QED
  BY <1>1, <1>2, <1>3, PTL DEF Spec
=============================================================================
