----------------------------- MODULE Topic_proofs -----------------------------
(***************************************************************************)
(* Proofs about Topic, for any threads, sessions, partitions, contents and *)
(* number of pushes.                                                       *)
(*                                                                         *)
(* ControlInv says where every session is and what the mutexes know of it; *)
(* it holds with any sessions.  Three more invariants build on it:         *)
(*  - Roles and Exclusive, for FewSessions: who is inside a partition is   *)
(*    there alone or a reader;                                             *)
(*  - ConsumerInv, for OneConsumer: what the only consumer has read is     *)
(*    still at the front;                                                  *)
(*  - Files, for FewSessions: the k-th record of a push is the k-th message*)
(*    that entered the partition.  Which record is the k-th is carried in  *)
(*    the invariant (Ranked).                                              *)
(***************************************************************************)
EXTENDS Topic, Executor_proofs, FiniteSetTheorems

\* No fiber is twice in the queue q.
NoRepeats(q) == \A i, j \in 1..Len(q) : q[i] = q[j] => i = j

\* f is on no stack and has no posted handler: only a queue can know it.
AtRest(f) == ~OnStack(f) /\ f \notin ready

\* The points at which a session holds or awaits the write guard for the first
\* time, the read guard, and the wall mutex.
WriteLockPoints == {"push_wall", "remove_check"}
ReadPoints      == {"read_front", "remove_peek"}
WallPoints      == {"push_store", "remove_store"}

PushPoints   == {"push_lock", "push_wall", "push_store", "push_apply"}
RemovePoints == {"remove_rlock", "remove_peek", "remove_lock", "remove_check",
                 "remove_store", "remove_pop"}

WaitWrite(p) == ToSet(mutex[p].unique_waiters_)
WaitRead(p)  == ToSet(mutex[p].shared_waiters_)
WaitWall     == ToSet(wall_mutex_.waiters_)

WallOwners == {f \in Fibers : pc[f] \in WallPoints /\ f \notin WaitWall}

\* The request is one the session's position fits.
RequestFits(f) ==
    /\ IF pc[f] = "idle" THEN req[f] = None ELSE req[f] \in Request
    /\ pc[f] \in PushPoints => req[f].id \in 1..MaxPush /\ req[f].data \in Data
    /\ pc[f] \in RemovePoints => req[f].data \in Data

ControlTypes ==
    /\ ExecTypeOK
    /\ pc \in [Fibers -> PCs]
    /\ req \in [Fibers -> Request \cup {None}]
    /\ mutex \in [Partitions -> P!SharedMutexType(Fibers)]
    /\ wall_mutex_ \in W!UniqueMutexType(Fibers)
    /\ \A f \in Fibers : RequestFits(f)

\* Who is queued on partition p is suspended there, and the counters count.
PartitionInv(p) ==
    /\ NoRepeats(mutex[p].unique_waiters_) /\ NoRepeats(mutex[p].shared_waiters_)
    /\ \A f \in WaitWrite(p) : pc[f] \in WriteLockPoints /\ Idx(f) = p /\ AtRest(f)
    /\ \A f \in WaitRead(p) : pc[f] \in ReadPoints /\ Idx(f) = p /\ AtRest(f)
    /\ mutex[p].writers_waiting_ = Len(mutex[p].unique_waiters_)
    /\ mutex[p].reader_count_ = Cardinality(ReadersOf(p))

\* Who is queued on the wall mutex is suspended there; the mutex is locked
\* exactly when it has an owner, and has one.
WallInv ==
    /\ NoRepeats(wall_mutex_.waiters_)
    /\ \A f \in WaitWall : pc[f] \in WallPoints /\ AtRest(f)
    /\ \A f, g \in WallOwners : f = g
    /\ wall_mutex_.locked_ <=> WallOwners # {}

ControlInv ==
    /\ ControlTypes
    /\ SingleFrame
    /\ WallInv
    /\ \A p \in Partitions : PartitionInv(p)

-----------------------------------------------------------------------------
(* Queues *)

\* What a fiber's joining a queue does to it, ...
LEMMA Joins ==
    ASSUME NEW q \in Seq(Fibers), NEW x \in Fibers
    PROVE  /\ Append(q, x) \in Seq(Fibers) /\ Len(Append(q, x)) = Len(q) + 1
           /\ ToSet(Append(q, x)) = ToSet(q) \cup {x}
           /\ NoRepeats(q) /\ x \notin ToSet(q) => NoRepeats(Append(q, x))
<1> DEFINE a == Append(q, x)
<1>1. /\ a \in Seq(Fibers) /\ Len(a) = Len(q) + 1 /\ Len(q) \in Nat
      /\ \A i \in 1..Len(q) : a[i] = q[i]
      /\ a[Len(q) + 1] = x
      /\ DOMAIN a = 1..Len(a) /\ DOMAIN q = 1..Len(q)
  OBVIOUS
<1> HIDE DEF a
<1>2. \A i : i \in 1..Len(a) <=> i \in 1..Len(q) \/ i = Len(q) + 1
  BY <1>1
<1>3. ToSet(a) = ToSet(q) \cup {x}
  BY <1>1, <1>2 DEF ToSet
<1>4. ASSUME NoRepeats(q), x \notin ToSet(q), NEW i \in 1..Len(a), NEW j \in 1..Len(a), a[i] = a[j]
      PROVE  i = j
  <2>1. CASE i \in 1..Len(q) /\ j \in 1..Len(q)
    BY <1>1, <1>4, <2>1 DEF NoRepeats
  <2>2. CASE i = Len(q) + 1 \/ j = Len(q) + 1
    BY <1>1, <1>2, <1>4, <2>2 DEF ToSet
  <2>3. QED
    BY <1>2, <2>1, <2>2
<1>5. QED
  BY <1>1, <1>3, <1>4 DEF a, NoRepeats

\* ... and what the first one's leaving does.
LEMMA FirstLeaves ==
    ASSUME NEW q \in Seq(Fibers), q # <<>>, NoRepeats(q)
    PROVE  /\ Head(q) \in ToSet(q) /\ Head(q) \in Fibers
           /\ Tail(q) \in Seq(Fibers) /\ Len(Tail(q)) = Len(q) - 1
           /\ ToSet(Tail(q)) = ToSet(q) \ {Head(q)}
           /\ NoRepeats(Tail(q))
<1> DEFINE b == Tail(q)
           h == Head(q)
<1>1. /\ h = q[1] /\ 1 \in 1..Len(q) /\ Len(q) \in Nat /\ h \in Fibers
      /\ b \in Seq(Fibers) /\ Len(b) = Len(q) - 1
      /\ \A i \in 1..Len(b) : b[i] = q[i + 1]
      /\ DOMAIN b = 1..Len(b) /\ DOMAIN q = 1..Len(q)
  OBVIOUS
<1> HIDE DEF b, h
<1>2. \A i \in 1..Len(b) : i + 1 \in 1..Len(q) /\ i + 1 # 1
  BY <1>1
<1>3. \A i \in 1..Len(q) : i # 1 => i - 1 \in 1..Len(b) /\ q[i] = b[i - 1]
  BY <1>1
<1>4. ToSet(b) = ToSet(q) \ {h}
  <2>1. ASSUME NEW i \in 1..Len(b)
        PROVE  b[i] \in ToSet(q) \ {h}
    BY <1>1, <1>2, SMTT(60) DEF NoRepeats, ToSet
  <2>2. ASSUME NEW i \in 1..Len(q), q[i] # h
        PROVE  q[i] \in ToSet(b)
    BY <1>1, <1>3, <2>2 DEF ToSet
  <2>3. QED
    BY <1>1, <2>1, <2>2, SMTT(60) DEF ToSet
<1>5. ASSUME NEW i \in 1..Len(b), NEW j \in 1..Len(b), b[i] = b[j]
      PROVE  i = j
  <2>1. i + 1 = j + 1
    BY <1>1, <1>2, <1>5 DEF NoRepeats
  <2>2. QED
    BY <2>1
<1>6. QED
  BY <1>1, <1>4, <1>5 DEF ToSet, NoRepeats, b, h

\* Nobody is in an empty queue, and somebody in any other.
LEMMA EmptyQueue ==
    ASSUME NEW q \in Seq(Fibers)
    PROVE  ToSet(q) \subseteq Fibers /\ (q = <<>> <=> ToSet(q) = {})
<1>1. DOMAIN q = 1..Len(q) /\ \A i \in 1..Len(q) : q[i] \in Fibers
  OBVIOUS
<1>2. q # <<>> => 1 \in 1..Len(q)
  OBVIOUS
<1>3. q = <<>> => 1..Len(q) = {}
  OBVIOUS
<1>4. QED
  BY <1>1, <1>2, <1>3 DEF ToSet

-----------------------------------------------------------------------------
(* The members of the mutexes *)

\* A shared_mutex_t has these members; what the operations do to them:
LEMMA SharedMutexMembers ==
    ASSUME NEW m \in P!SharedMutexType(Fibers)
    PROVE  /\ m.writer_active_ \in BOOLEAN /\ m.reader_count_ \in Nat
           /\ m.writers_waiting_ \in Nat
           /\ m.shared_waiters_ \in Seq(Fibers) /\ m.unique_waiters_ \in Seq(Fibers)
BY DEF P!SharedMutexType

\* async_lock on a free mutex,
LEMMA TakeUniqueMembers ==
    ASSUME NEW m \in P!SharedMutexType(Fibers)
    PROVE  LET n == P!TakeUnique(m)
           IN  /\ n \in P!SharedMutexType(Fibers) /\ n.writer_active_ = TRUE
               /\ n.reader_count_ = m.reader_count_ /\ n.writers_waiting_ = m.writers_waiting_
               /\ n.shared_waiters_ = m.shared_waiters_ /\ n.unique_waiters_ = m.unique_waiters_
BY DEF P!SharedMutexType, P!TakeUnique

\* async_lock on a taken one,
LEMMA QueueUniqueMembers ==
    ASSUME NEW m \in P!SharedMutexType(Fibers), NEW f \in Fibers
    PROVE  LET n == P!QueueUnique(m, f)
           IN  /\ n \in P!SharedMutexType(Fibers) /\ n.writer_active_ = m.writer_active_
               /\ n.reader_count_ = m.reader_count_
               /\ n.writers_waiting_ = m.writers_waiting_ + 1
               /\ n.shared_waiters_ = m.shared_waiters_
               /\ n.unique_waiters_ = Append(m.unique_waiters_, f)
<1>1. m.unique_waiters_ \in Seq(Fibers) /\ m.writers_waiting_ \in Nat
  BY DEF P!SharedMutexType
<1>2. Append(m.unique_waiters_, f) \in Seq(Fibers) /\ m.writers_waiting_ + 1 \in Nat
  BY <1>1
<1>3. QED
  BY <1>2 DEF P!SharedMutexType, P!QueueUnique

\* async_lock_shared on a free mutex,
LEMMA TakeSharedMembers ==
    ASSUME NEW m \in P!SharedMutexType(Fibers)
    PROVE  LET n == P!TakeShared(m)
           IN  /\ n \in P!SharedMutexType(Fibers) /\ n.writer_active_ = m.writer_active_
               /\ n.reader_count_ = m.reader_count_ + 1
               /\ n.writers_waiting_ = m.writers_waiting_
               /\ n.shared_waiters_ = m.shared_waiters_ /\ n.unique_waiters_ = m.unique_waiters_
BY DEF P!SharedMutexType, P!TakeShared

\* async_lock_shared on a taken one,
LEMMA QueueSharedMembers ==
    ASSUME NEW m \in P!SharedMutexType(Fibers), NEW f \in Fibers
    PROVE  LET n == P!QueueShared(m, f)
           IN  /\ n \in P!SharedMutexType(Fibers) /\ n.writer_active_ = m.writer_active_
               /\ n.reader_count_ = m.reader_count_ /\ n.writers_waiting_ = m.writers_waiting_
               /\ n.shared_waiters_ = Append(m.shared_waiters_, f)
               /\ n.unique_waiters_ = m.unique_waiters_
BY SMTT(60) DEF P!SharedMutexType, P!QueueShared

\* the beginning of unlock,
LEMMA DropUniqueMembers ==
    ASSUME NEW m \in P!SharedMutexType(Fibers)
    PROVE  LET n == P!DropUnique(m)
           IN  /\ n \in P!SharedMutexType(Fibers) /\ n.writer_active_ = FALSE
               /\ n.reader_count_ = m.reader_count_ /\ n.writers_waiting_ = m.writers_waiting_
               /\ n.shared_waiters_ = m.shared_waiters_ /\ n.unique_waiters_ = m.unique_waiters_
BY DEF P!SharedMutexType, P!DropUnique

\* of unlock_shared (a guard that exists has been counted),
LEMMA DropSharedMembers ==
    ASSUME NEW m \in P!SharedMutexType(Fibers), m.reader_count_ > 0
    PROVE  LET n == P!DropShared(m)
           IN  /\ n \in P!SharedMutexType(Fibers) /\ n.writer_active_ = m.writer_active_
               /\ n.reader_count_ = m.reader_count_ - 1
               /\ n.writers_waiting_ = m.writers_waiting_
               /\ n.shared_waiters_ = m.shared_waiters_ /\ n.unique_waiters_ = m.unique_waiters_
BY DEF P!SharedMutexType, P!DropShared

\* the passing of the lock to a queued writer,
LEMMA PassToWriterMembers ==
    ASSUME NEW m \in P!SharedMutexType(Fibers), m.unique_waiters_ # <<>>,
           m.writers_waiting_ = Len(m.unique_waiters_)
    PROVE  LET n == P!PassToWriter(m)
           IN  /\ n \in P!SharedMutexType(Fibers) /\ n.writer_active_ = TRUE
               /\ n.reader_count_ = m.reader_count_
               /\ n.writers_waiting_ = m.writers_waiting_ - 1
               /\ n.shared_waiters_ = m.shared_waiters_
               /\ n.unique_waiters_ = Tail(m.unique_waiters_)
<1>1. m.unique_waiters_ \in Seq(Fibers) /\ m.writers_waiting_ \in Nat
  BY DEF P!SharedMutexType
<1>2. Tail(m.unique_waiters_) \in Seq(Fibers) /\ m.writers_waiting_ - 1 \in Nat
  BY <1>1
<1>3. QED
  BY <1>2 DEF P!SharedMutexType, P!PassToWriter

\* and one turn of unlock's loop.
LEMMA PassToReaderMembers ==
    ASSUME NEW m \in P!SharedMutexType(Fibers), m.shared_waiters_ # <<>>
    PROVE  LET n == P!PassToReader(m)
           IN  /\ n \in P!SharedMutexType(Fibers) /\ n.writer_active_ = m.writer_active_
               /\ n.reader_count_ = m.reader_count_ + 1
               /\ n.writers_waiting_ = m.writers_waiting_
               /\ n.shared_waiters_ = Tail(m.shared_waiters_)
               /\ n.unique_waiters_ = m.unique_waiters_
<1>1. m.shared_waiters_ \in Seq(Fibers) /\ m.reader_count_ \in Nat
  BY DEF P!SharedMutexType
<1>2. Tail(m.shared_waiters_) \in Seq(Fibers) /\ m.reader_count_ + 1 \in Nat
  BY <1>1
<1>3. QED
  BY <1>2 DEF P!SharedMutexType, P!PassToReader

-----------------------------------------------------------------------------
(* Who is at rest *)

\* A running fiber is not.
LEMMA RunningBusy ==
    ASSUME ExecTypeOK, NEW t \in Threads, NEW f \in Fibers, Running(t, f)
    PROVE  ~AtRest(f) /\ OnStack(f)
<1>1. stack[t] \in Seq(Fibers) /\ stack[t] # <<>> /\ Head(stack[t]) = f
  BY DEF ExecTypeOK, Running
<1>2. 1 \in 1..Len(stack[t]) /\ stack[t][1] = f
  BY <1>1
<1>3. QED
  BY <1>2 DEF OnStack, AtRest

\* The running fiber suspends: nobody leaves rest.
LEMMA LeaveRest ==
    ASSUME ExecTypeOK, SingleFrame, NEW t \in Threads, NEW f \in Fibers,
           Running(t, f), Leave(t), UNCHANGED ready \/ Post(f)
    PROVE  /\ ExecTypeOK' /\ SingleFrame'
           /\ \A h \in Fibers : AtRest(h) => AtRest(h)'
           /\ UNCHANGED ready => AtRest(f)'
<1>1. OnStack(f) /\ f \notin ready
  BY RunningBusy DEF SingleFrame
<1>2. \A g : OnStack(g)' => OnStack(g) /\ g # f
  BY LeaveOnStack
<1>3. ready' \subseteq ready \cup {f}
  BY DEF Post
<1>4. ExecTypeOK'
  BY <1>3, LeaveStack DEF ExecTypeOK
<1>5. QED
  BY <1>1, <1>2, <1>3, <1>4, LeaveSingle DEF AtRest

\* A fiber at rest is called: nobody else leaves rest.
LEMMA CallRest ==
    ASSUME ExecTypeOK, SingleFrame, NEW t \in Threads, NEW g \in Fibers, AtRest(g),
           Call(t, g), UNCHANGED ready
    PROVE  /\ ExecTypeOK' /\ SingleFrame'
           /\ \A h \in Fibers \ {g} : AtRest(h) => AtRest(h)'
<1>1. \A h : OnStack(h)' => OnStack(h) \/ h = g
  BY CallOnStack
<1>2. ExecTypeOK'
  BY CallStack DEF ExecTypeOK
<1>3. QED
  BY <1>1, <1>2, CallSingle DEF AtRest

\* A thread takes a posted handler: nobody leaves rest.
LEMMA TakeRest ==
    ASSUME ExecTypeOK, SingleFrame, NEW t \in Threads, NEW f \in Fibers, TakePosted(t, f)
    PROVE  /\ ExecTypeOK' /\ SingleFrame'
           /\ \A h \in Fibers : AtRest(h) => AtRest(h)'
<1>1. \A h : OnStack(h)' => OnStack(h) \/ h = f
  BY TakeOnStack
<1>2. f \in ready /\ ready' = ready \ {f}
  BY TakeStack
<1>3. ExecTypeOK'
  BY <1>2, TakeStack DEF ExecTypeOK
<1>4. QED
  BY <1>1, <1>2, <1>3, TakeSingle DEF AtRest

\* A handler is posted for a fiber at rest: nobody else leaves rest.
LEMMA PostRest ==
    ASSUME ExecTypeOK, SingleFrame, NEW f \in Fibers, AtRest(f), Post(f), UNCHANGED stack
    PROVE  /\ ExecTypeOK' /\ SingleFrame'
           /\ \A h \in Fibers \ {f} : AtRest(h) => AtRest(h)'
<1>1. \A h : OnStack(h)' <=> OnStack(h)
  BY DEF OnStack
<1>2. ExecTypeOK'
  BY DEF ExecTypeOK, Post
<1>3. QED
  BY <1>1, <1>2, PostSingle DEF AtRest, Post

\* The stacks do not change.
LEMMA SameRest ==
    ASSUME ExecTypeOK, SingleFrame, UNCHANGED <<stack, ready>>
    PROVE  /\ ExecTypeOK' /\ SingleFrame'
           /\ \A h \in Fibers : AtRest(h) => AtRest(h)'
BY DEF ExecTypeOK, SingleFrame, AtRest, OnStack

-----------------------------------------------------------------------------
(* What a step of session f leaves alone *)

\* The position and the request of the other sessions.
OthersKeep(f) == \A h \in Fibers \ {f} : pc'[h] = pc[h] /\ req'[h] = req[h]

\* Requests go to partitions that exist.
LEMMA IdxPartition ==
    ASSUME ControlTypes, NEW f \in Fibers, pc[f] # "idle"
    PROVE  Idx(f) \in Partitions
<1>1. req[f] \in Request
  BY DEF ControlTypes, RequestFits
<1>2. TopicHash % N \in Partitions
  BY TopicAssumption DEF Partitions
<1>3. QED
  BY <1>1, <1>2 DEF Idx, PartitionIdx, Request

\* The queues of partition p.
LEMMA MutexQueues ==
    ASSUME ControlTypes, NEW p \in Partitions
    PROVE  /\ mutex[p] \in P!SharedMutexType(Fibers)
           /\ mutex[p].unique_waiters_ \in Seq(Fibers) /\ mutex[p].shared_waiters_ \in Seq(Fibers)
           /\ WaitWrite(p) \subseteq Fibers /\ WaitRead(p) \subseteq Fibers
           /\ mutex[p].reader_count_ \in Nat /\ mutex[p].writers_waiting_ \in Nat
<1>1. mutex[p] \in P!SharedMutexType(Fibers)
  BY DEF ControlTypes
<1>2. QED
  BY <1>1, SharedMutexMembers, EmptyQueue DEF WaitWrite, WaitRead

\* The queue of the wall mutex.
LEMMA WallQueue ==
    ASSUME ControlTypes
    PROVE  /\ wall_mutex_.waiters_ \in Seq(Fibers) /\ wall_mutex_.locked_ \in BOOLEAN
           /\ WaitWall \subseteq Fibers
           /\ wall_mutex_.waiters_ = <<>> <=> WaitWall = {}
<1>1. wall_mutex_.waiters_ \in Seq(Fibers) /\ wall_mutex_.locked_ \in BOOLEAN
  BY DEF ControlTypes, W!UniqueMutexType
<1>2. QED
  BY <1>1, EmptyQueue DEF WaitWall

\* Who is not at rest is in no queue.
LEMMA BusyUnqueued ==
    ASSUME ControlInv, NEW f, ~AtRest(f)
    PROVE  /\ \A p \in Partitions : f \notin WaitWrite(p) /\ f \notin WaitRead(p)
           /\ f \notin WaitWall
BY DEF ControlInv, PartitionInv, WallInv

\* Another session stays the reader it was, unless it is served or queued.
LEMMA OtherReader ==
    ASSUME NEW f, OthersKeep(f), NEW p, NEW h \in Fibers \ {f},
           h \in WaitRead(p)' <=> h \in WaitRead(p)
    PROVE  h \in ReadersOf(p)' <=> h \in ReadersOf(p)
BY DEF OthersKeep, ReadersOf, ReadQueued, WaitRead, Idx

\* A partition whose mutex the step leaves alone, up to writer_active_.
LEMMA PartitionKept ==
    ASSUME ControlTypes, NEW p \in Partitions, PartitionInv(p),
           NEW f \in Fibers, OthersKeep(f),
           mutex'[p].unique_waiters_ = mutex[p].unique_waiters_,
           mutex'[p].shared_waiters_ = mutex[p].shared_waiters_,
           mutex'[p].reader_count_ = mutex[p].reader_count_,
           mutex'[p].writers_waiting_ = mutex[p].writers_waiting_,
           f \notin WaitWrite(p), f \notin WaitRead(p),
           \A h \in WaitWrite(p) \cup WaitRead(p) : AtRest(h)',
           f \in ReadersOf(p)' <=> f \in ReadersOf(p)
    PROVE  PartitionInv(p)'
<1>1. WaitWrite(p)' = WaitWrite(p) /\ WaitRead(p)' = WaitRead(p)
  BY DEF WaitWrite, WaitRead
<1>2. WaitWrite(p) \subseteq Fibers /\ WaitRead(p) \subseteq Fibers
  BY MutexQueues
<1>3. ReadersOf(p)' = ReadersOf(p)
  <2>1. \A h \in Fibers : h \in ReadersOf(p)' <=> h \in ReadersOf(p)
    BY <1>1, OtherReader
  <2>2. QED
    BY <2>1 DEF ReadersOf
<1>4. \A h \in WaitWrite(p) \cup WaitRead(p) : pc'[h] = pc[h] /\ Idx(h)' = Idx(h)
  BY <1>2 DEF OthersKeep, Idx
<1>5. QED
  BY <1>1, <1>3, <1>4 DEF PartitionInv

\* The wall mutex, when the step leaves it alone.
LEMMA WallKept ==
    ASSUME ControlTypes, WallInv, NEW f \in Fibers, OthersKeep(f),
           wall_mutex_' = wall_mutex_,
           pc[f] \notin WallPoints, pc'[f] \notin WallPoints,
           \A h \in WaitWall : AtRest(h)'
    PROVE  WallInv'
<1>1. WaitWall' = WaitWall /\ WaitWall \subseteq Fibers
  BY WallQueue DEF WaitWall
<1>2. WallOwners' = WallOwners
  BY <1>1 DEF WallOwners, OthersKeep
<1>3. f \notin WaitWall
  BY DEF WallInv
<1>4. \A h \in WaitWall : pc'[h] = pc[h]
  BY <1>1, <1>3 DEF OthersKeep
<1>5. QED
  BY <1>1, <1>2, <1>4 DEF WallInv

\* Session f goes on to another point of the same request.
LEMMA MoveTypes ==
    ASSUME ControlTypes, NEW f \in Fibers, pc[f] # "idle",
           NEW point \in PCs \ {"idle"}, pc' = [pc EXCEPT ![f] = point], UNCHANGED req,
           point \in PushPoints => pc[f] \in PushPoints,
           point \in RemovePoints => pc[f] \in RemovePoints,
           ExecTypeOK', mutex' \in [Partitions -> P!SharedMutexType(Fibers)],
           wall_mutex_' \in W!UniqueMutexType(Fibers)
    PROVE  ControlTypes' /\ OthersKeep(f) /\ pc'[f] = point /\ Idx(f)' = Idx(f)
<1>1. pc' \in [Fibers -> PCs] /\ pc'[f] = point /\ \A h \in Fibers \ {f} : pc'[h] = pc[h]
  BY DEF ControlTypes
<1>2. \A h \in Fibers : RequestFits(h)'
  BY <1>1 DEF ControlTypes, RequestFits
<1>3. QED
  BY <1>1, <1>2 DEF ControlTypes, OthersKeep, Idx

\* A step of f on its partition p, which may call the session g queued there.
LEMMA OnePartition ==
    ASSUME ControlInv, ControlTypes', SingleFrame', NEW f \in Fibers, OthersKeep(f), ~AtRest(f),
           NEW p \in Partitions, Idx(f) = p, Idx(f)' = p,
           \A q \in Partitions \ {p} : mutex'[q] = mutex[q],
           wall_mutex_' = wall_mutex_, pc[f] \notin WallPoints, pc'[f] \notin WallPoints,
           NEW g, g = f \/ g \in WaitWrite(p) \cup WaitRead(p),
           \A h \in Fibers \ {g} : AtRest(h) => AtRest(h)',
           PartitionInv(p)'
    PROVE  ControlInv'
<1>1. \A q \in Partitions : f \notin WaitWrite(q) /\ f \notin WaitRead(q)
  BY BusyUnqueued
<1>2. f \notin WaitWall
  BY BusyUnqueued
<1>3. g \notin WaitWall
  BY <1>2 DEF ControlInv, PartitionInv, WallInv, WallPoints, WriteLockPoints, ReadPoints
<1>4. WallInv'
  <2>1. \A h \in WaitWall : AtRest(h)'
    BY <1>3, WallQueue DEF ControlInv, WallInv
  <2>2. QED
    BY <2>1, WallKept DEF ControlInv
<1>5. ASSUME NEW q \in Partitions, q # p
      PROVE  PartitionInv(q)'
  <2>1. g \notin WaitWrite(q) /\ g \notin WaitRead(q)
    BY <1>1, <1>5 DEF ControlInv, PartitionInv
  <2>2. \A h \in WaitWrite(q) \cup WaitRead(q) : AtRest(h)'
    BY <2>1, MutexQueues DEF ControlInv, PartitionInv
  <2>3. f \notin ReadersOf(q) /\ f \notin ReadersOf(q)'
    BY <1>5 DEF ReadersOf
  <2>4. QED
    BY <1>1, <1>5, <2>2, <2>3, PartitionKept DEF ControlInv
<1>6. QED
  BY <1>4, <1>5 DEF ControlInv

\* A fiber that was not a reader becomes one.
LEMMA CountUp ==
    ASSUME NEW S \in SUBSET Fibers, NEW f \in Fibers, f \notin S
    PROVE  Cardinality(S \cup {f}) = Cardinality(S) + 1
BY TopicAssumption, FS_Subset, FS_AddElement

\* A reader leaves: it had been counted.
LEMMA CountDown ==
    ASSUME NEW S \in SUBSET Fibers, NEW f \in S
    PROVE  /\ Cardinality(S \ {f}) = Cardinality(S) - 1
           /\ Cardinality(S) \in Nat /\ Cardinality(S) > 0
<1>1. IsFiniteSet(S) /\ IsFiniteSet(S \ {f})
  BY TopicAssumption, FS_Subset
<1>2. Cardinality(S \ {f}) = Cardinality(S) - 1
  BY <1>1, FS_RemoveElement
<1>3. Cardinality(S \ {f}) \in Nat /\ Cardinality(S) \in Nat
  BY <1>1, FS_CardinalityType
<1>4. QED
  BY <1>2, <1>3

-----------------------------------------------------------------------------
(* Locking a partition *)

\* write_lock
LEMMA WriteLockKeeps ==
    ASSUME ControlInv, NEW t \in Threads, NEW f \in Fibers, Running(t, f),
           NEW p \in Partitions, p = Idx(f), WriteLock(t, f, p),
           pc[f] \in {"push_lock", "remove_lock"},
           NEW point \in WriteLockPoints, pc' = [pc EXCEPT ![f] = point],
           point = IF pc[f] = "push_lock" THEN "push_wall" ELSE "remove_check",
           UNCHANGED <<req, wall_mutex_>>
    PROVE  ControlInv'
<1> DEFINE m == mutex[p]
<1>1. /\ ControlTypes /\ SingleFrame /\ ExecTypeOK
      /\ m \in P!SharedMutexType(Fibers) /\ PartitionInv(p)
      /\ mutex \in [Partitions -> P!SharedMutexType(Fibers)]
      /\ m.unique_waiters_ \in Seq(Fibers)
  BY IdxPartition, MutexQueues DEF ControlInv, ControlTypes
<1>2. ~AtRest(f) /\ f \notin WaitWrite(p) /\ f \notin WaitRead(p)
  BY <1>1, RunningBusy, BusyUnqueued
<1>3. /\ point \in PCs \ {"idle"} /\ pc[f] \notin WallPoints /\ point \notin WallPoints
      /\ pc[f] \notin ReadPoints /\ point \notin ReadPoints
      /\ point \in PushPoints => pc[f] \in PushPoints
      /\ point \in RemovePoints => pc[f] \in RemovePoints
  BY DEF WriteLockPoints, WallPoints, ReadPoints, PushPoints, RemovePoints, PCs
<1>4. f \notin ReadersOf(p)
  BY <1>3 DEF ReadersOf, ReadPoints
<1>5. CASE P!LockFree(m)
  <2>1. Leave(t) /\ Post(f) /\ mutex' = [mutex EXCEPT ![p] = P!TakeUnique(m)]
    BY <1>5 DEF WriteLock
  <2>2. /\ ExecTypeOK' /\ SingleFrame' /\ \A h \in Fibers : AtRest(h) => AtRest(h)'
    BY <1>1, <2>1, LeaveRest
  <2>3. /\ mutex' \in [Partitions -> P!SharedMutexType(Fibers)] /\ mutex'[p] = P!TakeUnique(m)
        /\ \A q \in Partitions \ {p} : mutex'[q] = mutex[q]
    BY <1>1, <2>1, TakeUniqueMembers
  <2>4. ControlTypes' /\ OthersKeep(f) /\ pc'[f] = point /\ Idx(f)' = p
    BY <1>1, <1>3, <2>2, <2>3, MoveTypes DEF ControlTypes
  <2>5. f \notin ReadersOf(p)'
    BY <1>3, <2>4 DEF ReadersOf, ReadPoints
  <2>6. \A h \in WaitWrite(p) \cup WaitRead(p) : AtRest(h)'
    BY <1>1, <2>2, MutexQueues DEF PartitionInv
  <2>7. PartitionInv(p)'
    BY <1>1, <1>2, <1>4, <2>3, <2>4, <2>5, <2>6, PartitionKept, TakeUniqueMembers, ZenonT(60)
  <2>8. QED
    BY <1>1, <1>2, <1>3, <2>2, <2>3, <2>4, <2>7, OnePartition
<1>6. CASE ~P!LockFree(m)
  <2>1. Leave(t) /\ UNCHANGED ready /\ mutex' = [mutex EXCEPT ![p] = P!QueueUnique(m, f)]
    BY <1>6 DEF WriteLock
  <2>2. /\ ExecTypeOK' /\ SingleFrame' /\ \A h \in Fibers : AtRest(h) => AtRest(h)'
        /\ AtRest(f)'
    BY <1>1, <2>1, LeaveRest
  <2>3. /\ mutex' \in [Partitions -> P!SharedMutexType(Fibers)] /\ mutex'[p] = P!QueueUnique(m, f)
        /\ \A q \in Partitions \ {p} : mutex'[q] = mutex[q]
    BY <1>1, <2>1, QueueUniqueMembers
  <2>4. ControlTypes' /\ OthersKeep(f) /\ pc'[f] = point /\ Idx(f)' = p
    BY <1>1, <1>3, <2>2, <2>3, MoveTypes DEF ControlTypes
  <2>5. /\ mutex'[p].unique_waiters_ = Append(m.unique_waiters_, f)
        /\ mutex'[p].shared_waiters_ = m.shared_waiters_
        /\ mutex'[p].reader_count_ = m.reader_count_
        /\ mutex'[p].writers_waiting_ = m.writers_waiting_ + 1
    <3>1. m \in P!SharedMutexType(Fibers) /\ mutex'[p] = P!QueueUnique(m, f)
      BY <1>1, <2>3
    <3> HIDE DEF m
    <3>2. QED
      BY <3>1, QueueUniqueMembers
  <2> HIDE DEF m
  <2>6. /\ WaitWrite(p)' = WaitWrite(p) \cup {f} /\ WaitRead(p)' = WaitRead(p)
        /\ NoRepeats(mutex'[p].unique_waiters_)
        /\ Len(mutex'[p].unique_waiters_) = Len(m.unique_waiters_) + 1
    BY <1>1, <1>2, <2>5, Joins DEF WaitWrite, WaitRead, PartitionInv, m
  <2>7. ReadersOf(p)' = ReadersOf(p)
    <3>1. f \notin ReadersOf(p)'
      BY <1>3, <2>4 DEF ReadersOf, ReadPoints
    <3>2. \A h \in Fibers : h \in ReadersOf(p)' <=> h \in ReadersOf(p)
      BY <1>4, <2>4, <2>6, <3>1, OtherReader
    <3>3. QED
      BY <3>2 DEF ReadersOf
  <2>8. \A h \in (WaitWrite(p) \cup WaitRead(p)) : pc'[h] = pc[h] /\ Idx(h)' = Idx(h) /\ AtRest(h)'
    BY <1>1, <1>2, <2>2, <2>4, MutexQueues DEF OthersKeep, Idx, PartitionInv
  <2>9. PartitionInv(p)'
    BY <1>1, <2>2, <2>4, <2>5, <2>6, <2>7, <2>8 DEF PartitionInv, m
  <2>10. QED
    BY <1>1, <1>2, <1>3, <2>2, <2>3, <2>4, <2>9, OnePartition
<1>7. QED
  BY <1>5, <1>6

\* One mutex is replaced.
LEMMA SetMutex ==
    ASSUME ControlTypes, NEW p \in Partitions, NEW n \in P!SharedMutexType(Fibers),
           mutex' = [mutex EXCEPT ![p] = n]
    PROVE  /\ mutex' \in [Partitions -> P!SharedMutexType(Fibers)] /\ mutex'[p] = n
           /\ \A q \in Partitions \ {p} : mutex'[q] = mutex[q]
BY DEF ControlTypes

\* read_lock
LEMMA ReadLockKeeps ==
    ASSUME ControlInv, NEW t \in Threads, NEW f \in Fibers, Running(t, f),
           NEW p \in Partitions, p = Idx(f), ReadLock(t, f, p),
           pc[f] \in {"read_lock", "remove_rlock"},
           NEW point \in ReadPoints, pc' = [pc EXCEPT ![f] = point],
           point = IF pc[f] = "read_lock" THEN "read_front" ELSE "remove_peek",
           UNCHANGED <<req, wall_mutex_>>
    PROVE  ControlInv'
<1> DEFINE m == mutex[p]
<1>1. /\ ControlTypes /\ SingleFrame /\ ExecTypeOK
      /\ m \in P!SharedMutexType(Fibers) /\ PartitionInv(p)
      /\ m.shared_waiters_ \in Seq(Fibers)
  BY MutexQueues DEF ControlInv, ControlTypes
<1>2. ~AtRest(f) /\ f \notin WaitWrite(p) /\ f \notin WaitRead(p)
  BY <1>1, RunningBusy, BusyUnqueued
<1>3. /\ point \in PCs \ {"idle"} /\ pc[f] \notin WallPoints /\ point \notin WallPoints
      /\ pc[f] \notin ReadPoints
      /\ point \in PushPoints => pc[f] \in PushPoints
      /\ point \in RemovePoints => pc[f] \in RemovePoints
  BY DEF WallPoints, ReadPoints, PushPoints, RemovePoints, PCs
<1>4. f \notin ReadersOf(p)
  BY <1>3 DEF ReadersOf, ReadPoints
<1>5. /\ Leave(t) /\ (UNCHANGED ready \/ Post(f))
  BY DEF ReadLock
<1>6. ExecTypeOK' /\ SingleFrame' /\ \A h \in Fibers : AtRest(h) => AtRest(h)'
  BY <1>1, <1>5, LeaveRest
<1>7. ASSUME NEW n \in P!SharedMutexType(Fibers), mutex' = [mutex EXCEPT ![p] = n]
      PROVE  /\ mutex'[p] = n /\ \A q \in Partitions \ {p} : mutex'[q] = mutex[q]
             /\ ControlTypes' /\ OthersKeep(f) /\ pc'[f] = point /\ Idx(f)' = p
             /\ \A h \in (WaitWrite(p) \cup WaitRead(p)) :
                   pc'[h] = pc[h] /\ Idx(h)' = Idx(h) /\ AtRest(h)'
             /\ PartitionInv(p)' => ControlInv'
  <2>1. /\ mutex' \in [Partitions -> P!SharedMutexType(Fibers)] /\ mutex'[p] = n
        /\ \A q \in Partitions \ {p} : mutex'[q] = mutex[q]
    BY <1>1, <1>7, SetMutex
  <2>2. ControlTypes' /\ OthersKeep(f) /\ pc'[f] = point /\ Idx(f)' = p
    BY <1>1, <1>3, <1>6, <2>1, MoveTypes DEF ControlTypes
  <2>3. \A h \in (WaitWrite(p) \cup WaitRead(p)) :
           pc'[h] = pc[h] /\ Idx(h)' = Idx(h) /\ AtRest(h)'
    BY <1>1, <1>2, <1>6, <2>2, MutexQueues DEF OthersKeep, Idx, PartitionInv
  <2>4. PartitionInv(p)' => ControlInv'
    BY <1>1, <1>2, <1>3, <1>6, <2>1, <2>2, OnePartition
  <2>5. QED
    BY <2>1, <2>2, <2>3, <2>4
<1>8. CASE P!SharedFree(m)
  <2> DEFINE n == P!TakeShared(m)
  <2>1. mutex' = [mutex EXCEPT ![p] = n]
    BY <1>8 DEF ReadLock
  <2>2. /\ n \in P!SharedMutexType(Fibers)
        /\ n.reader_count_ = m.reader_count_ + 1 /\ n.writers_waiting_ = m.writers_waiting_
        /\ n.shared_waiters_ = m.shared_waiters_ /\ n.unique_waiters_ = m.unique_waiters_
    BY <1>1, TakeSharedMembers
  <2> HIDE DEF n
  <2>3. /\ mutex'[p] = n /\ OthersKeep(f) /\ pc'[f] = point /\ Idx(f)' = p
        /\ \A h \in (WaitWrite(p) \cup WaitRead(p)) :
              pc'[h] = pc[h] /\ Idx(h)' = Idx(h) /\ AtRest(h)'
        /\ PartitionInv(p)' => ControlInv'
    BY <1>7, <2>1, <2>2
  <2>4. WaitWrite(p)' = WaitWrite(p) /\ WaitRead(p)' = WaitRead(p)
    BY <2>2, <2>3 DEF WaitWrite, WaitRead
  <2>5. ReadersOf(p)' = ReadersOf(p) \cup {f}
    <3>1. f \in ReadersOf(p)'
      BY <1>2, <2>3, <2>4 DEF ReadersOf, ReadPoints, ReadQueued, WaitRead
    <3>2. \A h \in Fibers \ {f} : h \in ReadersOf(p)' <=> h \in ReadersOf(p)
      BY <2>3, <2>4, OtherReader
    <3>3. QED
      BY <3>1, <3>2 DEF ReadersOf
  <2>6. Cardinality(ReadersOf(p)') = Cardinality(ReadersOf(p)) + 1
    BY <1>4, <2>5, CountUp DEF ReadersOf
  <2>7. PartitionInv(p)'
    BY <1>1, <2>2, <2>3, <2>4, <2>6 DEF PartitionInv
  <2>8. QED
    BY <2>3, <2>7
<1>9. CASE ~P!SharedFree(m)
  <2> DEFINE n == P!QueueShared(m, f)
  <2>1. mutex' = [mutex EXCEPT ![p] = n] /\ UNCHANGED ready
    BY <1>9 DEF ReadLock
  <2>2. /\ n \in P!SharedMutexType(Fibers)
        /\ n.reader_count_ = m.reader_count_ /\ n.writers_waiting_ = m.writers_waiting_
        /\ n.shared_waiters_ = Append(m.shared_waiters_, f)
        /\ n.unique_waiters_ = m.unique_waiters_
    BY <1>1, QueueSharedMembers
  <2> HIDE DEF n
  <2>3. /\ mutex'[p] = n /\ OthersKeep(f) /\ pc'[f] = point /\ Idx(f)' = p
        /\ \A h \in (WaitWrite(p) \cup WaitRead(p)) :
              pc'[h] = pc[h] /\ Idx(h)' = Idx(h) /\ AtRest(h)'
        /\ PartitionInv(p)' => ControlInv'
    BY <1>7, <2>1, <2>2
  <2>4. AtRest(f)'
    BY <1>1, <1>5, <2>1, LeaveRest
  <2>5. /\ WaitRead(p)' = WaitRead(p) \cup {f} /\ WaitWrite(p)' = WaitWrite(p)
        /\ NoRepeats(mutex'[p].shared_waiters_)
    BY <1>1, <1>2, <2>2, <2>3, Joins DEF WaitWrite, WaitRead, PartitionInv
  <2>6. ReadersOf(p)' = ReadersOf(p)
    <3>1. f \notin ReadersOf(p)'
      BY <2>5 DEF ReadersOf, ReadQueued, WaitRead
    <3>2. \A h \in Fibers : h \in ReadersOf(p)' <=> h \in ReadersOf(p)
      BY <1>4, <2>3, <2>5, <3>1, OtherReader
    <3>3. QED
      BY <3>2 DEF ReadersOf
  <2>7. PartitionInv(p)'
    BY <1>1, <2>2, <2>3, <2>4, <2>5, <2>6 DEF PartitionInv
  <2>8. QED
    BY <2>3, <2>7
<1>10. QED
  BY <1>8, <1>9

-----------------------------------------------------------------------------
(* Unlocking a partition *)

\* The first queued writer of partition p leaves the queue and is called.
LEMMA WriterCalled ==
    ASSUME ControlTypes, NEW p \in Partitions, PartitionInv(p),
           NEW f \in Fibers, OthersKeep(f), f \notin WaitWrite(p), f \notin WaitRead(p),
           mutex[p].unique_waiters_ # <<>>, NEW g, g = Head(mutex[p].unique_waiters_),
           mutex'[p].unique_waiters_ = Tail(mutex[p].unique_waiters_),
           mutex'[p].shared_waiters_ = mutex[p].shared_waiters_,
           mutex'[p].writers_waiting_ = mutex[p].writers_waiting_ - 1,
           mutex'[p].reader_count_ = Cardinality(ReadersOf(p)'),
           \A h \in Fibers \ {g} : AtRest(h) => AtRest(h)'
    PROVE  PartitionInv(p)'
<1>1. /\ mutex[p].unique_waiters_ \in Seq(Fibers)
      /\ WaitWrite(p) \subseteq Fibers /\ WaitRead(p) \subseteq Fibers
  BY MutexQueues
<1>2. /\ NoRepeats(mutex'[p].unique_waiters_)
      /\ WaitWrite(p)' = WaitWrite(p) \ {g} /\ WaitRead(p)' = WaitRead(p)
      /\ Len(mutex'[p].unique_waiters_) = Len(mutex[p].unique_waiters_) - 1
      /\ g \in WaitWrite(p)
  BY <1>1, FirstLeaves DEF PartitionInv, WaitWrite, WaitRead
<1>3. g \notin WaitRead(p)
  BY <1>2 DEF PartitionInv, WriteLockPoints, ReadPoints
<1>4. \A h \in (WaitWrite(p) \cup WaitRead(p)) \ {g} :
         pc'[h] = pc[h] /\ Idx(h)' = Idx(h) /\ AtRest(h)'
  BY <1>1 DEF OthersKeep, Idx, PartitionInv
<1>5. QED
  BY <1>2, <1>3, <1>4 DEF PartitionInv

\* The first queued reader of partition p leaves the queue and is called.
LEMMA ReaderCalled ==
    ASSUME ControlTypes, NEW p \in Partitions, PartitionInv(p),
           NEW f \in Fibers, OthersKeep(f), f \notin WaitWrite(p), f \notin WaitRead(p),
           pc[f] \notin ReadPoints, pc'[f] \notin ReadPoints,
           mutex[p].shared_waiters_ # <<>>, NEW g, g = Head(mutex[p].shared_waiters_),
           mutex'[p].shared_waiters_ = Tail(mutex[p].shared_waiters_),
           mutex'[p].unique_waiters_ = mutex[p].unique_waiters_,
           mutex'[p].writers_waiting_ = mutex[p].writers_waiting_,
           mutex'[p].reader_count_ = mutex[p].reader_count_ + 1,
           \A h \in Fibers \ {g} : AtRest(h) => AtRest(h)'
    PROVE  PartitionInv(p)' /\ ReadersOf(p)' = ReadersOf(p) \cup {g}
<1>1. /\ mutex[p].shared_waiters_ \in Seq(Fibers)
      /\ WaitWrite(p) \subseteq Fibers /\ WaitRead(p) \subseteq Fibers
  BY MutexQueues
<1>2. /\ NoRepeats(mutex'[p].shared_waiters_)
      /\ WaitRead(p)' = WaitRead(p) \ {g} /\ WaitWrite(p)' = WaitWrite(p)
      /\ g \in WaitRead(p) /\ g \in Fibers /\ g # f
  BY <1>1, FirstLeaves DEF PartitionInv, WaitWrite, WaitRead
<1>3. g \notin WaitWrite(p)
  BY <1>2 DEF PartitionInv, WriteLockPoints, ReadPoints
<1>4. \A h \in (WaitWrite(p) \cup WaitRead(p)) \ {g} :
         pc'[h] = pc[h] /\ Idx(h)' = Idx(h) /\ AtRest(h)'
  BY <1>1 DEF OthersKeep, Idx, PartitionInv
<1>5. g \notin ReadersOf(p) /\ g \in ReadersOf(p)'
  <2>1. pc[g] \in ReadPoints /\ Idx(g) = p /\ g \notin WaitRead(p)'
    BY <1>2 DEF PartitionInv
  <2>2. QED
    BY <1>2, <2>1 DEF ReadersOf, ReadQueued, WaitRead, ReadPoints, OthersKeep, Idx
<1>6. ReadersOf(p)' = ReadersOf(p) \cup {g}
  <2>1. f \notin ReadersOf(p) /\ f \notin ReadersOf(p)'
    BY DEF ReadersOf, ReadPoints
  <2>2. \A h \in Fibers \ {f, g} : h \in ReadersOf(p)' <=> h \in ReadersOf(p)
    BY <1>2, OtherReader
  <2>3. QED
    BY <1>2, <1>5, <2>1, <2>2 DEF ReadersOf
<1>7. Cardinality(ReadersOf(p)') = Cardinality(ReadersOf(p)) + 1
  BY <1>2, <1>5, <1>6, CountUp DEF ReadersOf
<1>8. QED
  BY <1>2, <1>3, <1>4, <1>6, <1>7 DEF PartitionInv

\* The points from which a write guard is destroyed, with the rest of unlock.
UnlockPoints == {"push_apply", "remove_check", "remove_pop", "unlocking"}

\* One turn of unlock's loop.
LEMMA CallReadersKeeps ==
    ASSUME ControlInv, NEW t \in Threads, NEW f \in Fibers, Running(t, f),
           NEW p \in Partitions, p = Idx(f), pc[f] \in UnlockPoints,
           NEW m \in P!SharedMutexType(Fibers),
           m.reader_count_ = mutex[p].reader_count_,
           m.writers_waiting_ = mutex[p].writers_waiting_,
           m.shared_waiters_ = mutex[p].shared_waiters_,
           m.unique_waiters_ = mutex[p].unique_waiters_,
           CallReaders(t, f, p, m), UNCHANGED <<ready, req, wall_mutex_>>
    PROVE  ControlInv'
<1>1. /\ ControlTypes /\ SingleFrame /\ ExecTypeOK /\ PartitionInv(p)
      /\ mutex[p].shared_waiters_ \in Seq(Fibers)
  BY MutexQueues DEF ControlInv, ControlTypes
<1>2. ~AtRest(f) /\ f \notin WaitWrite(p) /\ f \notin WaitRead(p)
  BY <1>1, RunningBusy, BusyUnqueued
<1>3. pc[f] \notin WallPoints \cup ReadPoints /\ pc[f] # "idle"
  BY DEF UnlockPoints, WallPoints, ReadPoints
<1>4. ASSUME NEW point \in {"unlocking", "respond"}, pc' = [pc EXCEPT ![f] = point], ExecTypeOK',
             NEW n \in P!SharedMutexType(Fibers), mutex' = [mutex EXCEPT ![p] = n]
      PROVE  /\ mutex'[p] = n /\ \A q \in Partitions \ {p} : mutex'[q] = mutex[q]
             /\ ControlTypes' /\ OthersKeep(f) /\ Idx(f)' = p
             /\ pc'[f] \notin WallPoints \cup ReadPoints
  <2>1. /\ mutex' \in [Partitions -> P!SharedMutexType(Fibers)] /\ mutex'[p] = n
        /\ \A q \in Partitions \ {p} : mutex'[q] = mutex[q]
    BY <1>1, <1>4, SetMutex
  <2>2. point \in PCs \ {"idle"} /\ point \notin PushPoints \cup RemovePoints \cup WallPoints \cup ReadPoints
    BY DEF PCs, PushPoints, RemovePoints, WallPoints, ReadPoints
  <2>3. ControlTypes' /\ OthersKeep(f) /\ pc'[f] = point /\ Idx(f)' = p
    BY <1>1, <1>3, <1>4, <2>1, <2>2, MoveTypes DEF ControlTypes
  <2>4. QED
    BY <2>1, <2>2, <2>3
<1>5. CASE m.shared_waiters_ # <<>>
  <2> DEFINE n == P!PassToReader(m)
             g == Head(m.shared_waiters_)
  <2>1. mutex' = [mutex EXCEPT ![p] = n] /\ Call(t, g) /\ pc' = [pc EXCEPT ![f] = "unlocking"]
    BY <1>5 DEF CallReaders
  <2>2. /\ n \in P!SharedMutexType(Fibers)
        /\ n.reader_count_ = m.reader_count_ + 1 /\ n.writers_waiting_ = m.writers_waiting_
        /\ n.shared_waiters_ = Tail(m.shared_waiters_) /\ n.unique_waiters_ = m.unique_waiters_
    BY <1>5, PassToReaderMembers
  <2>3. g \in WaitRead(p) /\ g \in Fibers /\ AtRest(g)
    BY <1>1, <1>5, FirstLeaves DEF PartitionInv, WaitRead
  <2>4. ExecTypeOK' /\ SingleFrame' /\ \A h \in Fibers \ {g} : AtRest(h) => AtRest(h)'
    BY <1>1, <2>1, <2>3, CallRest
  <2> HIDE DEF n, g
  <2>5. /\ mutex'[p] = n /\ \A q \in Partitions \ {p} : mutex'[q] = mutex[q]
        /\ ControlTypes' /\ OthersKeep(f) /\ Idx(f)' = p
        /\ pc'[f] \notin WallPoints \cup ReadPoints
    BY <1>4, <2>1, <2>2, <2>4
  <2>6. /\ mutex'[p].reader_count_ = mutex[p].reader_count_ + 1
        /\ mutex'[p].writers_waiting_ = mutex[p].writers_waiting_
        /\ mutex'[p].shared_waiters_ = Tail(mutex[p].shared_waiters_)
        /\ mutex'[p].unique_waiters_ = mutex[p].unique_waiters_
        /\ g = Head(mutex[p].shared_waiters_)
    BY <2>2, <2>5 DEF g
  <2>7. PartitionInv(p)'
    BY <1>1, <1>2, <1>3, <1>5, <2>4, <2>5, <2>6, ReaderCalled
  <2>8. QED
    BY <1>2, <1>3, <2>3, <2>4, <2>5, <2>7, OnePartition
<1>6. CASE m.shared_waiters_ = <<>>
  <2>1. mutex' = [mutex EXCEPT ![p] = m] /\ UNCHANGED stack /\ pc' = [pc EXCEPT ![f] = "respond"]
    BY <1>6 DEF CallReaders
  <2>2. ExecTypeOK' /\ SingleFrame' /\ \A h \in Fibers : AtRest(h) => AtRest(h)'
    BY <1>1, <2>1, SameRest
  <2>3. /\ mutex'[p] = m /\ \A q \in Partitions \ {p} : mutex'[q] = mutex[q]
        /\ ControlTypes' /\ OthersKeep(f) /\ Idx(f)' = p
        /\ pc'[f] \notin WallPoints \cup ReadPoints
    BY <1>4, <2>1, <2>2
  <2>4. f \notin ReadersOf(p) /\ f \notin ReadersOf(p)'
    BY <1>3, <2>3 DEF ReadersOf, ReadPoints
  <2>5. \A h \in WaitWrite(p) \cup WaitRead(p) : AtRest(h)'
    BY <1>1, <2>2, MutexQueues DEF PartitionInv
  <2>6. PartitionInv(p)'
    BY <1>1, <1>2, <2>3, <2>4, <2>5, PartitionKept
  <2>7. QED
    BY <1>2, <1>3, <2>2, <2>3, <2>6, OnePartition
<1>7. QED
  BY <1>5, <1>6

\* The lock passes to the first queued writer, who is called; f has dropped
\* its own guard.
LEMMA PassToWriterKeeps ==
    ASSUME ControlInv, NEW t \in Threads, NEW f \in Fibers, Running(t, f),
           NEW p \in Partitions, p = Idx(f), pc[f] # "idle", pc[f] \notin WallPoints,
           NEW point \in PCs \ {"idle"}, pc' = [pc EXCEPT ![f] = point],
           point \notin WallPoints, point \notin ReadPoints,
           point \in PushPoints => pc[f] \in PushPoints,
           point \in RemovePoints => pc[f] \in RemovePoints,
           NEW m \in P!SharedMutexType(Fibers),
           m.reader_count_ = Cardinality(ReadersOf(p) \ {f}),
           m.writers_waiting_ = mutex[p].writers_waiting_,
           m.shared_waiters_ = mutex[p].shared_waiters_,
           m.unique_waiters_ = mutex[p].unique_waiters_, m.unique_waiters_ # <<>>,
           mutex' = [mutex EXCEPT ![p] = P!PassToWriter(m)],
           Call(t, Head(m.unique_waiters_)), UNCHANGED <<ready, req, wall_mutex_>>
    PROVE  ControlInv'
<1> DEFINE n == P!PassToWriter(m)
           g == Head(m.unique_waiters_)
<1>1. /\ ControlTypes /\ SingleFrame /\ ExecTypeOK /\ PartitionInv(p)
      /\ mutex[p].unique_waiters_ \in Seq(Fibers)
  BY MutexQueues DEF ControlInv, ControlTypes
<1>2. ~AtRest(f) /\ f \notin WaitWrite(p) /\ f \notin WaitRead(p)
  BY <1>1, RunningBusy, BusyUnqueued
<1>3. /\ n \in P!SharedMutexType(Fibers)
      /\ n.reader_count_ = m.reader_count_ /\ n.writers_waiting_ = m.writers_waiting_ - 1
      /\ n.shared_waiters_ = m.shared_waiters_ /\ n.unique_waiters_ = Tail(m.unique_waiters_)
  <2>1. m.writers_waiting_ = Len(m.unique_waiters_)
    BY <1>1 DEF PartitionInv
  <2>2. QED
    BY <2>1, PassToWriterMembers
<1>4. g \in WaitWrite(p) /\ g \in Fibers /\ AtRest(g)
  BY <1>1, FirstLeaves DEF PartitionInv, WaitWrite
<1>5. ExecTypeOK' /\ SingleFrame' /\ \A h \in Fibers \ {g} : AtRest(h) => AtRest(h)'
  BY <1>1, <1>4, CallRest
<1>6. /\ mutex' \in [Partitions -> P!SharedMutexType(Fibers)] /\ mutex'[p] = n
      /\ \A q \in Partitions \ {p} : mutex'[q] = mutex[q]
  BY <1>1, <1>3, SetMutex
<1> HIDE DEF n, g
<1>7. ControlTypes' /\ OthersKeep(f) /\ pc'[f] = point /\ Idx(f)' = p
  BY <1>1, <1>5, <1>6, MoveTypes DEF ControlTypes
<1>8. ReadersOf(p)' = ReadersOf(p) \ {f}
  <2>1. f \notin ReadersOf(p)'
    BY <1>7 DEF ReadersOf, ReadPoints
  <2>2. WaitRead(p)' = WaitRead(p)
    BY <1>3, <1>6 DEF WaitRead
  <2>3. \A h \in Fibers \ {f} : h \in ReadersOf(p)' <=> h \in ReadersOf(p)
    BY <1>7, <2>2, OtherReader
  <2>4. QED
    BY <2>1, <2>3 DEF ReadersOf
<1>9. /\ mutex'[p].reader_count_ = Cardinality(ReadersOf(p)')
      /\ mutex'[p].writers_waiting_ = mutex[p].writers_waiting_ - 1
      /\ mutex'[p].shared_waiters_ = mutex[p].shared_waiters_
      /\ mutex'[p].unique_waiters_ = Tail(mutex[p].unique_waiters_)
      /\ g = Head(mutex[p].unique_waiters_)
  BY <1>3, <1>6, <1>8 DEF g
<1>10. PartitionInv(p)'
  BY <1>1, <1>2, <1>5, <1>7, <1>9, WriterCalled
<1>11. QED
  BY <1>2, <1>4, <1>5, <1>6, <1>7, <1>10, OnePartition

\* The write guard is destroyed.
LEMMA WriteUnlockKeeps ==
    ASSUME ControlInv, NEW t \in Threads, NEW f \in Fibers, Running(t, f),
           NEW p \in Partitions, p = Idx(f), pc[f] \in UnlockPoints,
           WriteUnlock(t, f, p), UNCHANGED <<ready, req, wall_mutex_>>
    PROVE  ControlInv'
<1> DEFINE m == P!DropUnique(mutex[p])
<1>1. /\ mutex[p] \in P!SharedMutexType(Fibers)
      /\ mutex[p].reader_count_ = Cardinality(ReadersOf(p))
  BY MutexQueues DEF ControlInv, PartitionInv
<1>2. /\ m \in P!SharedMutexType(Fibers)
      /\ m.reader_count_ = mutex[p].reader_count_
      /\ m.writers_waiting_ = mutex[p].writers_waiting_
      /\ m.shared_waiters_ = mutex[p].shared_waiters_
      /\ m.unique_waiters_ = mutex[p].unique_waiters_
  BY <1>1, DropUniqueMembers
<1>3. \/ /\ m.unique_waiters_ # <<>> /\ mutex' = [mutex EXCEPT ![p] = P!PassToWriter(m)]
         /\ Call(t, Head(m.unique_waiters_)) /\ pc' = [pc EXCEPT ![f] = "respond"]
      \/ CallReaders(t, f, p, m)
  BY DEF WriteUnlock
<1> HIDE DEF m
<1>4. CASE CallReaders(t, f, p, m)
  BY <1>2, <1>4, CallReadersKeeps
<1>5. CASE ~CallReaders(t, f, p, m)
  <2>1. /\ "respond" \in PCs \ {"idle"} /\ "respond" \notin PushPoints \cup RemovePoints
        /\ "respond" \notin WallPoints /\ "respond" \notin ReadPoints
        /\ pc[f] \notin WallPoints /\ pc[f] # "idle" /\ pc[f] \notin ReadPoints
    BY DEF PCs, PushPoints, RemovePoints, WallPoints, ReadPoints, UnlockPoints
  <2>2. m.reader_count_ = Cardinality(ReadersOf(p) \ {f})
    <3>1. ReadersOf(p) \ {f} = ReadersOf(p)
      BY <2>1 DEF ReadersOf, ReadPoints
    <3>2. QED
      BY <1>1, <1>2, <3>1
  <2>3. QED
    BY <1>2, <1>3, <1>5, <2>1, <2>2, PassToWriterKeeps
<1>6. QED
  BY <1>4, <1>5

\* The read guard is destroyed.
LEMMA ReadUnlockKeeps ==
    ASSUME ControlInv, NEW t \in Threads, NEW f \in Fibers, Running(t, f),
           NEW p \in Partitions, p = Idx(f), pc[f] \in ReadPoints,
           NEW point, \/ point = "respond"
                      \/ point = "remove_lock" /\ pc[f] = "remove_peek",
           ReadUnlock(t, f, p, point), UNCHANGED <<ready, req, wall_mutex_>>
    PROVE  ControlInv'
<1> DEFINE m == P!DropShared(mutex[p])
<1>1. /\ ControlTypes /\ SingleFrame /\ ExecTypeOK /\ PartitionInv(p)
      /\ mutex[p] \in P!SharedMutexType(Fibers)
      /\ mutex[p].reader_count_ = Cardinality(ReadersOf(p))
  BY MutexQueues DEF ControlInv, ControlTypes, PartitionInv
<1>2. ~AtRest(f) /\ f \notin WaitWrite(p) /\ f \notin WaitRead(p)
  BY <1>1, RunningBusy, BusyUnqueued
<1>3. f \in ReadersOf(p)
  BY <1>2 DEF ReadersOf, ReadQueued, WaitRead, ReadPoints
<1>4. /\ Cardinality(ReadersOf(p)) > 0
      /\ Cardinality(ReadersOf(p) \ {f}) = Cardinality(ReadersOf(p)) - 1
  BY <1>3, CountDown DEF ReadersOf
<1>5. /\ m \in P!SharedMutexType(Fibers)
      /\ m.reader_count_ = Cardinality(ReadersOf(p) \ {f})
      /\ m.writers_waiting_ = mutex[p].writers_waiting_
      /\ m.shared_waiters_ = mutex[p].shared_waiters_
      /\ m.unique_waiters_ = mutex[p].unique_waiters_
  BY <1>1, <1>4, DropSharedMembers
<1>6. /\ pc' = [pc EXCEPT ![f] = point]
      /\ \/ /\ m.unique_waiters_ # <<>> /\ mutex' = [mutex EXCEPT ![p] = P!PassToWriter(m)]
            /\ Call(t, Head(m.unique_waiters_))
         \/ mutex' = [mutex EXCEPT ![p] = m] /\ UNCHANGED stack
  BY DEF ReadUnlock
<1> HIDE DEF m
<1>7. /\ point \in PCs \ {"idle"} /\ point \notin WallPoints /\ point \notin ReadPoints
      /\ point \in PushPoints => pc[f] \in PushPoints
      /\ point \in RemovePoints => pc[f] \in RemovePoints
      /\ pc[f] \notin WallPoints /\ pc[f] # "idle"
  BY DEF PCs, PushPoints, RemovePoints, WallPoints, ReadPoints
<1>8. CASE m.unique_waiters_ # <<>> /\ mutex' = [mutex EXCEPT ![p] = P!PassToWriter(m)]
           /\ Call(t, Head(m.unique_waiters_))
  BY <1>5, <1>6, <1>7, <1>8, PassToWriterKeeps
<1>9. CASE mutex' = [mutex EXCEPT ![p] = m] /\ UNCHANGED stack
  <2>1. ExecTypeOK' /\ SingleFrame' /\ \A h \in Fibers : AtRest(h) => AtRest(h)'
    BY <1>1, <1>9, SameRest
  <2>2. /\ mutex' \in [Partitions -> P!SharedMutexType(Fibers)] /\ mutex'[p] = m
        /\ \A q \in Partitions \ {p} : mutex'[q] = mutex[q]
    BY <1>1, <1>5, <1>9, SetMutex
  <2>3. ControlTypes' /\ OthersKeep(f) /\ pc'[f] = point /\ Idx(f)' = p
    BY <1>1, <1>6, <1>7, <2>1, <2>2, MoveTypes DEF ControlTypes
  <2>4. WaitWrite(p)' = WaitWrite(p) /\ WaitRead(p)' = WaitRead(p)
    BY <1>5, <2>2 DEF WaitWrite, WaitRead
  <2>5. ReadersOf(p)' = ReadersOf(p) \ {f}
    <3>1. f \notin ReadersOf(p)'
      BY <1>7, <2>3 DEF ReadersOf, ReadPoints
    <3>2. \A h \in Fibers \ {f} : h \in ReadersOf(p)' <=> h \in ReadersOf(p)
      BY <2>3, <2>4, OtherReader
    <3>3. QED
      BY <3>1, <3>2 DEF ReadersOf
  <2>6. \A h \in (WaitWrite(p) \cup WaitRead(p)) :
           pc'[h] = pc[h] /\ Idx(h)' = Idx(h) /\ AtRest(h)'
    BY <1>1, <1>2, <2>1, <2>3, MutexQueues DEF OthersKeep, Idx, PartitionInv
  <2>7. PartitionInv(p)'
    BY <1>1, <1>5, <2>2, <2>4, <2>5, <2>6 DEF PartitionInv
  <2>8. QED
    BY <1>2, <1>7, <2>1, <2>2, <2>3, <2>7, OnePartition
<1>10. QED
  BY <1>6, <1>8, <1>9

-----------------------------------------------------------------------------
(* The wall mutex *)

\* A step of f that leaves the partitions' mutexes alone, and may take the
\* session g, which is in none of their queues, out of its rest.
LEMMA NoPartition ==
    ASSUME ControlInv, ControlTypes', SingleFrame', NEW f \in Fibers, OthersKeep(f),
           UNCHANGED mutex, pc[f] \notin ReadPoints, pc'[f] \notin ReadPoints,
           NEW g, \A p \in Partitions : /\ f \notin WaitWrite(p) /\ f \notin WaitRead(p)
                                        /\ g \notin WaitWrite(p) /\ g \notin WaitRead(p),
           \A h \in Fibers \ {g} : AtRest(h) => AtRest(h)',
           WallInv'
    PROVE  ControlInv'
<1>1. ASSUME NEW p \in Partitions
      PROVE  PartitionInv(p)'
  <2>1. \A h \in WaitWrite(p) \cup WaitRead(p) : AtRest(h)'
    BY MutexQueues DEF ControlInv, PartitionInv
  <2>2. f \notin ReadersOf(p) /\ f \notin ReadersOf(p)'
    BY DEF ReadersOf, ReadPoints
  <2>3. QED
    BY <2>1, <2>2, PartitionKept DEF ControlInv
<1>2. QED
  BY <1>1 DEF ControlInv

\* What the operations do to the members.
LEMMA WallOps ==
    ASSUME NEW m \in W!UniqueMutexType(Fibers)
    PROVE  /\ W!Take(m) \in W!UniqueMutexType(Fibers)
           /\ W!Take(m).locked_ = TRUE /\ W!Take(m).waiters_ = m.waiters_
           /\ W!Release(m) \in W!UniqueMutexType(Fibers)
           /\ W!Release(m).locked_ = FALSE /\ W!Release(m).waiters_ = m.waiters_
           /\ m.waiters_ # <<>> =>
                 /\ W!HandOff(m) \in W!UniqueMutexType(Fibers)
                 /\ W!HandOff(m).locked_ = m.locked_
                 /\ W!HandOff(m).waiters_ = Tail(m.waiters_)
<1>1. m.waiters_ \in Seq(Fibers) /\ m.locked_ \in BOOLEAN
  BY DEF W!UniqueMutexType
<1>2. m.waiters_ # <<>> => Tail(m.waiters_) \in Seq(Fibers)
  BY <1>1
<1>3. QED
  BY <1>1, <1>2 DEF W!UniqueMutexType, W!Take, W!Release, W!HandOff

\* The caller of a locked mutex joins the queue.
LEMMA EnqueueMembers ==
    ASSUME NEW m \in W!UniqueMutexType(Fibers), NEW f \in Fibers
    PROVE  LET n == W!Enqueue(m, f)
           IN  /\ n \in W!UniqueMutexType(Fibers)
               /\ n.locked_ = m.locked_ /\ n.waiters_ = Append(m.waiters_, f)
<1>1. m.waiters_ \in Seq(Fibers) /\ m.locked_ \in BOOLEAN
  BY DEF W!UniqueMutexType
<1>2. Append(m.waiters_, f) \in Seq(Fibers)
  BY <1>1
<1>3. QED
  BY <1>1, <1>2 DEF W!UniqueMutexType, W!Enqueue

\* wall_mutex_.lock()
LEMMA WallLockKeeps ==
    ASSUME ControlInv, NEW t \in Threads, NEW f \in Fibers, Running(t, f), WallLock(t, f),
           pc[f] \in {"push_wall", "remove_check"},
           NEW point \in WallPoints, pc' = [pc EXCEPT ![f] = point],
           point = IF pc[f] = "push_wall" THEN "push_store" ELSE "remove_store",
           UNCHANGED <<req, mutex>>
    PROVE  ControlInv'
<1> DEFINE m == wall_mutex_
<1>1. /\ ControlTypes /\ SingleFrame /\ ExecTypeOK /\ WallInv
      /\ m \in W!UniqueMutexType(Fibers) /\ m.waiters_ \in Seq(Fibers)
      /\ mutex \in [Partitions -> P!SharedMutexType(Fibers)]
  BY WallQueue DEF ControlInv, ControlTypes
<1>2. /\ ~AtRest(f) /\ f \notin WaitWall
      /\ \A p \in Partitions : f \notin WaitWrite(p) /\ f \notin WaitRead(p)
  BY <1>1, RunningBusy, BusyUnqueued
<1>3. /\ point \in PCs \ {"idle"} /\ pc[f] # "idle" /\ pc[f] \notin WallPoints
      /\ pc[f] \notin ReadPoints /\ point \notin ReadPoints
      /\ point \in PushPoints => pc[f] \in PushPoints
      /\ point \in RemovePoints => pc[f] \in RemovePoints
  BY DEF WallPoints, ReadPoints, PushPoints, RemovePoints, PCs
<1>4. Leave(t) /\ (UNCHANGED ready \/ Post(f))
  BY DEF WallLock
<1>5. ExecTypeOK' /\ SingleFrame' /\ \A h \in Fibers : AtRest(h) => AtRest(h)'
  BY <1>1, <1>4, LeaveRest
<1>6. wall_mutex_' \in W!UniqueMutexType(Fibers)
  <2>1. W!Take(m) \in W!UniqueMutexType(Fibers)
    BY <1>1, WallOps
  <2>2. W!Enqueue(m, f) \in W!UniqueMutexType(Fibers)
    BY <1>1, EnqueueMembers
  <2>3. QED
    BY <2>1, <2>2 DEF WallLock
<1>7. ControlTypes' /\ OthersKeep(f) /\ pc'[f] = point
  BY <1>1, <1>3, <1>5, <1>6, MoveTypes DEF ControlTypes
<1>8. WallInv' => ControlInv'
  BY <1>2, <1>3, <1>5, <1>7, NoPartition
<1>9. \A h \in WaitWall : h \in Fibers \ {f} /\ pc'[h] \in WallPoints /\ AtRest(h)'
  BY <1>1, <1>2, <1>5, <1>7, WallQueue DEF WallInv, OthersKeep
<1>10. CASE ~wall_mutex_.locked_
  <2>1. wall_mutex_' = W!Take(m)
    BY <1>10 DEF WallLock
  <2>2. wall_mutex_'.locked_ = TRUE /\ wall_mutex_'.waiters_ = m.waiters_
    BY <1>1, <2>1, WallOps
  <2>3. WaitWall' = WaitWall
    BY <2>2 DEF WaitWall
  <2>4. WallOwners' = {f}
    <3>1. WallOwners = {}
      BY <1>1, <1>10 DEF WallInv
    <3>2. QED
      BY <1>2, <1>7, <2>3, <3>1 DEF WallOwners, OthersKeep
  <2>5. WallInv'
    BY <1>1, <1>9, <2>2, <2>3, <2>4 DEF WallInv
  <2>6. QED
    BY <1>8, <2>5
<1>11. CASE wall_mutex_.locked_
  <2>1. wall_mutex_' = W!Enqueue(m, f) /\ UNCHANGED ready
    BY <1>11 DEF WallLock
  <2>2. wall_mutex_'.locked_ = m.locked_ /\ wall_mutex_'.waiters_ = Append(m.waiters_, f)
    BY <1>1, <2>1, EnqueueMembers
  <2>3. WaitWall' = WaitWall \cup {f} /\ NoRepeats(wall_mutex_'.waiters_)
    BY <1>1, <1>2, <2>2, Joins DEF WaitWall, WallInv
  <2>4. WallOwners' = WallOwners
    BY <1>3, <1>7, <2>3 DEF WallOwners, OthersKeep
  <2>5. AtRest(f)'
    BY <1>1, <1>4, <2>1, LeaveRest
  <2>6. WallInv'
    BY <1>1, <1>7, <1>9, <1>11, <2>2, <2>3, <2>4, <2>5 DEF WallInv
  <2>7. QED
    BY <1>8, <2>6
<1>12. QED
  BY <1>10, <1>11

\* store() and the end of the wall guard.
LEMMA StoreKeeps ==
    ASSUME ControlInv, NEW t \in Threads, NEW f \in Fibers, Running(t, f), WallUnlock(t),
           pc[f] \in WallPoints,
           NEW point, pc' = [pc EXCEPT ![f] = point],
           point = IF pc[f] = "push_store" THEN "push_apply" ELSE "remove_pop",
           UNCHANGED <<ready, req, mutex>>
    PROVE  ControlInv'
<1> DEFINE m == wall_mutex_
           g == Head(m.waiters_)
<1>1. /\ ControlTypes /\ SingleFrame /\ ExecTypeOK /\ WallInv
      /\ m \in W!UniqueMutexType(Fibers) /\ m.waiters_ \in Seq(Fibers)
      /\ mutex \in [Partitions -> P!SharedMutexType(Fibers)]
  BY WallQueue DEF ControlInv, ControlTypes
<1>2. /\ ~AtRest(f) /\ f \notin WaitWall
      /\ \A p \in Partitions : f \notin WaitWrite(p) /\ f \notin WaitRead(p)
  BY <1>1, RunningBusy, BusyUnqueued
<1>3. /\ point \in PCs \ {"idle"} /\ pc[f] # "idle" /\ point \notin WallPoints
      /\ pc[f] \notin ReadPoints /\ point \notin ReadPoints
      /\ point \in PushPoints => pc[f] \in PushPoints
      /\ point \in RemovePoints => pc[f] \in RemovePoints
  BY DEF WallPoints, ReadPoints, PushPoints, RemovePoints, PCs
<1>4. WallOwners = {f}
  BY <1>1, <1>2 DEF WallInv, WallOwners
<1>5. CASE m.waiters_ = <<>>
  <2>1. wall_mutex_' = W!Release(m) /\ UNCHANGED stack
    BY <1>5 DEF WallUnlock
  <2>2. ExecTypeOK' /\ SingleFrame' /\ \A h \in Fibers : AtRest(h) => AtRest(h)'
    BY <1>1, <2>1, SameRest
  <2>3. /\ wall_mutex_' \in W!UniqueMutexType(Fibers)
        /\ wall_mutex_'.locked_ = FALSE /\ wall_mutex_'.waiters_ = m.waiters_
    BY <1>1, <2>1, WallOps
  <2>4. ControlTypes' /\ OthersKeep(f) /\ pc'[f] = point
    BY <1>1, <1>3, <2>2, <2>3, MoveTypes DEF ControlTypes
  <2>5. WaitWall' = WaitWall /\ WaitWall = {}
    BY <1>1, <1>5, <2>3, WallQueue DEF WaitWall
  <2>6. WallOwners' = {}
    BY <1>3, <1>4, <2>4, <2>5 DEF WallOwners, OthersKeep
  <2>7. WallInv'
    BY <1>1, <2>3, <2>5, <2>6 DEF WallInv
  <2>8. QED
    BY <1>2, <1>3, <2>2, <2>4, <2>7, NoPartition
<1>6. CASE m.waiters_ # <<>>
  <2>1. wall_mutex_' = W!HandOff(m) /\ Call(t, g)
    BY <1>6 DEF WallUnlock, W!FirstWaiter
  <2>2. /\ wall_mutex_' \in W!UniqueMutexType(Fibers)
        /\ wall_mutex_'.locked_ = m.locked_ /\ wall_mutex_'.waiters_ = Tail(m.waiters_)
    BY <1>1, <1>6, <2>1, WallOps
  <2>3. /\ g \in WaitWall /\ g \in Fibers /\ WaitWall' = WaitWall \ {g}
        /\ NoRepeats(wall_mutex_'.waiters_)
    BY <1>1, <1>6, <2>2, FirstLeaves DEF WaitWall, WallInv
  <2>4. AtRest(g) /\ pc[g] \in WallPoints /\ g # f
    BY <1>1, <1>2, <2>3 DEF WallInv
  <2>5. ExecTypeOK' /\ SingleFrame' /\ \A h \in Fibers \ {g} : AtRest(h) => AtRest(h)'
    BY <1>1, <2>1, <2>3, <2>4, CallRest
  <2> HIDE DEF g
  <2>6. ControlTypes' /\ OthersKeep(f) /\ pc'[f] = point
    BY <1>1, <1>3, <2>2, <2>5, MoveTypes DEF ControlTypes
  <2>7. WallOwners' = {g}
    BY <1>3, <1>4, <2>3, <2>4, <2>6 DEF WallOwners, OthersKeep
  <2>8. \A h \in WaitWall' : pc'[h] \in WallPoints /\ AtRest(h)'
    BY <1>1, <1>2, <2>3, <2>5, <2>6, WallQueue DEF WallInv, OthersKeep
  <2>9. WallInv'
    BY <1>1, <1>4, <2>2, <2>3, <2>7, <2>8 DEF WallInv
  <2>10. \A p \in Partitions : g \notin WaitWrite(p) /\ g \notin WaitRead(p)
    BY <2>4 DEF ControlInv, PartitionInv, WallPoints, WriteLockPoints, ReadPoints
  <2>11. QED
    BY <1>2, <1>3, <2>5, <2>6, <2>9, <2>10, NoPartition
<1>7. QED
  BY <1>5, <1>6

-----------------------------------------------------------------------------
(* Requests *)

\* A request arrives.
LEMMA StartKeeps ==
    ASSUME ControlInv, NEW f \in Fibers, NEW r \in Request,
           NEW point \in {"push_lock", "read_lock", "remove_rlock"}, Start(f, r, point),
           point = "push_lock" => r.id \in 1..MaxPush /\ r.data \in Data,
           point = "remove_rlock" => r.data \in Data
    PROVE  ControlInv'
<1>1. /\ pc[f] = "idle" /\ AtRest(f) /\ Post(f)
      /\ req' = [req EXCEPT ![f] = r] /\ pc' = [pc EXCEPT ![f] = point]
      /\ UNCHANGED <<stack, mutex, wall_mutex_>>
  BY DEF Start, AtRest
<1>2. ExecTypeOK' /\ SingleFrame' /\ \A h \in Fibers \ {f} : AtRest(h) => AtRest(h)'
  BY <1>1, PostRest DEF ControlInv, ControlTypes
<1>3. /\ pc' \in [Fibers -> PCs] /\ req' \in [Fibers -> Request \cup {None}]
      /\ pc'[f] = point /\ req'[f] = r /\ OthersKeep(f)
  BY <1>1 DEF ControlInv, ControlTypes, PCs, OthersKeep
<1>4. \A h \in Fibers : RequestFits(h)'
  BY <1>3 DEF ControlInv, ControlTypes, RequestFits, OthersKeep, PushPoints, RemovePoints
<1>5. ControlTypes'
  BY <1>1, <1>2, <1>3, <1>4 DEF ControlInv, ControlTypes
<1>6. /\ pc[f] \notin ReadPoints \cup WallPoints \cup WriteLockPoints
      /\ pc'[f] \notin ReadPoints \cup WallPoints
  BY <1>1, <1>3 DEF ReadPoints, WallPoints, WriteLockPoints
<1>7. /\ f \notin WaitWall
      /\ \A p \in Partitions : f \notin WaitWrite(p) /\ f \notin WaitRead(p)
  BY <1>6 DEF ControlInv, WallInv, PartitionInv
<1>8. WallInv'
  <2>1. \A h \in WaitWall : AtRest(h)'
    BY <1>2, <1>7, WallQueue DEF ControlInv, WallInv
  <2>2. QED
    BY <1>1, <1>3, <1>6, <2>1, WallKept DEF ControlInv
<1>9. QED
  BY <1>1, <1>2, <1>3, <1>5, <1>6, <1>7, <1>8, NoPartition

\* The response is sent.
LEMMA RespondKeeps ==
    ASSUME ControlInv, NEW t \in Threads, NEW f \in Fibers, Respond(t, f)
    PROVE  ControlInv'
<1>1. /\ pc[f] = "respond" /\ Running(t, f) /\ Leave(t)
      /\ req' = [req EXCEPT ![f] = None] /\ pc' = [pc EXCEPT ![f] = "idle"]
      /\ UNCHANGED <<ready, mutex, wall_mutex_>>
  BY DEF Respond, At
<1>2. ExecTypeOK' /\ SingleFrame' /\ \A h \in Fibers : AtRest(h) => AtRest(h)'
  BY <1>1, LeaveRest DEF ControlInv, ControlTypes
<1>3. /\ pc' \in [Fibers -> PCs] /\ req' \in [Fibers -> Request \cup {None}]
      /\ pc'[f] = "idle" /\ req'[f] = None /\ OthersKeep(f)
  BY <1>1 DEF ControlInv, ControlTypes, PCs, OthersKeep
<1>4. \A h \in Fibers : RequestFits(h)'
  BY <1>3 DEF ControlInv, ControlTypes, RequestFits, OthersKeep, PushPoints, RemovePoints
<1>5. ControlTypes'
  BY <1>1, <1>2, <1>3, <1>4 DEF ControlInv, ControlTypes
<1>6. pc[f] \notin ReadPoints \cup WallPoints /\ pc'[f] \notin ReadPoints \cup WallPoints
  BY <1>1, <1>3 DEF ReadPoints, WallPoints
<1>7. ~AtRest(f) /\ \A p \in Partitions : f \notin WaitWrite(p) /\ f \notin WaitRead(p)
  BY <1>1, RunningBusy, BusyUnqueued DEF ControlInv, ControlTypes
<1>8. WallInv'
  <2>1. \A h \in WaitWall : AtRest(h)'
    BY <1>2, WallQueue DEF ControlInv, WallInv
  <2>2. QED
    BY <1>1, <1>3, <1>6, <2>1, WallKept DEF ControlInv
<1>9. QED
  BY <1>1, <1>2, <1>3, <1>5, <1>6, <1>7, <1>8, NoPartition

\* A thread takes a posted handler, or nothing of the control changes.
LEMMA ResumeKeeps ==
    ASSUME ControlInv, UNCHANGED <<pc, req, mutex, wall_mutex_>>,
           UNCHANGED <<stack, ready>> \/ \E t \in Threads, f \in Fibers : TakePosted(t, f)
    PROVE  ControlInv'
<1>1. ExecTypeOK' /\ SingleFrame' /\ \A h \in Fibers : AtRest(h) => AtRest(h)'
  BY TakeRest, SameRest DEF ControlInv, ControlTypes
<1>2. ControlTypes'
  BY <1>1 DEF ControlInv, ControlTypes, RequestFits
<1>3. \A p \in Partitions : /\ WaitWrite(p)' = WaitWrite(p) /\ WaitRead(p)' = WaitRead(p)
                            /\ ReadersOf(p)' = ReadersOf(p)
  BY DEF WaitWrite, WaitRead, ReadersOf, ReadQueued, Idx
<1>4. WaitWall' = WaitWall /\ WallOwners' = WallOwners
  BY DEF WaitWall, WallOwners
<1>5. ASSUME NEW p \in Partitions
      PROVE  PartitionInv(p)'
  <2>1. \A h \in WaitWrite(p) \cup WaitRead(p) : AtRest(h)' /\ Idx(h)' = Idx(h)
    BY <1>1, MutexQueues DEF ControlInv, PartitionInv, Idx
  <2>2. QED
    BY <1>3, <2>1 DEF ControlInv, PartitionInv
<1>6. WallInv'
  BY <1>1, <1>4, WallQueue DEF ControlInv, WallInv
<1>7. QED
  BY <1>1, <1>2, <1>5, <1>6 DEF ControlInv

\* What a running session does.
LEMMA StepKeeps ==
    ASSUME ControlInv, NEW t \in Threads, NEW f \in Fibers, Step(t, f)
    PROVE  ControlInv'
<1>1. /\ Running(t, f) /\ \E p \in Partitions : p = Idx(f)
  <2>1. Running(t, f) /\ pc[f] # "idle"
    BY DEF Step, PushLock, PushWall, PushStore, PushApply, ReadBegin, ReadFront, RemoveBegin,
           NullFront, RemovePeek, RemoveLock, RemoveCheck, RemoveStore, RemovePop, UnlockLoop,
           Respond, At
  <2>2. QED
    BY <2>1, IdxPartition DEF ControlInv
<1>2. PICK p \in Partitions : p = Idx(f)
  BY <1>1
<1>3. CASE PushLock(t, f) \/ RemoveLock(t, f)
  <2>1. PICK point \in WriteLockPoints :
           /\ pc[f] \in {"push_lock", "remove_lock"} /\ WriteLock(t, f, p)
           /\ pc' = [pc EXCEPT ![f] = point]
           /\ point = IF pc[f] = "push_lock" THEN "push_wall" ELSE "remove_check"
           /\ UNCHANGED <<req, wall_mutex_>>
    BY <1>2, <1>3 DEF PushLock, RemoveLock, At, WriteLockPoints
  <2>2. QED
    BY <1>1, <1>2, <2>1, WriteLockKeeps
<1>4. CASE ReadBegin(t, f) \/ RemoveBegin(t, f)
  <2>1. PICK point \in ReadPoints :
           /\ pc[f] \in {"read_lock", "remove_rlock"} /\ ReadLock(t, f, p)
           /\ pc' = [pc EXCEPT ![f] = point]
           /\ point = IF pc[f] = "read_lock" THEN "read_front" ELSE "remove_peek"
           /\ UNCHANGED <<req, wall_mutex_>>
    BY <1>2, <1>4 DEF ReadBegin, RemoveBegin, At, ReadPoints
  <2>2. QED
    BY <1>1, <1>2, <2>1, ReadLockKeeps
<1>5. CASE PushWall(t, f) \/ (RemoveCheck(t, f) /\ Matches(f))
  <2>1. PICK point \in WallPoints :
           /\ pc[f] \in {"push_wall", "remove_check"} /\ WallLock(t, f)
           /\ pc' = [pc EXCEPT ![f] = point]
           /\ point = IF pc[f] = "push_wall" THEN "push_store" ELSE "remove_store"
           /\ UNCHANGED <<req, mutex>>
    BY <1>5 DEF PushWall, RemoveCheck, At, WallPoints
  <2>2. QED
    BY <1>1, <2>1, WallLockKeeps
<1>6. CASE PushStore(t, f) \/ RemoveStore(t, f)
  <2>1. PICK point : /\ pc[f] \in WallPoints /\ WallUnlock(t)
                     /\ pc' = [pc EXCEPT ![f] = point]
                     /\ point = IF pc[f] = "push_store" THEN "push_apply" ELSE "remove_pop"
                     /\ UNCHANGED <<ready, req, mutex>>
    BY <1>6 DEF PushStore, RemoveStore, Store, At, WallPoints
  <2>2. QED
    BY <1>1, <2>1, StoreKeeps
<1>7. CASE PushApply(t, f) \/ RemovePop(t, f) \/ (RemoveCheck(t, f) /\ ~Matches(f))
  <2>1. /\ pc[f] \in UnlockPoints /\ WriteUnlock(t, f, p) /\ UNCHANGED <<ready, req, wall_mutex_>>
    BY <1>2, <1>7 DEF PushApply, RemovePop, RemoveCheck, At, UnlockPoints
  <2>2. QED
    BY <1>1, <1>2, <2>1, WriteUnlockKeeps
<1>8. CASE ReadFront(t, f) \/ RemovePeek(t, f)
  <2>1. PICK point : /\ pc[f] \in ReadPoints
                     /\ point = "respond" \/ (point = "remove_lock" /\ pc[f] = "remove_peek")
                     /\ ReadUnlock(t, f, p, point) /\ UNCHANGED <<ready, req, wall_mutex_>>
    BY <1>2, <1>8 DEF ReadFront, RemovePeek, At, ReadPoints
  <2>2. QED
    BY <1>1, <1>2, <2>1, ReadUnlockKeeps
<1>9. CASE UnlockLoop(t, f)
  <2>1. /\ pc[f] \in UnlockPoints /\ CallReaders(t, f, p, mutex[p])
        /\ UNCHANGED <<ready, req, wall_mutex_>>
    BY <1>2, <1>9 DEF UnlockLoop, At, UnlockPoints
  <2>2. mutex[p] \in P!SharedMutexType(Fibers)
    BY MutexQueues DEF ControlInv
  <2>3. QED
    BY <1>1, <1>2, <2>1, <2>2, CallReadersKeeps
<1>10. CASE NullFront(t, f)
  BY <1>10, ResumeKeeps DEF NullFront
<1>11. CASE Respond(t, f)
  BY <1>11, RespondKeeps
<1>12. QED
  BY <1>3, <1>4, <1>5, <1>6, <1>7, <1>8, <1>9, <1>10, <1>11 DEF Step

\* The clients' requests.
LEMMA RequestKeeps ==
    ASSUME ControlInv, issued \in 0..MaxPush, NEW f \in Fibers,
           RequestPush(f) \/ RequestPull(f) \/ RequestDelete(f)
    PROVE  ControlInv'
<1>1. MaxPush \in Nat
  BY TopicAssumption
<1>2. CASE RequestPush(f)
  <2>1. issued + 1 \in 1..MaxPush /\ issued + 1 \in 0..MaxPush
    BY <1>1, <1>2 DEF RequestPush
  <2>2. PICK p \in Partitions \cup {INVALID}, d \in Data :
           Start(f, [op |-> "push", partition_id |-> p, id |-> issued + 1, data |-> d], "push_lock")
    BY <1>2 DEF RequestPush
  <2> DEFINE r == [op |-> "push", partition_id |-> p, id |-> issued + 1, data |-> d]
  <2>3. r \in Request /\ r.id \in 1..MaxPush /\ r.data \in Data
    BY <2>1 DEF Request
  <2>4. QED
    BY <2>2, <2>3, StartKeeps
<1>3. CASE RequestPull(f)
  <2>1. PICK p \in Partitions :
           Start(f, [op |-> "pull", partition_id |-> p, id |-> 0, data |-> None], "read_lock")
    BY <1>3 DEF RequestPull
  <2> DEFINE r == [op |-> "pull", partition_id |-> p, id |-> 0, data |-> None]
  <2>2. r \in Request
    BY <1>1 DEF Request
  <2>3. QED
    BY <2>1, <2>2, StartKeeps
<1>4. CASE RequestDelete(f)
  <2>1. PICK p \in Partitions, d \in Data :
           Start(f, [op |-> "delete", partition_id |-> p, id |-> 0, data |-> d], "remove_rlock")
    BY <1>4 DEF RequestDelete
  <2> DEFINE r == [op |-> "delete", partition_id |-> p, id |-> 0, data |-> d]
  <2>2. r \in Request /\ r.data \in Data
    BY <1>1 DEF Request
  <2>3. QED
    BY <2>1, <2>2, StartKeeps
<1>5. QED
  BY <1>2, <1>3, <1>4

-----------------------------------------------------------------------------
(* Queues, log and clients *)

DataTypes ==
    /\ queue \in [Partitions -> Seq(Message)]
    /\ wall \in Seq(Record)
    /\ died \in BOOLEAN
    /\ result \in [Fibers -> Message \cup {None}]
    /\ pulled \in [Fibers -> [partition : Partitions, data : Data] \cup {None}]
    /\ delivered \subseteq 1..MaxPush
    /\ issued \in 0..MaxPush

TopicInv == ControlInv /\ DataTypes

\* The steps that touch messages.
LEMMA StepData ==
    ASSUME TopicInv, NEW t \in Threads, NEW f \in Fibers, Step(t, f)
    PROVE  DataTypes'
<1>1. /\ ControlTypes /\ DataTypes
  BY DEF TopicInv, ControlInv
<1>2. ASSUME pc[f] # "idle" PROVE Idx(f) \in Partitions /\ req[f] \in Request
  BY <1>1, <1>2, IdxPartition DEF ControlTypes, RequestFits
<1>3. CASE PushStore(t, f) \/ RemoveStore(t, f)
  <2>1. PICK push \in BOOLEAN : Store(t, f, push)
    BY <1>3 DEF PushStore, RemoveStore
  <2> DEFINE r == [identifier |-> Idx(f), is_push_operation |-> push, message |-> f,
                   about |-> [id |-> req[f].id, data |-> req[f].data]]
  <2>2. pc[f] \in PushPoints \cup RemovePoints /\ pc[f] # "idle"
    BY <1>3 DEF PushStore, RemoveStore, At, PushPoints, RemovePoints
  <2>3. req[f].id \in 0..MaxPush /\ req[f].data \in Data /\ Idx(f) \in Partitions
    BY <1>1, <1>2, <2>2 DEF ControlTypes, RequestFits, Request
  <2>4. r \in Record
    BY <2>3 DEF Record
  <2>5. wall' = Append(wall, r) /\ UNCHANGED <<queue, died, result, clients>>
    BY <2>1 DEF Store
  <2>6. wall' \in Seq(Record)
    BY <1>1, <2>4, <2>5 DEF DataTypes
  <2>7. QED
    BY <1>1, <2>5, <2>6 DEF DataTypes, clients
<1>4. CASE PushApply(t, f)
  <2> DEFINE r == [id |-> req[f].id, data |-> req[f].data]
  <2>1. /\ pc[f] = "push_apply" /\ UNCHANGED <<wall, died, result, clients>>
        /\ queue' = [queue EXCEPT ![Idx(f)] = Append(queue[Idx(f)], r)]
    BY <1>4 DEF PushApply, At
  <2>2. req[f].id \in 1..MaxPush /\ req[f].data \in Data /\ Idx(f) \in Partitions
    BY <1>1, <1>2, <2>1 DEF ControlTypes, RequestFits, PushPoints
  <2>3. r \in Message
    BY <2>2 DEF Message
  <2>4. Append(queue[Idx(f)], r) \in Seq(Message)
    BY <1>1, <2>2, <2>3 DEF DataTypes
  <2>5. QED
    BY <1>1, <2>1, <2>4 DEF DataTypes, clients
<1>5. CASE RemovePop(t, f)
  <2> DEFINE q == queue[Idx(f)]
  <2>1. /\ pc[f] = "remove_pop" /\ UNCHANGED <<wall, died, result, clients>>
        /\ queue' = [queue EXCEPT ![Idx(f)] = IF q = <<>> THEN q ELSE Tail(q)]
    BY <1>5 DEF RemovePop, At
  <2>2. q \in Seq(Message)
    BY <1>1, <1>2, <2>1 DEF DataTypes
  <2>3. (IF q = <<>> THEN q ELSE Tail(q)) \in Seq(Message)
    BY <2>2
  <2>4. QED
    BY <1>1, <2>1, <2>3 DEF DataTypes, clients
<1>6. CASE ReadFront(t, f)
  <2> DEFINE q == queue[Idx(f)]
  <2>1. /\ pc[f] = "read_front" /\ UNCHANGED <<queue, wall, died, clients>>
        /\ result' = [result EXCEPT ![f] = IF q = <<>> THEN None ELSE Head(q)]
    BY <1>6 DEF ReadFront, At
  <2>2. q \in Seq(Message)
    BY <1>1, <1>2, <2>1 DEF DataTypes
  <2>3. (IF q = <<>> THEN None ELSE Head(q)) \in Message \cup {None}
    BY <2>2
  <2>4. QED
    BY <1>1, <2>1, <2>3 DEF DataTypes, clients
<1>7. CASE Respond(t, f)
  <2>1. /\ pc[f] = "respond" /\ UNCHANGED <<queue, wall, died, issued>>
        /\ result' = [result EXCEPT ![f] = None]
    BY <1>7 DEF Respond, At
  <2>2. CASE UNCHANGED <<pulled, delivered>>
    BY <1>1, <2>1, <2>2 DEF DataTypes
  <2>3. CASE ~UNCHANGED <<pulled, delivered>>
    <3>1. /\ pulled' = [pulled EXCEPT ![f] = [partition |-> Idx(f), data |-> result[f].data]]
          /\ delivered' = delivered \cup {result[f].id} /\ result[f] # None
      BY <1>7, <2>3 DEF Respond
    <3>2. result[f].id \in 1..MaxPush /\ result[f].data \in Data /\ Idx(f) \in Partitions
      BY <1>1, <1>2, <2>1, <3>1 DEF DataTypes, Message
    <3>3. [partition |-> Idx(f), data |-> result[f].data] \in [partition : Partitions, data : Data]
      BY <3>2
    <3>4. QED
      BY <1>1, <2>1, <3>1, <3>2, <3>3 DEF DataTypes
  <2>4. QED
    BY <2>2, <2>3
<1>8. CASE NullFront(t, f)
  BY <1>1, <1>8 DEF NullFront, DataTypes, clients
<1>9. CASE UNCHANGED <<queue, wall, died, result, clients>>
  BY <1>1, <1>9 DEF DataTypes, clients
<1>10. QED
  BY <1>3, <1>4, <1>5, <1>6, <1>7, <1>8, <1>9
     DEF Step, PushLock, PushWall, ReadBegin, RemoveBegin, RemovePeek, RemoveLock, RemoveCheck,
         UnlockLoop

\* Requests.
LEMMA RequestData ==
    ASSUME TopicInv, NEW f \in Fibers, RequestPush(f) \/ RequestPull(f) \/ RequestDelete(f)
    PROVE  DataTypes'
<1>1. UNCHANGED <<queue, wall, died, result, delivered>>
  BY DEF RequestPush, RequestPull, RequestDelete, Start
<1>2. issued' \in 0..MaxPush
  BY TopicAssumption DEF RequestPush, RequestPull, RequestDelete, TopicInv, DataTypes
<1>3. pulled' = pulled \/ pulled' = [pulled EXCEPT ![f] = None]
  BY DEF RequestPush, RequestPull, RequestDelete
<1>4. pulled' \in [Fibers -> [partition : Partitions, data : Data] \cup {None}]
  BY <1>3 DEF TopicInv, DataTypes
<1>5. QED
  BY <1>1, <1>2, <1>4 DEF TopicInv, DataTypes

\* The invariant is inductive.
LEMMA TopicStep == TopicInv /\ [Next]_vars => TopicInv'
<1> SUFFICES ASSUME TopicInv, [Next]_vars PROVE TopicInv'
  OBVIOUS
<1>1. ControlInv /\ issued \in 0..MaxPush
  BY DEF TopicInv, DataTypes
<1>2. ASSUME NEW f \in Fibers, RequestPush(f) \/ RequestPull(f) \/ RequestDelete(f)
      PROVE  TopicInv'
  BY <1>1, <1>2, RequestKeeps, RequestData DEF TopicInv
<1>3. ASSUME NEW t \in Threads, NEW f \in Fibers, Step(t, f)
      PROVE  TopicInv'
  BY <1>1, <1>3, StepKeeps, StepData DEF TopicInv
<1>4. ASSUME NEW t \in Threads, NEW f \in Fibers, Resume(t, f)
      PROVE  TopicInv'
  <2>1. ControlInv'
    BY <1>1, <1>4, ResumeKeeps DEF Resume
  <2>2. QED
    BY <1>4, <2>1 DEF Resume, TopicInv, DataTypes, clients
<1>5. CASE UNCHANGED vars
  <2>1. ControlInv'
    BY <1>1, <1>5, ResumeKeeps DEF vars
  <2>2. QED
    BY <1>5, <2>1 DEF vars, TopicInv, DataTypes
<1>6. QED
  BY <1>2, <1>3, <1>4, <1>5 DEF Next

\* The initial state satisfies it.
LEMMA TopicStart == Init => TopicInv
<1> SUFFICES ASSUME Init PROVE TopicInv
  OBVIOUS
<1>1. MaxPush \in Nat /\ 0 \in 0..MaxPush
  BY TopicAssumption
<1>2. DataTypes
  <2>1. queue \in [Partitions -> Seq(Message)] /\ wall \in Seq(Record)
    BY DEF Init
  <2>2. /\ result \in [Fibers -> Message \cup {None}]
        /\ pulled \in [Fibers -> [partition : Partitions, data : Data] \cup {None}]
    BY DEF Init
  <2>3. delivered \subseteq 1..MaxPush /\ issued \in 0..MaxPush /\ died \in BOOLEAN
    BY <1>1 DEF Init
  <2>4. QED
    BY <2>1, <2>2, <2>3 DEF DataTypes
<1>3. \A f \in Fibers : pc[f] = "idle" /\ req[f] = None
  BY DEF Init
<1>4. ControlTypes
  <2>1. ExecTypeOK
    BY DEF Init, ExecInit, ExecTypeOK
  <2>2. P!IdleMutex \in P!SharedMutexType(Fibers) /\ W!UnlockedMutex \in W!UniqueMutexType(Fibers)
    BY DEF P!IdleMutex, P!SharedMutexType, W!UnlockedMutex, W!UniqueMutexType
  <2>3. \A f \in Fibers : RequestFits(f)
    BY <1>3 DEF RequestFits, PushPoints, RemovePoints
  <2>4. QED
    BY <2>1, <2>2, <2>3 DEF Init, ControlTypes, PCs
<1>5. SingleFrame
  <2>1. \A t \in Threads : Len(stack[t]) = 0 /\ 1..0 = {}
    BY DEF Init, ExecInit
  <2>2. QED
    BY <2>1 DEF Init, ExecInit, SingleFrame
<1>6. ToSet(<<>>) = {} /\ NoRepeats(<<>>)
  <2>1. Len(<<>>) = 0 /\ 1..0 = {} /\ DOMAIN <<>> = {}
    OBVIOUS
  <2>2. QED
    BY <2>1 DEF ToSet, NoRepeats
<1>7. WallInv
  <2>1. wall_mutex_.waiters_ = <<>> /\ wall_mutex_.locked_ = FALSE
    BY DEF Init, W!UnlockedMutex
  <2>2. WallOwners = {}
    BY <1>3 DEF WallOwners, WallPoints
  <2>3. QED
    BY <1>6, <2>1, <2>2 DEF WallInv, WaitWall
<1>8. ASSUME NEW p \in Partitions
      PROVE  PartitionInv(p)
  <2>1. /\ mutex[p].unique_waiters_ = <<>> /\ mutex[p].shared_waiters_ = <<>>
        /\ mutex[p].writers_waiting_ = 0 /\ mutex[p].reader_count_ = 0
    BY DEF Init, P!IdleMutex
  <2>2. ReadersOf(p) = {}
    BY <1>3 DEF ReadersOf
  <2>3. Len(<<>>) = 0 /\ Cardinality({}) = 0
    BY FS_EmptySet
  <2>4. QED
    BY <1>6, <2>1, <2>2, <2>3 DEF PartitionInv, WaitWrite, WaitRead
<1>9. QED
  BY <1>2, <1>4, <1>5, <1>7, <1>8 DEF TopicInv, ControlInv

\* TopicInv holds in every state.
THEOREM TopicInvariance == Spec => []TopicInv
BY TopicStart, TopicStep, PTL DEF Spec

\* The members of topic_t and of its mutexes keep their types with any sessions
\* and any requests; in particular no counter of a partition's mutex wraps
\* around, and every index that push, read and remove use is one of a partition.
THEOREM TypeCorrect == Spec => []TypeOK
<1>1. TopicInv => TypeOK
  BY DEF TopicInv, ControlInv, ControlTypes, DataTypes, RequestFits, TypeOK
<1>2. QED
  BY <1>1, TopicInvariance, PTL

\* Only one session at a time writes to the topic's file.
THEOREM OneWallWriter == Spec => []WallExclusion
<1>1. TopicInv => WallExclusion
  BY DEF TopicInv, ControlInv, WallInv, WallOwners, WallPoints, WaitWall, WallExclusion
<1>2. QED
  BY <1>1, TopicInvariance, PTL

\* The handlers that the topic's mutexes call are those of suspended sessions:
\* no session is resumed twice, with any number of them and of threads.
THEOREM NoFiberResumedTwice == Spec => []SingleFrame
<1>1. TopicInv => SingleFrame
  BY DEF TopicInv, ControlInv
<1>2. QED
  BY <1>1, TopicInvariance, PTL

-----------------------------------------------------------------------------
(* A partition's writer is alone                                           *)
(*                                                                         *)
(* unlock calls queued readers one after the other, with state_mutex_      *)
(* released in between: a second writer may take the lock before the next  *)
(* reader is let in.  That takes the session that unlocks, another one     *)
(* that writes and a third one that reads, and without these three nothing *)
(* else breaks exclusion.                                                  *)

Writers == Pushers \cup Deleters
Readers == Pullers \cup Deleters

\* There are no three different sessions of which two may write and the third
\* may read.
FewSessions == \A f, w \in Writers, h \in Readers : f = w \/ f = h \/ w = h

WritePoints == {"push_wall", "push_store", "push_apply",
                "remove_check", "remove_store", "remove_pop"}

\* A session is only where its client's requests lead.
Roles ==
    \A f \in Fibers :
        /\ pc[f] \in PushPoints => f \in Pushers
        /\ pc[f] \in RemovePoints => f \in Deleters
        /\ pc[f] \in {"read_lock", "read_front"} => f \in Pullers
        /\ pc[f] = "unlocking" => f \in Writers

\* writer_active_ is set exactly while partition p has a writer.
ExclInv(p) ==
    /\ \A f, g \in WritersOf(p) : f = g
    /\ WritersOf(p) # {} => ReadersOf(p) = {}
    /\ mutex[p].writer_active_ <=> WritersOf(p) # {}

Exclusive == \A p \in Partitions : ExclInv(p)

\* Another session stays the writer it was, unless it is served or queued.
LEMMA OtherWriter ==
    ASSUME NEW f, OthersKeep(f), NEW p, NEW h \in Fibers \ {f},
           h \in WaitWrite(p)' <=> h \in WaitWrite(p)
    PROVE  h \in WritersOf(p)' <=> h \in WritersOf(p)
BY DEF OthersKeep, WritersOf, WriteQueued, WaitWrite, Idx

\* Who writes to and who reads partition q, when nobody is queued there or served.
LEMMA SameUsers ==
    ASSUME NEW q, NEW f \in Fibers, OthersKeep(f),
           WaitWrite(q)' = WaitWrite(q), WaitRead(q)' = WaitRead(q)
    PROVE  /\ WritersOf(q)' \ {f} = WritersOf(q) \ {f}
           /\ ReadersOf(q)' \ {f} = ReadersOf(q) \ {f}
<1>1. \A h \in Fibers \ {f} : /\ h \in WritersOf(q)' <=> h \in WritersOf(q)
                              /\ h \in ReadersOf(q)' <=> h \in ReadersOf(q)
  BY OtherWriter, OtherReader
<1>2. WritersOf(q) \subseteq Fibers /\ WritersOf(q)' \subseteq Fibers
  BY DEF WritersOf
<1>3. ReadersOf(q) \subseteq Fibers /\ ReadersOf(q)' \subseteq Fibers
  BY DEF ReadersOf
<1>4. QED
  BY <1>1, <1>2, <1>3

\* A partition whose mutex the step leaves alone.
LEMMA ExclSame ==
    ASSUME NEW q \in Partitions, ExclInv(q), NEW f \in Fibers, OthersKeep(f),
           mutex'[q] = mutex[q],
           f \in WritersOf(q)' <=> f \in WritersOf(q),
           f \in ReadersOf(q)' <=> f \in ReadersOf(q)
    PROVE  ExclInv(q)'
<1>1. WaitWrite(q)' = WaitWrite(q) /\ WaitRead(q)' = WaitRead(q)
  BY DEF WaitWrite, WaitRead
<1>2. WritersOf(q)' = WritersOf(q) /\ ReadersOf(q)' = ReadersOf(q)
  BY <1>1, SameUsers
<1>3. QED
  BY <1>2 DEF ExclInv

\* A step of f on its partition p leaves the others alone.
LEMMA ExclElsewhere ==
    ASSUME ControlTypes, Exclusive, NEW f \in Fibers, NEW p \in Partitions, p = Idx(f),
           NEW point, pc' = [pc EXCEPT ![f] = point], UNCHANGED req,
           NEW n, mutex' = [mutex EXCEPT ![p] = n]
    PROVE  /\ pc'[f] = point /\ OthersKeep(f) /\ Idx(f)' = p /\ mutex'[p] = n
           /\ ExclInv(p)' => Exclusive'
<1>1. /\ pc'[f] = point /\ OthersKeep(f) /\ Idx(f)' = p /\ mutex'[p] = n
      /\ \A q \in Partitions \ {p} : mutex'[q] = mutex[q]
  BY DEF ControlTypes, OthersKeep, Idx
<1>2. ASSUME NEW q \in Partitions, q # p
      PROVE  ExclInv(q)'
  <2>1. f \notin WritersOf(q) /\ f \notin WritersOf(q)'
    BY <1>1, <1>2 DEF WritersOf
  <2>2. f \notin ReadersOf(q) /\ f \notin ReadersOf(q)'
    BY <1>1, <1>2 DEF ReadersOf
  <2>3. QED
    BY <1>1, <1>2, <2>1, <2>2, ExclSame DEF Exclusive
<1>3. QED
  BY <1>1, <1>2 DEF Exclusive

\* write_lock
LEMMA ExclWriteLock ==
    ASSUME ControlInv, Exclusive, NEW t \in Threads, NEW f \in Fibers, Running(t, f),
           NEW p \in Partitions, p = Idx(f), WriteLock(t, f, p),
           pc[f] \in {"push_lock", "remove_lock"},
           NEW point \in WriteLockPoints, pc' = [pc EXCEPT ![f] = point], UNCHANGED req
    PROVE  Exclusive'
<1> DEFINE m == mutex[p]
<1>1. /\ ControlTypes /\ ExecTypeOK /\ PartitionInv(p) /\ ExclInv(p)
      /\ m \in P!SharedMutexType(Fibers) /\ m.unique_waiters_ \in Seq(Fibers)
  BY MutexQueues DEF ControlInv, ControlTypes, Exclusive
<1>2. f \notin WaitWrite(p) /\ f \notin WaitRead(p)
  BY <1>1, RunningBusy, BusyUnqueued
<1>3. f \notin WritersOf(p) /\ f \notin ReadersOf(p)
  BY DEF WritersOf, ReadersOf
<1>4. ASSUME pc'[f] = point
      PROVE  f \notin ReadersOf(p)'
  BY <1>4 DEF ReadersOf, WriteLockPoints
<1>5. CASE P!LockFree(m)
  <2> DEFINE n == P!TakeUnique(m)
  <2>1. mutex' = [mutex EXCEPT ![p] = n] /\ ~m.writer_active_ /\ m.reader_count_ = 0
    BY <1>5 DEF WriteLock, P!LockFree
  <2>2. /\ n.writer_active_ = TRUE
        /\ n.shared_waiters_ = m.shared_waiters_ /\ n.unique_waiters_ = m.unique_waiters_
    BY <1>1, TakeUniqueMembers
  <2> HIDE DEF n
  <2>3. /\ pc'[f] = point /\ OthersKeep(f) /\ Idx(f)' = p /\ mutex'[p] = n
        /\ ExclInv(p)' => Exclusive'
    BY <1>1, <2>1, ExclElsewhere
  <2>4. WaitWrite(p)' = WaitWrite(p) /\ WaitRead(p)' = WaitRead(p)
    BY <2>2, <2>3 DEF WaitWrite, WaitRead
  <2>5. WritersOf(p) = {} /\ ReadersOf(p) = {}
    <3>1. IsFiniteSet(ReadersOf(p))
      BY TopicAssumption, FS_Subset DEF ReadersOf
    <3>2. QED
      BY <1>1, <2>1, <3>1, FS_EmptySet DEF ExclInv, PartitionInv
  <2>6. f \in WritersOf(p)'
    BY <1>2, <2>3, <2>4 DEF WritersOf, WriteLockPoints, WriteQueued, WaitWrite
  <2>7. WritersOf(p)' = {f} /\ ReadersOf(p)' = {}
    BY <1>4, <2>3, <2>4, <2>5, <2>6, SameUsers
  <2>8. ExclInv(p)'
    BY <2>2, <2>3, <2>7 DEF ExclInv
  <2>9. QED
    BY <2>3, <2>8
<1>6. CASE ~P!LockFree(m)
  <2> DEFINE n == P!QueueUnique(m, f)
  <2>1. mutex' = [mutex EXCEPT ![p] = n]
    BY <1>6 DEF WriteLock
  <2>2. /\ n.writer_active_ = m.writer_active_ /\ n.shared_waiters_ = m.shared_waiters_
        /\ n.unique_waiters_ = Append(m.unique_waiters_, f)
    BY <1>1, QueueUniqueMembers
  <2> HIDE DEF n
  <2>3. /\ pc'[f] = point /\ OthersKeep(f) /\ Idx(f)' = p /\ mutex'[p] = n
        /\ ExclInv(p)' => Exclusive'
    BY <1>1, <2>1, ExclElsewhere
  <2>4. WaitWrite(p)' = WaitWrite(p) \cup {f} /\ WaitRead(p)' = WaitRead(p)
    BY <1>1, <2>2, <2>3, Joins DEF WaitWrite, WaitRead
  <2>5. f \notin WritersOf(p)'
    BY <2>4 DEF WritersOf, WriteQueued, WaitWrite
  <2>6. WritersOf(p)' = WritersOf(p) /\ ReadersOf(p)' = ReadersOf(p)
    <3>1. \A h \in Fibers : /\ h \in WritersOf(p)' <=> h \in WritersOf(p)
                            /\ h \in ReadersOf(p)' <=> h \in ReadersOf(p)
      BY <1>3, <1>4, <2>3, <2>4, <2>5, OtherWriter, OtherReader
    <3>2. WritersOf(p)' = WritersOf(p)
      BY <3>1 DEF WritersOf
    <3>3. ReadersOf(p)' = ReadersOf(p)
      BY <3>1 DEF ReadersOf
    <3>4. QED
      BY <3>2, <3>3
  <2>7. ExclInv(p)'
    BY <1>1, <2>2, <2>3, <2>6 DEF ExclInv
  <2>8. QED
    BY <2>3, <2>7
<1>7. QED
  BY <1>5, <1>6

\* read_lock
LEMMA ExclReadLock ==
    ASSUME ControlInv, Exclusive, NEW t \in Threads, NEW f \in Fibers, Running(t, f),
           NEW p \in Partitions, p = Idx(f), ReadLock(t, f, p),
           pc[f] \in {"read_lock", "remove_rlock"},
           NEW point \in ReadPoints, pc' = [pc EXCEPT ![f] = point], UNCHANGED req
    PROVE  Exclusive'
<1> DEFINE m == mutex[p]
<1>1. /\ ControlTypes /\ ExecTypeOK /\ ExclInv(p)
      /\ m \in P!SharedMutexType(Fibers) /\ m.shared_waiters_ \in Seq(Fibers)
  BY MutexQueues DEF ControlInv, ControlTypes, Exclusive
<1>2. f \notin WritersOf(p) /\ f \notin ReadersOf(p)
  BY DEF WritersOf, ReadersOf
<1>3. ASSUME pc'[f] = point
      PROVE  f \notin WritersOf(p)'
  BY <1>3 DEF WritersOf, ReadPoints
<1>4. CASE P!SharedFree(m)
  <2> DEFINE n == P!TakeShared(m)
  <2>1. mutex' = [mutex EXCEPT ![p] = n] /\ ~m.writer_active_
    BY <1>4 DEF ReadLock, P!SharedFree
  <2>2. /\ n.writer_active_ = m.writer_active_
        /\ n.shared_waiters_ = m.shared_waiters_ /\ n.unique_waiters_ = m.unique_waiters_
    BY <1>1, TakeSharedMembers
  <2> HIDE DEF n
  <2>3. /\ pc'[f] = point /\ OthersKeep(f) /\ mutex'[p] = n /\ (ExclInv(p)' => Exclusive')
    BY <1>1, <2>1, ExclElsewhere
  <2>4. WaitWrite(p)' = WaitWrite(p) /\ WaitRead(p)' = WaitRead(p)
    BY <2>2, <2>3 DEF WaitWrite, WaitRead
  <2>5. WritersOf(p)' = {}
    BY <1>1, <1>3, <2>1, <2>3, <2>4, SameUsers DEF ExclInv
  <2>6. ExclInv(p)'
    BY <2>1, <2>2, <2>3, <2>5 DEF ExclInv
  <2>7. QED
    BY <2>3, <2>6
<1>5. CASE ~P!SharedFree(m)
  <2> DEFINE n == P!QueueShared(m, f)
  <2>1. mutex' = [mutex EXCEPT ![p] = n]
    BY <1>5 DEF ReadLock
  <2>2. /\ n.writer_active_ = m.writer_active_ /\ n.unique_waiters_ = m.unique_waiters_
        /\ n.shared_waiters_ = Append(m.shared_waiters_, f)
    BY <1>1, QueueSharedMembers
  <2> HIDE DEF n
  <2>3. /\ pc'[f] = point /\ OthersKeep(f) /\ mutex'[p] = n /\ (ExclInv(p)' => Exclusive')
    BY <1>1, <2>1, ExclElsewhere
  <2>4. WaitRead(p)' = WaitRead(p) \cup {f} /\ WaitWrite(p)' = WaitWrite(p)
    BY <1>1, <2>2, <2>3, Joins DEF WaitWrite, WaitRead
  <2>5. f \notin ReadersOf(p)'
    BY <2>4 DEF ReadersOf, ReadQueued, WaitRead
  <2>6. WritersOf(p)' = WritersOf(p) /\ ReadersOf(p)' = ReadersOf(p)
    <3>1. \A h \in Fibers : /\ h \in WritersOf(p)' <=> h \in WritersOf(p)
                            /\ h \in ReadersOf(p)' <=> h \in ReadersOf(p)
      BY <1>2, <1>3, <2>3, <2>4, <2>5, OtherWriter, OtherReader
    <3>2. WritersOf(p)' = WritersOf(p)
      BY <3>1 DEF WritersOf
    <3>3. ReadersOf(p)' = ReadersOf(p)
      BY <3>1 DEF ReadersOf
    <3>4. QED
      BY <3>2, <3>3
  <2>7. ExclInv(p)'
    BY <1>1, <2>2, <2>3, <2>6 DEF ExclInv
  <2>8. QED
    BY <2>3, <2>7
<1>6. QED
  BY <1>4, <1>5

\* The lock passes to the first queued writer: f was the only one to use the
\* partition.
LEMMA ExclPassToWriter ==
    ASSUME ControlInv, Exclusive, NEW f \in Fibers, ~AtRest(f),
           NEW p \in Partitions, p = Idx(f),
           WritersOf(p) \cup ReadersOf(p) \subseteq {f},
           NEW point \in {"respond", "remove_lock"}, pc' = [pc EXCEPT ![f] = point], UNCHANGED req,
           NEW m \in P!SharedMutexType(Fibers),
           m.writers_waiting_ = mutex[p].writers_waiting_,
           m.shared_waiters_ = mutex[p].shared_waiters_,
           m.unique_waiters_ = mutex[p].unique_waiters_, m.unique_waiters_ # <<>>,
           mutex' = [mutex EXCEPT ![p] = P!PassToWriter(m)]
    PROVE  Exclusive'
<1> DEFINE n == P!PassToWriter(m)
           g == Head(m.unique_waiters_)
<1>1. /\ ControlTypes /\ PartitionInv(p)
      /\ mutex[p].unique_waiters_ \in Seq(Fibers)
  BY MutexQueues DEF ControlInv
<1>2. /\ n.writer_active_ = TRUE
      /\ n.shared_waiters_ = m.shared_waiters_ /\ n.unique_waiters_ = Tail(m.unique_waiters_)
  <2>1. m.writers_waiting_ = Len(m.unique_waiters_)
    BY <1>1 DEF PartitionInv
  <2>2. QED
    BY <2>1, PassToWriterMembers
<1>3. ToSet(Tail(m.unique_waiters_)) = WaitWrite(p) \ {g} /\ g \in WaitWrite(p) /\ g \in Fibers
  BY <1>1, FirstLeaves DEF PartitionInv, WaitWrite
<1>4. g # f /\ pc[g] \in WriteLockPoints /\ Idx(g) = p
  BY <1>1, <1>3 DEF PartitionInv
<1>5. /\ pc'[f] = point /\ OthersKeep(f) /\ mutex'[p] = n /\ (ExclInv(p)' => Exclusive')
  <2>1. ControlTypes /\ Exclusive /\ f \in Fibers /\ p \in Partitions /\ p = Idx(f)
    BY <1>1
  <2>2. pc' = [pc EXCEPT ![f] = point] /\ UNCHANGED req /\ mutex' = [mutex EXCEPT ![p] = n]
    OBVIOUS
  <2> HIDE DEF n
  <2>3. QED
    BY ONLY <2>1, <2>2, ExclElsewhere
<1> HIDE DEF n, g
<1>6. WaitWrite(p)' = WaitWrite(p) \ {g} /\ WaitRead(p)' = WaitRead(p)
  BY <1>2, <1>3, <1>5 DEF WaitWrite, WaitRead
<1>7. f \notin WritersOf(p)' /\ f \notin ReadersOf(p)'
  BY <1>5 DEF WritersOf, ReadersOf
<1>8. g \in WritersOf(p)' /\ g \notin ReadersOf(p)'
  BY <1>3, <1>4, <1>5, <1>6
     DEF WritersOf, ReadersOf, WriteQueued, WaitWrite, WriteLockPoints, OthersKeep, Idx
<1>9. \A h \in Fibers \ {f, g} : h \notin WritersOf(p)' /\ h \notin ReadersOf(p)'
  BY <1>5, <1>6, OtherWriter, OtherReader
<1>10. WritersOf(p)' = {g} /\ ReadersOf(p)' = {}
  <2>1. WritersOf(p)' = {g}
    BY <1>7, <1>8, <1>9 DEF WritersOf
  <2>2. ReadersOf(p)' = {}
    BY <1>7, <1>8, <1>9 DEF ReadersOf
  <2>3. QED
    BY <2>1, <2>2
<1>11. ExclInv(p)'
  BY <1>2, <1>5, <1>10 DEF ExclInv
<1>12. QED
  BY <1>5, <1>11

\* One turn of unlock's loop, while partition p has no writer but f.
LEMMA ExclCallReaders ==
    ASSUME ControlInv, Exclusive, NEW t \in Threads, NEW f \in Fibers,
           NEW p \in Partitions, p = Idx(f),
           WritersOf(p) \subseteq {f},
           NEW m \in P!SharedMutexType(Fibers), m.writer_active_ = FALSE,
           m.unique_waiters_ = mutex[p].unique_waiters_,
           CallReaders(t, f, p, m), UNCHANGED req
    PROVE  Exclusive'
<1>1. PICK point \in {"unlocking", "respond"}, n \in {m, P!PassToReader(m)} :
         /\ pc' = [pc EXCEPT ![f] = point] /\ mutex' = [mutex EXCEPT ![p] = n]
         /\ n = m \/ (n = P!PassToReader(m) /\ m.shared_waiters_ # <<>>)
  BY DEF CallReaders
<1>2. n.writer_active_ = FALSE /\ n.unique_waiters_ = mutex[p].unique_waiters_
  BY <1>1, PassToReaderMembers
<1>3. /\ pc'[f] = point /\ OthersKeep(f) /\ mutex'[p] = n /\ (ExclInv(p)' => Exclusive')
  BY <1>1, ExclElsewhere, ZenonT(60) DEF ControlInv
<1>4. WaitWrite(p)' = WaitWrite(p)
  BY <1>2, <1>3 DEF WaitWrite
<1>5. f \notin WritersOf(p)'
  BY <1>1, <1>3 DEF WritersOf
<1>6. \A h \in Fibers \ {f} : h \notin WritersOf(p)'
  BY <1>3, <1>4, OtherWriter
<1>7. WritersOf(p)' = {}
  BY <1>5, <1>6 DEF WritersOf
<1>8. ExclInv(p)'
  BY <1>2, <1>3, <1>7 DEF ExclInv
<1>9. QED
  BY <1>3, <1>8

\* The write guard is destroyed.
LEMMA ExclWriteUnlock ==
    ASSUME ControlInv, Exclusive, NEW t \in Threads, NEW f \in Fibers, Running(t, f),
           NEW p \in Partitions, p = Idx(f), pc[f] \in {"push_apply", "remove_check", "remove_pop"},
           WriteUnlock(t, f, p), UNCHANGED req
    PROVE  Exclusive'
<1> DEFINE m == P!DropUnique(mutex[p])
<1>1. mutex[p] \in P!SharedMutexType(Fibers) /\ ExclInv(p) /\ ControlTypes /\ ExecTypeOK
  BY MutexQueues DEF ControlInv, ControlTypes, Exclusive
<1>2. ~AtRest(f) /\ f \notin WaitWrite(p)
  BY <1>1, RunningBusy, BusyUnqueued
<1>3. f \in WritersOf(p)
  BY <1>2 DEF WritersOf, WriteQueued, WaitWrite
<1>4. WritersOf(p) = {f} /\ ReadersOf(p) = {}
  BY <1>1, <1>3 DEF ExclInv
<1>5. /\ m \in P!SharedMutexType(Fibers) /\ m.writer_active_ = FALSE
      /\ m.writers_waiting_ = mutex[p].writers_waiting_
      /\ m.shared_waiters_ = mutex[p].shared_waiters_
      /\ m.unique_waiters_ = mutex[p].unique_waiters_
  BY <1>1, DropUniqueMembers
<1>6. \/ /\ m.unique_waiters_ # <<>> /\ mutex' = [mutex EXCEPT ![p] = P!PassToWriter(m)]
         /\ pc' = [pc EXCEPT ![f] = "respond"]
      \/ CallReaders(t, f, p, m)
  BY DEF WriteUnlock
<1> HIDE DEF m
<1>7. CASE CallReaders(t, f, p, m)
  BY <1>4, <1>5, <1>7, ExclCallReaders
<1>8. CASE ~CallReaders(t, f, p, m)
  BY <1>2, <1>4, <1>5, <1>6, <1>8, ExclPassToWriter
<1>9. QED
  BY <1>7, <1>8

\* The read guard is destroyed.
LEMMA ExclReadUnlock ==
    ASSUME ControlInv, Exclusive, NEW t \in Threads, NEW f \in Fibers, Running(t, f),
           NEW p \in Partitions, p = Idx(f), pc[f] \in ReadPoints,
           NEW point \in {"respond", "remove_lock"}, ReadUnlock(t, f, p, point), UNCHANGED req
    PROVE  Exclusive'
<1> DEFINE m == P!DropShared(mutex[p])
<1>1. /\ mutex[p] \in P!SharedMutexType(Fibers) /\ ExclInv(p) /\ ControlTypes /\ ExecTypeOK
      /\ mutex[p].reader_count_ = Cardinality(ReadersOf(p))
  BY MutexQueues DEF ControlInv, ControlTypes, PartitionInv, Exclusive
<1>2. ~AtRest(f) /\ f \notin WaitRead(p)
  BY <1>1, RunningBusy, BusyUnqueued
<1>3. f \in ReadersOf(p) /\ f \notin WritersOf(p)
  BY <1>2 DEF ReadersOf, WritersOf, ReadQueued, WaitRead, ReadPoints
<1>4. WritersOf(p) = {} /\ ~mutex[p].writer_active_
  BY <1>1, <1>3 DEF ExclInv
<1>5. /\ Cardinality(ReadersOf(p)) > 0
      /\ Cardinality(ReadersOf(p) \ {f}) = Cardinality(ReadersOf(p)) - 1
  BY <1>3, CountDown DEF ReadersOf
<1>6. /\ m \in P!SharedMutexType(Fibers) /\ m.writer_active_ = mutex[p].writer_active_
      /\ m.reader_count_ = Cardinality(ReadersOf(p) \ {f})
      /\ m.writers_waiting_ = mutex[p].writers_waiting_
      /\ m.shared_waiters_ = mutex[p].shared_waiters_
      /\ m.unique_waiters_ = mutex[p].unique_waiters_
  BY <1>1, <1>5, DropSharedMembers
<1>7. /\ pc' = [pc EXCEPT ![f] = point]
      /\ \/ /\ m.reader_count_ = 0 /\ m.unique_waiters_ # <<>>
            /\ mutex' = [mutex EXCEPT ![p] = P!PassToWriter(m)]
         \/ mutex' = [mutex EXCEPT ![p] = m]
  BY DEF ReadUnlock
<1> HIDE DEF m
<1>8. CASE m.reader_count_ = 0 /\ m.unique_waiters_ # <<>>
           /\ mutex' = [mutex EXCEPT ![p] = P!PassToWriter(m)]
  <2>1. IsFiniteSet(ReadersOf(p) \ {f})
    BY TopicAssumption, FS_Subset DEF ReadersOf
  <2>2. WritersOf(p) \cup ReadersOf(p) \subseteq {f}
    BY <1>4, <1>6, <1>8, <2>1, FS_EmptySet
  <2>3. QED
    BY <1>2, <1>6, <1>7, <1>8, <2>2, ExclPassToWriter
<1>9. CASE mutex' = [mutex EXCEPT ![p] = m]
  <2>1. /\ pc'[f] = point /\ OthersKeep(f) /\ mutex'[p] = m /\ (ExclInv(p)' => Exclusive')
    BY <1>1, <1>7, <1>9, ExclElsewhere
  <2>2. WaitWrite(p)' = WaitWrite(p)
    BY <1>6, <2>1 DEF WaitWrite
  <2>3. f \notin WritersOf(p)'
    BY <2>1 DEF WritersOf
  <2>4. \A h \in Fibers \ {f} : h \notin WritersOf(p)'
    BY <1>4, <2>1, <2>2, OtherWriter
  <2>5. WritersOf(p)' = {}
    BY <2>3, <2>4 DEF WritersOf
  <2>6. ExclInv(p)'
    BY <1>4, <1>6, <2>1, <2>5 DEF ExclInv
  <2>7. QED
    BY <2>1, <2>6
<1>10. QED
  BY <1>7, <1>8, <1>9

\* unlock goes on after a reader it called has suspended: with few sessions
\* nobody has become the writer if another reader is queued.
LEMMA ExclUnlockLoop ==
    ASSUME FewSessions, ControlInv, Roles, Exclusive, NEW t \in Threads, NEW f \in Fibers,
           UnlockLoop(t, f)
    PROVE  Exclusive'
<1>1. /\ pc[f] = "unlocking" /\ UNCHANGED req /\ ControlTypes /\ Idx(f) \in Partitions
      /\ CallReaders(t, f, Idx(f), mutex[Idx(f)])
  BY IdxPartition DEF UnlockLoop, At, ControlInv
<1>2. PICK p \in Partitions : p = Idx(f)
  BY <1>1
<1> DEFINE m == mutex[p]
<1>3. /\ m \in P!SharedMutexType(Fibers) /\ ExclInv(p) /\ PartitionInv(p)
      /\ m.shared_waiters_ \in Seq(Fibers) /\ m.writer_active_ \in BOOLEAN
  BY <1>1, MutexQueues, SharedMutexMembers DEF ControlInv, Exclusive
<1>4. f \notin WritersOf(p) /\ f \notin ReadersOf(p)
  BY <1>1 DEF WritersOf, ReadersOf
<1>5. CASE m.shared_waiters_ # <<>>
  <2> DEFINE g == Head(m.shared_waiters_)
  <2>1. g \in WaitRead(p) /\ g \in Fibers
    BY <1>3, <1>5, FirstLeaves DEF PartitionInv, WaitRead
  <2>2. pc[g] \in ReadPoints
    BY <1>3, <2>1 DEF PartitionInv
  <2> HIDE DEF g
  <2>3. f \in Writers /\ g \in Readers /\ f # g
    BY <1>1, <2>1, <2>2 DEF Roles, ReadPoints, RemovePoints, Readers
  <2>4. ASSUME NEW w \in WritersOf(p)
        PROVE  FALSE
    <3>1. w \in Fibers /\ pc[w] \in WritePoints /\ w # f /\ w # g
      BY <1>1, <2>2 DEF WritersOf, WritePoints, ReadPoints
    <3>2. w \in Writers
      BY <3>1 DEF Roles, WritePoints, PushPoints, RemovePoints, Writers
    <3>3. QED
      BY <2>3, <3>1, <3>2 DEF FewSessions
  <2>5. WritersOf(p) = {} /\ m.writer_active_ = FALSE
    BY <1>3, <2>4 DEF ExclInv
  <2>6. QED
    BY <1>1, <1>2, <1>3, <2>5, ExclCallReaders
<1>6. CASE m.shared_waiters_ = <<>>
  <2>1. /\ mutex' = [mutex EXCEPT ![p] = m] /\ pc' = [pc EXCEPT ![f] = "respond"]
    BY <1>1, <1>2, <1>6 DEF CallReaders
  <2>2. /\ pc'[f] = "respond" /\ OthersKeep(f) /\ mutex'[p] = mutex[p]
        /\ ExclInv(p)' => Exclusive'
    BY <1>1, <1>2, <2>1, ExclElsewhere, ZenonT(60)
  <2>3. f \notin WritersOf(p)' /\ f \notin ReadersOf(p)'
    BY <2>2 DEF WritersOf, ReadersOf
  <2>4. ExclInv(p)'
    BY <1>3, <1>4, <2>2, <2>3, ExclSame
  <2>5. QED
    BY <2>2, <2>4
<1>7. QED
  BY <1>5, <1>6

\* Session f moves on and leaves the mutexes of the partitions alone.
LEMMA ExclUnmoved ==
    ASSUME Exclusive, NEW f \in Fibers, OthersKeep(f), UNCHANGED mutex,
           \/ pc[f] \in WritePoints /\ pc'[f] \in WritePoints /\ req'[f] = req[f]
           \/ pc[f] \notin WritePoints \cup ReadPoints /\ pc'[f] \notin WritePoints \cup ReadPoints
    PROVE  Exclusive'
<1>1. ASSUME NEW q \in Partitions
      PROVE  ExclInv(q)'
  <2>1. f \in WritersOf(q)' <=> f \in WritersOf(q)
    BY DEF WritersOf, WriteQueued, WritePoints, Idx
  <2>2. f \notin ReadersOf(q) /\ f \notin ReadersOf(q)'
    BY DEF ReadersOf, WritePoints, ReadPoints
  <2>3. QED
    BY <2>1, <2>2, ExclSame DEF Exclusive
<1>2. QED
  BY <1>1 DEF Exclusive

\* What a running session does.
LEMMA ExclStep ==
    ASSUME FewSessions, ControlInv, Roles, Exclusive,
           NEW t \in Threads, NEW f \in Fibers, Step(t, f)
    PROVE  Exclusive'
<1>1. /\ Running(t, f) /\ \E p \in Partitions : p = Idx(f)
  <2>1. Running(t, f) /\ pc[f] # "idle"
    BY DEF Step, PushLock, PushWall, PushStore, PushApply, ReadBegin, ReadFront, RemoveBegin,
           NullFront, RemovePeek, RemoveLock, RemoveCheck, RemoveStore, RemovePop, UnlockLoop,
           Respond, At
  <2>2. QED
    BY <2>1, IdxPartition DEF ControlInv
<1>2. PICK p \in Partitions : p = Idx(f)
  BY <1>1
<1>3. pc \in [Fibers -> PCs] /\ req \in [Fibers -> Request \cup {None}]
  BY DEF ControlInv, ControlTypes
<1>4. CASE PushLock(t, f) \/ RemoveLock(t, f)
  <2>1. PICK point \in WriteLockPoints :
           /\ pc[f] \in {"push_lock", "remove_lock"} /\ WriteLock(t, f, p)
           /\ pc' = [pc EXCEPT ![f] = point] /\ UNCHANGED req
    BY <1>2, <1>4 DEF PushLock, RemoveLock, At, WriteLockPoints
  <2>2. QED
    BY <1>1, <1>2, <2>1, ExclWriteLock
<1>5. CASE ReadBegin(t, f) \/ RemoveBegin(t, f)
  <2>1. PICK point \in ReadPoints :
           /\ pc[f] \in {"read_lock", "remove_rlock"} /\ ReadLock(t, f, p)
           /\ pc' = [pc EXCEPT ![f] = point] /\ UNCHANGED req
    BY <1>2, <1>5 DEF ReadBegin, RemoveBegin, At, ReadPoints
  <2>2. QED
    BY <1>1, <1>2, <2>1, ExclReadLock
<1>6. CASE PushWall(t, f) \/ (RemoveCheck(t, f) /\ Matches(f)) \/ PushStore(t, f) \/ RemoveStore(t, f)
  <2>1. PICK point \in WritePoints :
           pc[f] \in WritePoints /\ pc' = [pc EXCEPT ![f] = point] /\ UNCHANGED <<req, mutex>>
    BY <1>6 DEF PushWall, RemoveCheck, PushStore, RemoveStore, Store, At, WritePoints
  <2>2. OthersKeep(f) /\ pc'[f] = point
    BY <1>3, <2>1 DEF OthersKeep
  <2>3. QED
    BY <2>1, <2>2, ExclUnmoved
<1>7. CASE PushApply(t, f) \/ RemovePop(t, f) \/ (RemoveCheck(t, f) /\ ~Matches(f))
  <2>1. /\ pc[f] \in {"push_apply", "remove_check", "remove_pop"} /\ WriteUnlock(t, f, p)
        /\ UNCHANGED req
    BY <1>2, <1>7 DEF PushApply, RemovePop, RemoveCheck, At
  <2>2. QED
    BY <1>1, <1>2, <2>1, ExclWriteUnlock
<1>8. CASE ReadFront(t, f) \/ RemovePeek(t, f)
  <2>1. PICK point \in {"respond", "remove_lock"} :
           pc[f] \in ReadPoints /\ ReadUnlock(t, f, p, point) /\ UNCHANGED req
    BY <1>2, <1>8 DEF ReadFront, RemovePeek, At, ReadPoints
  <2>2. QED
    BY <1>1, <1>2, <2>1, ExclReadUnlock
<1>9. CASE UnlockLoop(t, f)
  BY <1>9, ExclUnlockLoop
<1>10. CASE NullFront(t, f)
  BY <1>10 DEF NullFront, Exclusive, ExclInv, WritersOf, ReadersOf, WriteQueued, ReadQueued, Idx
<1>11. CASE Respond(t, f)
  <2>1. pc[f] = "respond" /\ pc'[f] = "idle" /\ OthersKeep(f) /\ UNCHANGED mutex
    BY <1>3, <1>11 DEF Respond, At, OthersKeep
  <2>2. QED
    BY <2>1, ExclUnmoved DEF WritePoints, ReadPoints
<1>12. QED
  BY <1>4, <1>5, <1>6, <1>7, <1>8, <1>9, <1>10, <1>11 DEF Step

\* A request leads a session where its client's requests do.
LEMMA RequestRoles ==
    ASSUME ControlTypes, Roles, NEW f \in Fibers, RequestPush(f) \/ RequestPull(f) \/ RequestDelete(f)
    PROVE  /\ Roles' /\ OthersKeep(f) /\ UNCHANGED mutex
           /\ pc[f] = "idle" /\ pc'[f] \in {"push_lock", "read_lock", "remove_rlock"}
<1>1. PICK point, r : Start(f, r, point) /\ \/ point = "push_lock" /\ f \in Pushers
                                            \/ point = "read_lock" /\ f \in Pullers
                                            \/ point = "remove_rlock" /\ f \in Deleters
  BY DEF RequestPush, RequestPull, RequestDelete
<1>2. pc'[f] = point /\ pc[f] = "idle" /\ OthersKeep(f) /\ UNCHANGED mutex
  BY <1>1 DEF Start, ControlTypes, OthersKeep
<1>3. QED
  BY <1>1, <1>2 DEF Roles, OthersKeep, PushPoints, RemovePoints

\* A step keeps to the session's request.
LEMMA StepRoles ==
    ASSUME ControlTypes, Roles, NEW t \in Threads, NEW f \in Fibers, Step(t, f)
    PROVE  Roles'
<1>1. PICK point : /\ pc' = [pc EXCEPT ![f] = point]
                   /\ \/ point \in PushPoints /\ pc[f] \in PushPoints
                      \/ point \in RemovePoints /\ pc[f] \in RemovePoints
                      \/ point = "read_front" /\ pc[f] = "read_lock"
                      \/ point = "unlocking" /\ pc[f] \in PushPoints \cup RemovePoints \cup {"unlocking"}
                      \/ point \in {"respond", "idle"}
  <2>1. CASE PushLock(t, f) \/ PushWall(t, f) \/ PushStore(t, f)
    BY <2>1 DEF PushLock, PushWall, PushStore, At, PushPoints
  <2>2. CASE PushApply(t, f) \/ RemovePop(t, f) \/ (RemoveCheck(t, f) /\ ~Matches(f)) \/ UnlockLoop(t, f)
    BY <2>2 DEF PushApply, RemovePop, RemoveCheck, UnlockLoop, WriteUnlock, CallReaders, At,
                PushPoints, RemovePoints
  <2>3. CASE ReadBegin(t, f) \/ ReadFront(t, f) \/ RemovePeek(t, f) \/ Respond(t, f)
    BY <2>3 DEF ReadBegin, ReadFront, RemovePeek, ReadUnlock, Respond, At, RemovePoints
  <2>4. CASE RemoveBegin(t, f) \/ RemoveLock(t, f) \/ (RemoveCheck(t, f) /\ Matches(f)) \/ RemoveStore(t, f)
    BY <2>4 DEF RemoveBegin, RemoveLock, RemoveCheck, RemoveStore, At, RemovePoints
  <2>5. CASE NullFront(t, f)
    <3>1. pc' = [pc EXCEPT ![f] = pc[f]] /\ pc[f] \in RemovePoints
      BY <2>5 DEF NullFront, At, RemovePoints, ControlTypes
    <3>2. QED
      BY <3>1
  <2>6. QED
    BY <2>1, <2>2, <2>3, <2>4, <2>5 DEF Step
<1>2. pc'[f] = point /\ \A h \in Fibers \ {f} : pc'[h] = pc[h]
  BY <1>1 DEF ControlTypes
<1>3. QED
  BY <1>1, <1>2 DEF Roles, PushPoints, RemovePoints, Writers

\* Roles and exclusion hold at first ...
LEMMA ExclusionStart == Init => Roles /\ Exclusive
<1> SUFFICES ASSUME Init PROVE Roles /\ Exclusive
  OBVIOUS
<1>1. \A f \in Fibers : pc[f] = "idle"
  BY DEF Init
<1>2. Roles
  BY <1>1 DEF Roles, PushPoints, RemovePoints
<1>3. \A p \in Partitions : WritersOf(p) = {} /\ ReadersOf(p) = {} /\ mutex[p].writer_active_ = FALSE
  BY <1>1 DEF WritersOf, ReadersOf, Init, P!IdleMutex
<1>4. QED
  BY <1>2, <1>3 DEF Exclusive, ExclInv

\* ... and after every step.
LEMMA ExclusionStep ==
    ASSUME FewSessions, TopicInv, Roles, Exclusive, [Next]_vars
    PROVE  Roles' /\ Exclusive'
<1>1. ControlInv /\ ControlTypes
  BY DEF TopicInv, ControlInv
<1>2. ASSUME NEW f \in Fibers, RequestPush(f) \/ RequestPull(f) \/ RequestDelete(f)
      PROVE  Roles' /\ Exclusive'
  BY <1>1, <1>2, RequestRoles, ExclUnmoved DEF WritePoints, ReadPoints
<1>3. ASSUME NEW t \in Threads, NEW f \in Fibers, Step(t, f)
      PROVE  Roles' /\ Exclusive'
  BY <1>1, <1>3, StepRoles, ExclStep
<1>4. ASSUME UNCHANGED <<pc, req, mutex>>
      PROVE  Roles' /\ Exclusive'
  BY <1>4 DEF Roles, Exclusive, ExclInv, WritersOf, ReadersOf, WriteQueued, ReadQueued, Idx
<1>5. QED
  BY <1>2, <1>3, <1>4 DEF Next, vars, Resume

\* A partition is written to by one session at a time, which nobody reads
\* beside, as long as no three sessions share the topic of which two may write
\* and the third may read.  (With three, TLC finds a writer beside a reader.)
THEOREM WriterAlone ==
    ASSUME FewSessions
    PROVE  Spec => []PartitionExclusion
<1>1. TopicInv /\ Roles /\ Exclusive /\ [Next]_vars => TopicInv' /\ Roles' /\ Exclusive'
  BY TopicStep, ExclusionStep
<1>2. Exclusive => PartitionExclusion
  BY DEF Exclusive, ExclInv, PartitionExclusion
<1>3. QED
  BY TopicStart, ExclusionStart, <1>1, <1>2, PTL DEF Spec

-----------------------------------------------------------------------------
(* One consumer                                                            *)
(*                                                                         *)
(* With a single session that pulls and deletes, and deletes only what it  *)
(* has pulled, what it knows of a partition stays true: pushes do not      *)
(* change the front of a queue, and nobody else takes it away.             *)

OneConsumer == AnyDelete = FALSE /\ \A c, d \in Readers : c = d

\* The front of partition p has content d and has been sent to the consumer.
FrontSent(p, d) ==
    queue[p] # <<>> /\ Head(queue[p]).data = d /\ Head(queue[p]).id \in delivered

\* What session f has read, was sent, or is removing is still the front.
KnowsFront(f) ==
    /\ result[f] # None =>
          /\ f \in Pullers /\ pc[f] = "respond"
          /\ queue[Idx(f)] # <<>> /\ Head(queue[Idx(f)]) = result[f]
    /\ pulled[f] # None => f \in Pullers /\ FrontSent(pulled[f].partition, pulled[f].data)
    /\ pc[f] \in RemovePoints => pulled[f] = None /\ FrontSent(Idx(f), req[f].data)

ConsumerInv == Roles /\ ~died /\ \A f \in Fibers : KnowsFront(f)

\* No front goes, and what was sent stays sent.
FrontsStay ==
    /\ \A p \in Partitions : queue[p] # <<>> => queue'[p] # <<>> /\ Head(queue'[p]) = Head(queue[p])
    /\ delivered \subseteq delivered'

\* A step that takes no message away leaves to the other sessions what they know.
LEMMA OthersKnow ==
    ASSUME TopicInv, FrontsStay, NEW f \in Fibers, OthersKeep(f), NEW h \in Fibers \ {f},
           KnowsFront(h), result'[h] = result[h], pulled'[h] = pulled[h]
    PROVE  KnowsFront(h)'
<1>1. pc'[h] = pc[h] /\ req'[h] = req[h] /\ Idx(h)' = Idx(h)
  BY DEF OthersKeep, Idx
<1>2. pc[h] # "idle" => Idx(h) \in Partitions
  BY IdxPartition DEF TopicInv, ControlInv
<1>3. \A p \in Partitions : \A d : FrontSent(p, d) => FrontSent(p, d)'
  BY DEF FrontsStay, FrontSent
<1>4. pulled[h] # None => pulled[h].partition \in Partitions
  BY DEF TopicInv, DataTypes
<1>5. result[h] # None => queue'[Idx(h)] # <<>> /\ Head(queue'[Idx(h)]) = result[h]
  BY <1>2 DEF KnowsFront, FrontsStay
<1>6. pulled[h] # None => FrontSent(pulled[h].partition, pulled[h].data)'
  BY <1>3, <1>4 DEF KnowsFront, FrontSent
<1>7. pc[h] \in RemovePoints => FrontSent(Idx(h), req[h].data)'
  <2>1. SUFFICES ASSUME pc[h] \in RemovePoints PROVE FrontSent(Idx(h), req[h].data)'
    OBVIOUS
  <2>2. Idx(h) \in Partitions /\ FrontSent(Idx(h), req[h].data)
    BY <1>2, <2>1 DEF KnowsFront, RemovePoints
  <2>3. QED
    BY <1>1, <2>2 DEF FrontSent, FrontsStay
<1>8. QED
  BY <1>1, <1>5, <1>6, <1>7 DEF KnowsFront

\* A step of f that leaves its own result and what it was sent alone.
LEMMA SelfKnows ==
    ASSUME TopicInv, FrontsStay, NEW f \in Fibers, KnowsFront(f),
           result'[f] = result[f], pulled'[f] = pulled[f], result[f] = None,
           pc'[f] \in RemovePoints => pc[f] \in RemovePoints /\ req'[f] = req[f]
    PROVE  KnowsFront(f)'
<1>1. pulled[f] # None => pulled[f].partition \in Partitions
  BY DEF TopicInv, DataTypes
<1>2. pulled[f] # None => FrontSent(pulled[f].partition, pulled[f].data)'
  BY <1>1 DEF KnowsFront, FrontSent, FrontsStay
<1>3. pc'[f] \in RemovePoints => FrontSent(Idx(f), req[f].data)'
  <2>1. SUFFICES ASSUME pc'[f] \in RemovePoints PROVE FrontSent(Idx(f), req[f].data)'
    OBVIOUS
  <2>2. Idx(f) \in Partitions /\ FrontSent(Idx(f), req[f].data) /\ Idx(f)' = Idx(f)
    BY <2>1, IdxPartition DEF KnowsFront, RemovePoints, TopicInv, ControlInv, Idx
  <2>3. QED
    BY <2>1, <2>2 DEF FrontSent, FrontsStay
<1>4. QED
  BY <1>2, <1>3 DEF KnowsFront

\* The clients' requests.
LEMMA RequestKnows ==
    ASSUME OneConsumer, TopicInv, ConsumerInv, NEW f \in Fibers,
           RequestPush(f) \/ RequestPull(f) \/ RequestDelete(f)
    PROVE  ConsumerInv'
<1>1. /\ Roles' /\ OthersKeep(f) /\ pc[f] = "idle"
      /\ pc'[f] \in {"push_lock", "read_lock", "remove_rlock"}
  BY RequestRoles DEF TopicInv, ControlInv, ConsumerInv
<1>2. FrontsStay /\ UNCHANGED <<queue, died, result, delivered>>
  BY DEF RequestPush, RequestPull, RequestDelete, Start, FrontsStay
<1>3. \A h \in Fibers \ {f} : pulled'[h] = pulled[h]
  BY DEF RequestPush, RequestPull, RequestDelete, TopicInv, DataTypes
<1>4. \A h \in Fibers \ {f} : KnowsFront(h)'
  BY <1>1, <1>2, <1>3, OthersKnow DEF ConsumerInv
<1>5. result[f] = None /\ KnowsFront(f)
  BY <1>1 DEF ConsumerInv, KnowsFront
<1>6. CASE RequestPush(f) \/ RequestPull(f)
  <2>1. pulled' = pulled
    BY <1>6 DEF RequestPush, RequestPull
  <2>2. pc'[f] \in {"push_lock", "read_lock"}
    BY <1>6 DEF RequestPush, RequestPull, Start, TopicInv, ControlInv, ControlTypes
  <2>3. KnowsFront(f)'
    BY <1>2, <1>5, <2>1, <2>2, SelfKnows DEF RemovePoints
  <2>4. QED
    BY <1>1, <1>2, <1>4, <2>3 DEF ConsumerInv
<1>7. CASE RequestDelete(f)
  <2>1. PICK p \in Partitions, d \in Data :
           /\ pulled[f] = [partition |-> p, data |-> d]
           /\ Start(f, [op |-> "delete", partition_id |-> p, id |-> 0, data |-> d], "remove_rlock")
    BY <1>7 DEF RequestDelete, OneConsumer
  <2>2. pulled'[f] = None /\ pulled[f] # None
    <3>1. pulled' = [pulled EXCEPT ![f] = None] /\ f \in Deleters
      BY <1>7 DEF RequestDelete
    <3>2. pulled \in [Fibers -> [partition : Partitions, data : Data] \cup {None}]
      BY DEF TopicInv, DataTypes
    <3>3. QED
      BY <2>1, <3>1, <3>2, TopicAssumption
  <2>3. Idx(f)' = p /\ req'[f].data = d
    <3>1. req'[f] = [op |-> "delete", partition_id |-> p, id |-> 0, data |-> d]
      BY <2>1 DEF Start, TopicInv, ControlInv, ControlTypes
    <3>2. p # INVALID
      BY TopicAssumption
    <3>3. QED
      BY <3>1, <3>2 DEF Idx, PartitionIdx
  <2>4. FrontSent(p, d)'
    BY <1>2, <1>5, <2>1, <2>2 DEF KnowsFront, FrontSent
  <2>5. KnowsFront(f)'
    <3>1. FrontSent(Idx(f), req[f].data)'
      BY <2>3, <2>4 DEF FrontSent
    <3>2. QED
      BY <1>2, <1>5, <2>2, <3>1 DEF KnowsFront
  <2>6. QED
    BY <1>1, <1>2, <1>4, <2>5 DEF ConsumerInv
<1>8. QED
  BY <1>6, <1>7

\* The steps that take no message away.
LEMMA StepFronts ==
    ASSUME TopicInv, ~died, NEW t \in Threads, NEW f \in Fibers, Step(t, f), ~RemovePop(t, f)
    PROVE  FrontsStay
<1>1. CASE PushApply(t, f)
  <2>1. /\ pc[f] = "push_apply" /\ UNCHANGED delivered
        /\ queue' = [queue EXCEPT ![Idx(f)] = Append(@, [id |-> req[f].id, data |-> req[f].data])]
    BY <1>1 DEF PushApply, At, clients
  <2>2. Idx(f) \in Partitions
    BY <2>1, IdxPartition DEF TopicInv, ControlInv
  <2>3. PICK p \in Partitions : p = Idx(f)
    BY <2>2
  <2> DEFINE x == [id |-> req[f].id, data |-> req[f].data]
  <2>4. queue' = [queue EXCEPT ![p] = Append(queue[p], x)]
    BY <2>1, <2>3
  <2>5. queue[p] \in Seq(Message) /\ queue \in [Partitions -> Seq(Message)]
    BY DEF TopicInv, DataTypes
  <2>6. x \in Message
    BY <2>1 DEF TopicInv, ControlInv, ControlTypes, RequestFits, PushPoints, Message
  <2> HIDE DEF x
  <2>7. Append(queue[p], x) # <<>> /\ (queue[p] # <<>> => Head(Append(queue[p], x)) = Head(queue[p]))
    BY <2>5, <2>6
  <2>8. queue'[p] = Append(queue[p], x) /\ \A q \in Partitions \ {p} : queue'[q] = queue[q]
    BY <2>4, <2>5
  <2>9. QED
    BY <2>1, <2>7, <2>8 DEF FrontsStay
<1>2. CASE ~PushApply(t, f)
  <2>1. queue' = queue
    BY <1>2 DEF Step, PushLock, PushWall, PushStore, ReadBegin, ReadFront, RemoveBegin,
           NullFront, RemovePeek, RemoveLock, RemoveCheck, RemoveStore, UnlockLoop,
           Respond, Store
  <2>2. delivered \subseteq delivered'
    BY <1>2 DEF Step, PushLock, PushWall, PushStore, ReadBegin, ReadFront, RemoveBegin,
           NullFront, RemovePeek, RemoveLock, RemoveCheck, RemoveStore, UnlockLoop,
           Respond, Store, clients
  <2>3. QED
    BY <2>1, <2>2 DEF FrontsStay
<1>3. QED
  BY <1>1, <1>2

\* The consumer removes the front: nobody else knew of it.
LEMMA PopKnows ==
    ASSUME OneConsumer, TopicInv, ConsumerInv, NEW t \in Threads, NEW f \in Fibers,
           RemovePop(t, f)
    PROVE  \A h \in Fibers : KnowsFront(h)'
<1>1. /\ pc[f] = "remove_pop" /\ f \in Readers /\ UNCHANGED <<req, result, pulled>>
      /\ pc'[f] \in {"respond", "unlocking"} /\ \A h \in Fibers \ {f} : pc'[h] = pc[h]
  <2>1. pc[f] = "remove_pop" /\ UNCHANGED <<req, result, pulled>> /\ WriteUnlock(t, f, Idx(f))
    BY DEF RemovePop, At, clients
  <2>2. PICK point \in {"respond", "unlocking"} : pc' = [pc EXCEPT ![f] = point]
    BY <2>1 DEF WriteUnlock, CallReaders
  <2>3. f \in Readers
    BY <2>1 DEF ConsumerInv, Roles, RemovePoints, Readers
  <2>4. QED
    BY <2>1, <2>2, <2>3 DEF TopicInv, ControlInv, ControlTypes
<1>2. result[f] = None /\ pulled[f] = None
  BY <1>1 DEF ConsumerInv, KnowsFront, RemovePoints
<1>3. KnowsFront(f)'
  BY <1>1, <1>2 DEF KnowsFront, RemovePoints
<1>4. ASSUME NEW h \in Fibers \ {f}
      PROVE  KnowsFront(h)'
  <2>1. h \notin Readers
    BY <1>1 DEF OneConsumer
  <2>2. result[h] = None /\ pulled[h] = None /\ pc[h] \notin RemovePoints
    BY <2>1 DEF ConsumerInv, KnowsFront, Roles, Readers
  <2>3. QED
    BY <1>1, <2>2 DEF KnowsFront
<1>5. QED
  BY <1>3, <1>4

\* What a running session does.
LEMMA StepKnows ==
    ASSUME OneConsumer, TopicInv, ConsumerInv, NEW t \in Threads, NEW f \in Fibers, Step(t, f)
    PROVE  ConsumerInv'
<1>1. Roles' /\ ControlTypes /\ KnowsFront(f)
  BY StepRoles DEF TopicInv, ControlInv, ConsumerInv
<1>2. ~NullFront(t, f)
  BY <1>1 DEF NullFront, At, KnowsFront, FrontSent, RemovePoints
<1>3. ~died'
  BY <1>2 DEF Step, PushLock, PushWall, PushStore, PushApply, ReadBegin, ReadFront, RemoveBegin,
         RemovePeek, RemoveLock, RemoveCheck, RemoveStore, RemovePop, UnlockLoop, Respond, Store,
         ConsumerInv
<1>4. CASE RemovePop(t, f)
  BY <1>1, <1>3, <1>4, PopKnows DEF ConsumerInv
<1>5. CASE ~RemovePop(t, f)
  <2>1. FrontsStay
    BY <1>5, StepFronts DEF ConsumerInv
  <2>2. /\ result \in [Fibers -> Message \cup {None}] /\ pc \in [Fibers -> PCs]
        /\ pulled \in [Fibers -> [partition : Partitions, data : Data] \cup {None}]
        /\ req \in [Fibers -> Request \cup {None}]
    BY <1>1 DEF TopicInv, DataTypes, ControlTypes
  <2>3. CASE ReadFront(t, f)
    <3>1. /\ pc[f] = "read_front" /\ pc' = [pc EXCEPT ![f] = "respond"]
          /\ result' = [result EXCEPT ![f] = IF queue[Idx(f)] = <<>> THEN None ELSE Head(queue[Idx(f)])]
          /\ UNCHANGED <<req, queue, pulled, delivered>>
      BY <2>3 DEF ReadFront, At, ReadUnlock, clients
    <3>2. OthersKeep(f) /\ pc'[f] = "respond" /\ Idx(f)' = Idx(f)
      BY <2>2, <3>1 DEF OthersKeep, Idx
    <3>3. \A h \in Fibers \ {f} : KnowsFront(h)'
      BY <2>1, <2>2, <3>1, <3>2, OthersKnow DEF ConsumerInv
    <3>4. result'[f] # None => queue[Idx(f)] # <<>> /\ Head(queue[Idx(f)]) = result'[f]
      BY <2>2, <3>1
    <3>5. f \in Pullers
      BY <3>1 DEF ConsumerInv, Roles
    <3>6. KnowsFront(f)'
      BY <1>1, <3>1, <3>2, <3>4, <3>5 DEF KnowsFront, FrontSent, RemovePoints
    <3>7. QED
      BY <1>1, <1>3, <3>3, <3>6 DEF ConsumerInv
  <2>4. CASE Respond(t, f)
    <3>1. /\ pc[f] = "respond" /\ pc' = [pc EXCEPT ![f] = "idle"] /\ req' = [req EXCEPT ![f] = None]
          /\ result' = [result EXCEPT ![f] = None] /\ UNCHANGED queue
          /\ \/ UNCHANGED <<pulled, delivered>>
             \/ /\ result[f] # None
                /\ pulled' = [pulled EXCEPT ![f] = [partition |-> Idx(f), data |-> result[f].data]]
                /\ delivered' = delivered \cup {result[f].id}
      BY <2>4 DEF Respond, At
    <3>2. OthersKeep(f) /\ pc'[f] = "idle" /\ result'[f] = None
      BY <2>2, <3>1 DEF OthersKeep
    <3>3. \A h \in Fibers \ {f} : KnowsFront(h)'
      BY <2>1, <2>2, <3>1, <3>2, OthersKnow DEF ConsumerInv
    <3>4. ASSUME UNCHANGED <<pulled, delivered>>
          PROVE  KnowsFront(f)'
      BY <1>1, <3>1, <3>2, <3>4 DEF KnowsFront, FrontSent, RemovePoints
    <3>5. ASSUME ~UNCHANGED <<pulled, delivered>>
          PROVE  KnowsFront(f)'
      <4>1. PICK p, m : p = Idx(f) /\ m = result[f]
        OBVIOUS
      <4>2. pulled'[f] = [partition |-> p, data |-> m.data] /\ delivered' = delivered \cup {m.id}
        BY <2>2, <3>1, <3>5, <4>1
      <4>3. f \in Pullers /\ queue[p] # <<>> /\ Head(queue[p]) = m
        BY <1>1, <3>1, <3>5, <4>1 DEF KnowsFront
      <4>4. FrontSent(pulled[f].partition, pulled[f].data)'
        <5>1. pulled'[f].partition = p /\ pulled'[f].data = m.data
          BY <4>2
        <5>2. queue'[p] # <<>> /\ Head(queue'[p]).data = m.data /\ Head(queue'[p]).id \in delivered'
          BY <3>1, <4>2, <4>3
        <5>3. QED
          BY <5>1, <5>2 DEF FrontSent
      <4>5. QED
        BY <3>2, <4>3, <4>4 DEF KnowsFront, RemovePoints
    <3>6. KnowsFront(f)'
      BY <3>4, <3>5
    <3>7. QED
      BY <1>1, <1>3, <3>3, <3>6 DEF ConsumerInv
  <2>5. CASE ~ReadFront(t, f) /\ ~Respond(t, f)
    <3>1. PICK point : /\ pc' = [pc EXCEPT ![f] = point] /\ pc[f] # "respond"
                       /\ point \in RemovePoints => pc[f] \in RemovePoints
                       /\ UNCHANGED <<req, result, pulled>>
      <4>1. CASE PushLock(t, f) \/ PushWall(t, f) \/ PushStore(t, f)
        BY <4>1 DEF PushLock, PushWall, PushStore, Store, At, RemovePoints, clients
      <4>2. CASE PushApply(t, f) \/ (RemoveCheck(t, f) /\ ~Matches(f)) \/ UnlockLoop(t, f)
        BY <4>2 DEF PushApply, RemoveCheck, UnlockLoop, WriteUnlock, CallReaders, At,
                    RemovePoints, clients
      <4>3. CASE ReadBegin(t, f) \/ RemovePeek(t, f)
        BY <4>3 DEF ReadBegin, RemovePeek, ReadUnlock, At, RemovePoints, clients
      <4>4. CASE RemoveBegin(t, f) \/ RemoveLock(t, f) \/ (RemoveCheck(t, f) /\ Matches(f)) \/ RemoveStore(t, f)
        BY <4>4 DEF RemoveBegin, RemoveLock, RemoveCheck, RemoveStore, Store, At, RemovePoints, clients
      <4>5. QED
        BY <1>2, <1>5, <2>5, <4>1, <4>2, <4>3, <4>4 DEF Step
    <3>2. OthersKeep(f) /\ pc'[f] = point /\ result[f] = None
      BY <1>1, <2>2, <3>1 DEF OthersKeep, KnowsFront
    <3>3. \A h \in Fibers \ {f} : KnowsFront(h)'
      BY <2>1, <3>1, <3>2, OthersKnow DEF ConsumerInv
    <3>4. KnowsFront(f)'
      BY <1>1, <2>1, <3>1, <3>2, SelfKnows
    <3>5. QED
      BY <1>1, <1>3, <3>3, <3>4 DEF ConsumerInv
  <2>6. QED
    BY <2>3, <2>4, <2>5
<1>6. QED
  BY <1>4, <1>5

\* The consumer's knowledge stays true.
LEMMA ConsumerStep ==
    ASSUME OneConsumer, TopicInv, ConsumerInv, [Next]_vars
    PROVE  ConsumerInv'
<1>1. ASSUME UNCHANGED <<pc, req, queue, died, result, clients>>
      PROVE  ConsumerInv'
  <2>1. UNCHANGED <<pulled, delivered>>
    BY <1>1 DEF clients
  <2>2. QED
    BY <1>1, <2>1 DEF ConsumerInv, Roles, KnowsFront, FrontSent, Idx
<1>2. QED
  BY <1>1, RequestKnows, StepKnows DEF Next, vars, Resume, clients

\* It is true of nothing at first.
LEMMA ConsumerStart == Init => ConsumerInv
<1> SUFFICES ASSUME Init PROVE ConsumerInv
  OBVIOUS
<1>1. \A f \in Fibers : pc[f] = "idle" /\ result[f] = None /\ pulled[f] = None
  BY DEF Init
<1>2. ~died
  BY DEF Init
<1>3. QED
  BY <1>1, <1>2 DEF ConsumerInv, Roles, KnowsFront, PushPoints, RemovePoints

\* remove never dereferences the null front of an empty partition when one
\* session consumes the topic and deletes only what it has pulled.  FewSessions
\* is what makes an operation on a queue one step, as in the model: by
\* WriterAlone the session that changes a queue is alone with it.  With two
\* pushers beside the consumer it need not be.
THEOREM ConsumerMeetsNoNullFront ==
    ASSUME OneConsumer, FewSessions
    PROVE  Spec => []NoNullFront
<1>1. TopicInv /\ ConsumerInv /\ [Next]_vars => TopicInv' /\ ConsumerInv'
  BY TopicStep, ConsumerStep
<1>2. ConsumerInv => NoNullFront
  BY DEF ConsumerInv, NoNullFront
<1>3. QED
  BY TopicStart, ConsumerStart, <1>1, <1>2, PTL DEF Spec

\* Under the same hypotheses a message leaves its partition only after the
\* consumer has received it, also when responses are lost with their
\* connections.
THEOREM AtLeastOnce ==
    ASSUME OneConsumer, FewSessions
    PROVE  Spec => DeliveredBeforeRemoved
<1>1. TopicInv /\ ConsumerInv /\ [Next]_vars => TopicInv' /\ ConsumerInv'
  BY TopicStep, ConsumerStep
<1>2. ASSUME TopicInv, ConsumerInv, Next,
             NEW p \in Partitions, queue[p] # <<>>, queue'[p] = Tail(queue[p])
      PROVE  Head(queue[p]).id \in delivered
  <2>1. queue \in [Partitions -> Seq(Message)] /\ queue[p] \in Seq(Message)
    BY <1>2 DEF TopicInv, DataTypes
  <2>2. Len(queue'[p]) = Len(queue[p]) - 1 /\ Len(queue[p]) \in Nat
    BY <1>2, <2>1
  <2>3. queue'[p] # queue[p]
    BY <2>2
  <2>4. PICK t \in Threads, f \in Fibers : PushApply(t, f) \/ RemovePop(t, f)
    <3>1. ASSUME NEW f \in Fibers, RequestPush(f) \/ RequestPull(f) \/ RequestDelete(f)
          PROVE  queue' = queue
      BY <3>1 DEF RequestPush, RequestPull, RequestDelete, Start
    <3>2. ASSUME NEW t \in Threads, NEW f \in Fibers, Step(t, f), ~PushApply(t, f), ~RemovePop(t, f)
          PROVE  queue' = queue
      BY <3>2 DEF Step, PushLock, PushWall, PushStore, ReadBegin, ReadFront, RemoveBegin,
           NullFront, RemovePeek, RemoveLock, RemoveCheck, RemoveStore, UnlockLoop, Respond, Store
    <3>3. ASSUME NEW t \in Threads, NEW f \in Fibers, Resume(t, f)
          PROVE  queue' = queue
      BY <3>3 DEF Resume
    <3>4. QED
      BY <1>2, <2>3, <3>1, <3>2, <3>3 DEF Next
  <2>5. pc[f] \in {"push_apply", "remove_pop"}
    BY <2>4 DEF PushApply, RemovePop, At
  <2>6. PICK q \in Partitions : q = Idx(f)
    BY <1>2, <2>5, IdxPartition DEF TopicInv, ControlInv
  <2>7. p = q
    BY <2>1, <2>3, <2>4, <2>6 DEF PushApply, RemovePop
  <2>8. CASE PushApply(t, f)
    <3> DEFINE x == [id |-> req[f].id, data |-> req[f].data]
    <3>1. queue' = [queue EXCEPT ![p] = Append(queue[p], x)] /\ pc[f] = "push_apply"
      BY <2>6, <2>7, <2>8 DEF PushApply, At
    <3>2. x \in Message
      BY <1>2, <3>1 DEF TopicInv, ControlInv, ControlTypes, RequestFits, PushPoints, Message
    <3> HIDE DEF x
    <3>3. Len(queue'[p]) = Len(queue[p]) + 1
      BY <2>1, <3>1, <3>2
    <3>4. QED
      BY <2>2, <3>3
  <2>9. CASE RemovePop(t, f)
    <3>1. pc[f] = "remove_pop"
      BY <2>9 DEF RemovePop, At
    <3>2. FrontSent(Idx(f), req[f].data)
      BY <1>2, <3>1 DEF ConsumerInv, KnowsFront, RemovePoints
    <3>3. QED
      BY <2>6, <2>7, <3>2 DEF FrontSent
  <2>10. QED
    BY <2>4, <2>8, <2>9
<1>3. ASSUME TopicInv, UNCHANGED vars, NEW p \in Partitions, queue[p] # <<>>
      PROVE  queue'[p] # Tail(queue[p])
  <2>1. queue[p] \in Seq(Message) /\ queue' = queue
    BY <1>3 DEF TopicInv, DataTypes, vars
  <2>2. Len(Tail(queue[p])) = Len(queue[p]) - 1 /\ Len(queue[p]) \in Nat
    BY <1>3, <2>1
  <2>3. Len(Tail(queue[p])) # Len(queue[p])
    BY <2>2
  <2>4. QED
    BY <2>1, <2>3
<1>4. TopicInv /\ ConsumerInv /\ [Next]_vars =>
         [\A p \in Partitions :
             queue[p] # <<>> /\ queue'[p] = Tail(queue[p]) => Head(queue[p]).id \in delivered]_vars
  BY <1>2, <1>3
<1>5. QED
  BY TopicStart, ConsumerStart, <1>1, <1>4, PTL DEF Spec, DeliveredBeforeRemoved

-----------------------------------------------------------------------------
(* The file and the queues                                                 *)
(*                                                                         *)
(* Where exclusion holds, a partition's writer is the only one to log and  *)
(* to apply an operation, so the file is never ahead by more than one, and *)
(* what remove compared is still the front when it logs the removal.       *)

Rank(S, j) == Cardinality({h \in S : h <= j})

\* The places in S are numbered without a gap.
Ranked(S) == \A k \in 1..Cardinality(S) : \E i \in S : Rank(S, i) = k

\* The k-th place is a place.
LEMMA NthIn ==
    ASSUME NEW S, Ranked(S), NEW k \in 1..Cardinality(S)
    PROVE  Nth(S, k) \in S
<1>1. PICK i \in S : Rank(S, i) = k
  BY DEF Ranked
<1>2. i \in {j \in S : Cardinality({h \in S : h <= j}) = k}
  BY <1>1 DEF Rank
<1>3. Nth(S, k) \in {j \in S : Cardinality({h \in S : h <= j}) = k}
  BY <1>2 DEF Nth
<1>4. QED
  BY <1>3

\* A record is added to the file: it is the last of its kind.
LEMMA NthGrows ==
    ASSUME NEW n \in Nat, NEW S \in SUBSET (1..n), Ranked(S)
    PROVE  LET T == S \cup {n + 1}
           IN  /\ Cardinality(S) \in Nat /\ Cardinality(T) = Cardinality(S) + 1 /\ Ranked(T)
               /\ \A k \in 1..Cardinality(S) : Nth(T, k) = Nth(S, k)
               /\ Nth(T, Cardinality(S) + 1) = n + 1
<1> DEFINE T == S \cup {n + 1}
           c == Cardinality(S)
<1>1. IsFiniteSet(S) /\ c \in Nat
  <2>1. IsFiniteSet(1..n)
    BY FS_Interval
  <2>2. IsFiniteSet(S)
    BY <2>1, FS_Subset
  <2>3. QED
    BY <2>2, FS_CardinalityType
<1>2. n + 1 \notin S /\ Cardinality(T) = c + 1
  <2>1. n + 1 \notin S
    OBVIOUS
  <2>2. QED
    BY <1>1, <2>1, FS_AddElement
<1>3. \A i \in S : Rank(T, i) = Rank(S, i) /\ Rank(S, i) \in Nat /\ Rank(S, i) <= c
  <2>1. ASSUME NEW i \in S
        PROVE  Rank(T, i) = Rank(S, i) /\ Rank(S, i) \in Nat /\ Rank(S, i) <= c
    <3>1. i \in 1..n /\ ~(n + 1 <= i)
      OBVIOUS
    <3>2. {h \in T : h <= i} = {h \in S : h <= i}
      BY <3>1
    <3>3. {h \in S : h <= i} \in SUBSET S
      OBVIOUS
    <3>4. IsFiniteSet({h \in S : h <= i}) /\ Cardinality({h \in S : h <= i}) <= c
      BY <1>1, <3>3, FS_Subset
    <3>5. QED
      BY <3>2, <3>4, FS_CardinalityType DEF Rank
  <2>2. QED
    BY <2>1
<1>4. Rank(T, n + 1) = c + 1
  <2>1. {h \in T : h <= n + 1} = T
    <3>1. \A h \in T : h <= n + 1
      OBVIOUS
    <3>2. QED
      BY <3>1
  <2>2. QED
    BY <1>2, <2>1 DEF Rank
<1>5. ASSUME NEW k \in 1..c
      PROVE  Nth(T, k) = Nth(S, k)
  <2>1. {j \in T : Rank(T, j) = k} = {j \in S : Rank(S, j) = k}
    <3>1. k # c + 1
      BY <1>1
    <3>2. \A j : j \in T <=> j \in S \/ j = n + 1
      OBVIOUS
    <3> HIDE DEF T, c
    <3>3. QED
      BY <1>3, <1>4, <3>1, <3>2
  <2>2. QED
    BY <2>1 DEF Nth, Rank
<1>6. Nth(T, c + 1) = n + 1
  <2>1. {j \in T : Rank(T, j) = c + 1} = {n + 1}
    <3>1. \A j \in S : Rank(S, j) # c + 1
      BY <1>1, <1>3
    <3>2. \A j : j \in T <=> j \in S \/ j = n + 1
      OBVIOUS
    <3> HIDE DEF T, c
    <3>3. QED
      BY <1>3, <1>4, <3>1, <3>2
  <2>2. QED
    BY <2>1 DEF Nth, Rank
<1>7. Ranked(T)
  <2>1. ASSUME NEW k \in 1..(c + 1)
        PROVE  \E i \in T : Rank(T, i) = k
    <3>1. CASE k = c + 1
      BY <1>4, <3>1
    <3>2. CASE k # c + 1
      <4>1. k \in 1..c
        BY <1>1, <3>2
      <4>2. QED
        BY <1>3, <4>1 DEF Ranked
    <3>3. QED
      BY <3>1, <3>2
  <2>2. QED
    BY <1>2, <2>1 DEF Ranked
<1>8. QED
  BY <1>1, <1>2, <1>5, <1>6, <1>7

\* The removals of partition p are those of its first pushes.
LogInv(p) ==
    /\ Ranked(PushesOf(p)) /\ Ranked(PopsOf(p))
    /\ Cardinality(PopsOf(p)) <= Cardinality(PushesOf(p))
    /\ \A k \in 1..Cardinality(PopsOf(p)) :
          wall[Nth(PopsOf(p), k)].about.data = wall[Nth(PushesOf(p), k)].about.data

\* The places of a partition's records.
LEMMA Places ==
    ASSUME wall \in Seq(Record), NEW p
    PROVE  /\ Len(wall) \in Nat
           /\ PushesOf(p) \in SUBSET (1..Len(wall)) /\ PopsOf(p) \in SUBSET (1..Len(wall))
           /\ Cardinality(PushesOf(p)) \in Nat /\ Cardinality(PopsOf(p)) \in Nat
<1>1. Len(wall) \in Nat /\ DOMAIN wall = 1..Len(wall)
  OBVIOUS
<1>2. PushesOf(p) \in SUBSET (1..Len(wall)) /\ PopsOf(p) \in SUBSET (1..Len(wall))
  BY <1>1 DEF PushesOf, PopsOf
<1>3. IsFiniteSet(1..Len(wall))
  BY <1>1, FS_Interval
<1>4. IsFiniteSet(PushesOf(p)) /\ IsFiniteSet(PopsOf(p))
  BY <1>2, <1>3, FS_Subset
<1>5. QED
  BY <1>1, <1>2, <1>4, FS_CardinalityType

\* What store() does to them.
LEMMA StorePlaces ==
    ASSUME wall \in Seq(Record), NEW r \in Record, wall' = Append(wall, r), NEW p
    PROVE  /\ \A i \in 1..Len(wall) : wall'[i] = wall[i]
           /\ wall'[Len(wall) + 1] = r
           /\ PushesOf(p)' = IF r.identifier = p /\ r.is_push_operation
                             THEN PushesOf(p) \cup {Len(wall) + 1} ELSE PushesOf(p)
           /\ PopsOf(p)' = IF r.identifier = p /\ ~r.is_push_operation
                           THEN PopsOf(p) \cup {Len(wall) + 1} ELSE PopsOf(p)
<1>1. /\ Len(wall) \in Nat /\ DOMAIN wall = 1..Len(wall)
      /\ \A i \in 1..Len(wall) : wall'[i] = wall[i]
      /\ wall'[Len(wall) + 1] = r
      /\ DOMAIN wall' = 1..(Len(wall) + 1)
  OBVIOUS
<1>2. \A i : i \in DOMAIN wall' <=> i \in DOMAIN wall \/ i = Len(wall) + 1
  BY <1>1
<1>3. Len(wall) + 1 \notin DOMAIN wall
  BY <1>1
<1>4. QED
  BY <1>1, <1>2, <1>3 DEF PushesOf, PopsOf

\* The file, when a record of another partition or nothing is added.
LEMMA ReplayElsewhere ==
    ASSUME wall \in Seq(Record), NEW p, LogInv(p),
           \/ wall' = wall
           \/ \E r \in Record : wall' = Append(wall, r) /\ r.identifier # p
    PROVE  LogInv(p)' /\ Replay(p)' = Replay(p)
<1>1. CASE wall' = wall
  BY <1>1 DEF LogInv, Replay, PushesOf, PopsOf
<1>2. CASE wall' # wall
  <2>1. PICK r \in Record : wall' = Append(wall, r) /\ r.identifier # p
    BY <1>2
  <2>2. /\ \A i \in 1..Len(wall) : wall'[i] = wall[i]
        /\ PushesOf(p)' = PushesOf(p) /\ PopsOf(p)' = PopsOf(p)
    BY <2>1, StorePlaces
  <2> DEFINE c == Cardinality(PushesOf(p))
             d == Cardinality(PopsOf(p))
  <2>3. c \in Nat /\ d \in Nat /\ d <= c
    BY Places DEF LogInv
  <2>4. \A k \in 1..c : wall'[Nth(PushesOf(p), k)] = wall[Nth(PushesOf(p), k)]
    BY <2>2, Places, NthIn DEF LogInv
  <2>5. \A k \in 1..d : wall'[Nth(PopsOf(p), k)] = wall[Nth(PopsOf(p), k)]
    BY <2>2, Places, NthIn DEF LogInv
  <2>6. \A k \in 1..(c - d) : d + k \in 1..c
    BY <2>3
  <2>7. Replay(p)' = Replay(p)
    BY <2>2, <2>4, <2>6 DEF Replay
  <2>8. \A k \in 1..d : k \in 1..c
    BY <2>3
  <2>9. LogInv(p)'
    BY <2>2, <2>4, <2>5, <2>8 DEF LogInv
  <2>10. QED
    BY <2>7, <2>9
<1>3. QED
  BY <1>1, <1>2

\* What a record is about.
About == [id : 0..MaxPush, data : Data]

\* The replayed queue is one.
LEMMA ReplayQueue ==
    ASSUME wall \in Seq(Record), NEW p, LogInv(p)
    PROVE  /\ Replay(p) \in Seq(About)
           /\ Len(Replay(p)) = Cardinality(PushesOf(p)) - Cardinality(PopsOf(p))
<1> DEFINE c == Cardinality(PushesOf(p))
           d == Cardinality(PopsOf(p))
<1>1. c \in Nat /\ d \in Nat /\ c - d \in Nat
  BY Places DEF LogInv
<1>2. \A k \in 1..(c - d) : d + k \in 1..c
  BY <1>1
<1>3. \A k \in 1..c : wall[Nth(PushesOf(p), k)].about \in About
  <2>1. \A i \in 1..Len(wall) : wall[i] \in Record
    OBVIOUS
  <2>2. \A k \in 1..c : Nth(PushesOf(p), k) \in 1..Len(wall)
    BY Places, NthIn DEF LogInv
  <2>3. QED
    BY <2>1, <2>2 DEF Record, About
<1>4. Replay(p) = [k \in 1..(c - d) |-> wall[Nth(PushesOf(p), d + k)].about]
  BY DEF Replay
<1> HIDE DEF c, d
<1>5. Replay(p) \in [1..(c - d) -> About]
  BY <1>2, <1>3, <1>4 DEF c, d
<1>6. QED
  BY <1>1, <1>5 DEF c, d

\* One more element at the end of what is left of F, ...
LEMMA LeftGrows ==
    ASSUME NEW A, NEW c \in Nat, NEW d \in Nat, d <= c,
           NEW e, e = c + 1,
           NEW F \in [1..c -> A], NEW G \in [1..e -> A], \A k \in 1..c : G[k] = F[k]
    PROVE  [k \in 1..(e - d) |-> G[d + k]] = Append([k \in 1..(c - d) |-> F[d + k]], G[e])
<1> DEFINE R == [k \in 1..(c - d) |-> F[d + k]]
           Q == [k \in 1..(e - d) |-> G[d + k]]
           a == Append(R, G[e])
<1>1. c - d \in Nat /\ e - d = c - d + 1 /\ d + (e - d) = e /\ e \in 1..e
  OBVIOUS
<1>2. \A k \in 1..(c - d) : d + k \in 1..c /\ R[k] = F[d + k]
  BY <1>1
<1>3. R \in Seq(A) /\ Len(R) = c - d /\ G[e] \in A
  <2>1. R \in [1..(c - d) -> A]
    BY <1>2
  <2> HIDE DEF R
  <2>2. QED
    BY <1>1, <2>1
<1> HIDE DEF R
<1>4. /\ Len(a) = c - d + 1 /\ DOMAIN a = 1..(c - d + 1) /\ a = [k \in 1..(c - d + 1) |-> a[k]]
      /\ \A k \in 1..(c - d) : a[k] = R[k]
      /\ a[c - d + 1] = G[e]
  BY <1>3
<1>5. ASSUME NEW k \in 1..(e - d)
      PROVE  Q[k] = a[k]
  <2>1. CASE k = e - d
    BY <1>1, <1>4, <2>1
  <2>2. CASE k # e - d
    <3>1. k \in 1..(c - d)
      BY <1>1, <2>2
    <3>2. QED
      BY <1>2, <1>4, <3>1
  <2>3. QED
    BY <2>1, <2>2
<1> HIDE DEF a
<1>6. Q = a
  BY <1>1, <1>4, <1>5
<1>7. QED
  BY <1>6 DEF a, R

\* What is left of a sequence without its front.
LEMMA TailMembers ==
    ASSUME NEW A, NEW q \in Seq(A), q # <<>>
    PROVE  /\ Tail(q) \in Seq(A) /\ Len(Tail(q)) = Len(q) - 1 /\ DOMAIN Tail(q) = 1..Len(Tail(q))
           /\ \A k \in 1..Len(Tail(q)) : Tail(q)[k] = q[k + 1]
OBVIOUS

\* ... and one less in front.
LEMMA LeftShrinks ==
    ASSUME NEW A, NEW c \in Nat, NEW d \in Nat, d < c, NEW F \in [1..c -> A]
    PROVE  LET R == [k \in 1..(c - d) |-> F[d + k]]
           IN  /\ R \in Seq(A) /\ R # <<>> /\ Head(R) = F[d + 1]
               /\ [k \in 1..(c - (d + 1)) |-> F[d + 1 + k]] = Tail(R)
<1> DEFINE R == [k \in 1..(c - d) |-> F[d + k]]
           Q == [k \in 1..(c - (d + 1)) |-> F[d + 1 + k]]
           b == Tail(R)
<1>1. c - d \in Nat /\ c - (d + 1) = c - d - 1 /\ c - d - 1 \in Nat /\ 1 \in 1..(c - d)
  OBVIOUS
<1>2. \A k \in 1..(c - d) : d + k \in 1..c /\ R[k] = F[d + k]
  BY <1>1
<1>3. R \in Seq(A) /\ Len(R) = c - d
  <2>1. R \in [1..(c - d) -> A]
    BY <1>2
  <2> HIDE DEF R
  <2>2. QED
    BY <1>1, <2>1
<1>4. Q = [k \in 1..(c - d - 1) |-> F[d + 1 + k]]
  BY <1>1
<1>5. R[1] = F[d + 1]
  BY <1>1, <1>2
<1> HIDE DEF R, Q
<1>6. R # <<>> /\ Head(R) = R[1]
  BY <1>1, <1>3
<1>7. /\ Len(b) = c - d - 1 /\ DOMAIN b = 1..(c - d - 1) /\ b = [k \in 1..(c - d - 1) |-> b[k]]
      /\ \A k \in 1..(c - d - 1) : b[k] = R[k + 1]
  <2>1. /\ b \in Seq(A) /\ Len(b) = Len(R) - 1 /\ DOMAIN b = 1..Len(b)
        /\ \A k \in 1..Len(b) : b[k] = R[k + 1]
    BY <1>3, <1>6, TailMembers
  <2> HIDE DEF b
  <2>2. b = [k \in 1..Len(b) |-> b[k]]
    BY <2>1
  <2>3. Len(b) = c - d - 1
    BY <1>1, <1>3, <2>1
  <2>4. QED
    BY <2>1, <2>2, <2>3
<1>8. ASSUME NEW k \in 1..(c - d - 1)
      PROVE  Q[k] = b[k]
  <2>1. k + 1 \in 1..(c - d) /\ d + (k + 1) = d + 1 + k
    BY <1>1
  <2>2. QED
    BY <1>2, <1>4, <1>7, <2>1
<1> HIDE DEF b
<1>9. Q = b
  BY <1>4, <1>7, <1>8
<1>10. QED
  BY <1>3, <1>5, <1>6, <1>9 DEF R, Q, b

\* A push is logged: its message joins the replayed queue.
LEMMA ReplayPush ==
    ASSUME wall \in Seq(Record), NEW p, LogInv(p), NEW r \in Record, wall' = Append(wall, r),
           r.identifier = p, r.is_push_operation
    PROVE  LogInv(p)' /\ Replay(p)' = Append(Replay(p), r.about)
<1>1. PICK n, S, X, c, d : n = Len(wall) /\ S = PushesOf(p) /\ X = PopsOf(p)
                           /\ c = Cardinality(S) /\ d = Cardinality(X)
  OBVIOUS
<1>2. PICK T : T = S \cup {n + 1}
  OBVIOUS
<1>w. PICK w : w = wall'
  OBVIOUS
<1>3. /\ \A i \in 1..n : w[i] = wall[i] /\ wall[i] \in Record
      /\ w[n + 1] = r
      /\ PushesOf(p)' = T /\ PopsOf(p)' = X
  BY <1>1, <1>2, <1>w, StorePlaces
<1>4. n \in Nat /\ S \in SUBSET (1..n) /\ X \in SUBSET (1..n) /\ c \in Nat /\ d \in Nat
  BY <1>1, Places
<1>5. d <= c /\ Ranked(S) /\ Ranked(X)
      /\ \A k \in 1..d : wall[Nth(X, k)].about.data = wall[Nth(S, k)].about.data
  BY <1>1 DEF LogInv
<1>6. /\ Cardinality(T) = c + 1 /\ Ranked(T) /\ Nth(T, c + 1) = n + 1
      /\ \A k \in 1..c : Nth(T, k) = Nth(S, k)
  BY <1>1, <1>2, <1>4, <1>5, NthGrows, ZenonT(60)
<1>7. \A k \in 1..c : w[Nth(T, k)] = wall[Nth(S, k)] /\ wall[Nth(S, k)] \in Record
  BY <1>1, <1>3, <1>4, <1>5, <1>6, NthIn
<1>8. \A k \in 1..d : w[Nth(X, k)] = wall[Nth(X, k)]
  BY <1>1, <1>3, <1>4, <1>5, NthIn
<1>9. LogInv(p)'
  <2>1. d <= c + 1 /\ \A k \in 1..d : k \in 1..c
    BY <1>4, <1>5
  <2>2. \A k \in 1..d : w[Nth(X, k)].about.data = w[Nth(T, k)].about.data
    BY <1>5, <1>7, <1>8, <2>1
  <2>3. /\ Cardinality(PushesOf(p)') = c + 1 /\ Cardinality(PopsOf(p)') = d
        /\ PushesOf(p)' = T /\ PopsOf(p)' = X
    BY <1>1, <1>3, <1>6
  <2>4. QED
    BY <1>w, <1>5, <1>6, <2>1, <2>2, <2>3 DEF LogInv
<1>e. PICK e : e = c + 1
  OBVIOUS
<1> DEFINE F == [k \in 1..c |-> wall[Nth(S, k)].about]
           G == [k \in 1..e |-> w[Nth(T, k)].about]
<1>10. Replay(p)' = [k \in 1..(e - d) |-> w[Nth(T, d + k)].about]
  <2>1. Cardinality(PushesOf(p)') = e /\ Cardinality(PopsOf(p)') = d /\ PushesOf(p)' = T
    BY <1>1, <1>3, <1>6, <1>e
  <2>2. QED
    BY <1>w, <2>1 DEF Replay
<1>11. Replay(p) = [k \in 1..(c - d) |-> wall[Nth(S, d + k)].about]
  BY <1>1 DEF Replay
<1>12. \A k \in 1..(c - d) : d + k \in 1..c
  BY <1>4, <1>5
<1>13. \A k \in 1..(e - d) : d + k \in 1..e
  BY <1>e, <1>4, <1>5
<1>14. Replay(p)' = [k \in 1..(e - d) |-> G[d + k]] /\ Replay(p) = [k \in 1..(c - d) |-> F[d + k]]
  BY <1>10, <1>11, <1>12, <1>13
<1>15. e \in 1..e /\ \A k \in 1..e : k \in 1..c \/ k = e
  BY <1>e, <1>4
<1>16. F \in [1..c -> About] /\ G \in [1..e -> About] /\ G[e] = r.about
       /\ \A k \in 1..c : G[k] = F[k]
  <2>1. \A k \in 1..c : k \in 1..e /\ wall[Nth(S, k)].about \in About
                        /\ w[Nth(T, k)].about = wall[Nth(S, k)].about
    BY <1>e, <1>4, <1>7 DEF Record, About
  <2>2. w[Nth(T, e)].about = r.about /\ r.about \in About
    BY <1>e, <1>3, <1>6 DEF Record, About
  <2>3. QED
    BY <1>15, <2>1, <2>2
<1> HIDE DEF F, G
<1>17. Replay(p)' = Append(Replay(p), r.about)
  BY <1>e, <1>4, <1>5, <1>14, <1>16, LeftGrows
<1>18. QED
  BY <1>9, <1>17

\* A removal is logged: the replayed queue loses its front.
LEMMA ReplayPop ==
    ASSUME wall \in Seq(Record), NEW p, LogInv(p), NEW r \in Record, wall' = Append(wall, r),
           r.identifier = p, ~r.is_push_operation,
           Replay(p) # <<>>, r.about.data = Head(Replay(p)).data
    PROVE  LogInv(p)' /\ Replay(p)' = Tail(Replay(p))
<1>1. PICK n, S, X, c, d : n = Len(wall) /\ S = PushesOf(p) /\ X = PopsOf(p)
                           /\ c = Cardinality(S) /\ d = Cardinality(X)
  OBVIOUS
<1>2. PICK T : T = X \cup {n + 1}
  OBVIOUS
<1>w. PICK w : w = wall'
  OBVIOUS
<1>3. /\ \A i \in 1..n : w[i] = wall[i] /\ wall[i] \in Record
      /\ w[n + 1] = r
      /\ PushesOf(p)' = S /\ PopsOf(p)' = T
  BY <1>1, <1>2, <1>w, StorePlaces
<1>4. n \in Nat /\ S \in SUBSET (1..n) /\ X \in SUBSET (1..n) /\ c \in Nat /\ d \in Nat
  BY <1>1, Places
<1>5. d <= c /\ Ranked(S) /\ Ranked(X)
      /\ \A k \in 1..d : wall[Nth(X, k)].about.data = wall[Nth(S, k)].about.data
  BY <1>1 DEF LogInv
<1>6. /\ Cardinality(T) = d + 1 /\ Ranked(T) /\ Nth(T, d + 1) = n + 1
      /\ \A k \in 1..d : Nth(T, k) = Nth(X, k)
  BY <1>1, <1>2, <1>4, <1>5, NthGrows, ZenonT(60)
<1>7. \A k \in 1..d : w[Nth(T, k)] = wall[Nth(X, k)]
  BY <1>1, <1>3, <1>4, <1>5, <1>6, NthIn
<1>8. \A k \in 1..c : w[Nth(S, k)] = wall[Nth(S, k)] /\ wall[Nth(S, k)] \in Record
  BY <1>1, <1>3, <1>4, <1>5, NthIn
<1>9. Len(Replay(p)) = c - d /\ Replay(p) \in Seq(About)
  BY <1>1, ReplayQueue
<1>10. d < c /\ d + 1 <= c /\ d + 1 \in 1..c
  <2>1. Len(Replay(p)) > 0
    BY <1>9
  <2>2. c - d > 0
    BY <1>9, <2>1
  <2>3. QED
    BY <1>4, <2>2
<1> DEFINE F == [k \in 1..c |-> wall[Nth(S, k)].about]
<1>11. Replay(p)' = [k \in 1..(c - (d + 1)) |-> F[d + 1 + k]]
  <2>1. Replay(p)' = [k \in 1..(c - (d + 1)) |-> w[Nth(S, d + 1 + k)].about]
    BY <1>1, <1>w, <1>3, <1>6 DEF Replay
  <2>2. \A k \in 1..(c - (d + 1)) : d + 1 + k \in 1..c
    BY <1>4
  <2>3. QED
    BY <1>8, <2>1, <2>2
<1>12. Replay(p) = [k \in 1..(c - d) |-> F[d + k]]
  <2>1. Replay(p) = [k \in 1..(c - d) |-> wall[Nth(S, d + k)].about]
    BY <1>1 DEF Replay
  <2>2. \A k \in 1..(c - d) : d + k \in 1..c
    BY <1>4
  <2>3. QED
    BY <2>1, <2>2
<1>13. F \in [1..c -> About] /\ F[d + 1] = wall[Nth(S, d + 1)].about
  BY <1>8, <1>10 DEF Record, About
<1> HIDE DEF F
<1>14. Replay(p)' = Tail(Replay(p)) /\ Head(Replay(p)) = F[d + 1]
  BY <1>4, <1>10, <1>11, <1>12, <1>13, LeftShrinks, SMTT(60)
<1>15. LogInv(p)'
  <2>1. ASSUME NEW k \in 1..(d + 1)
        PROVE  w[Nth(T, k)].about.data = w[Nth(S, k)].about.data
    <3>1. CASE k = d + 1
      BY <1>3, <1>6, <1>8, <1>10, <1>13, <1>14, <3>1
    <3>2. CASE k # d + 1
      <4>1. k \in 1..d /\ k \in 1..c
        BY <1>4, <1>5, <3>2
      <4>2. QED
        BY <1>5, <1>7, <1>8, <4>1
    <3>3. QED
      BY <3>1, <3>2
  <2>2. /\ Cardinality(PushesOf(p)') = c /\ Cardinality(PopsOf(p)') = d + 1
        /\ PushesOf(p)' = S /\ PopsOf(p)' = T
    BY <1>1, <1>3, <1>6
  <2>3. QED
    BY <1>w, <1>5, <1>6, <1>10, <2>1, <2>2 DEF LogInv
<1>16. QED
  BY <1>14, <1>15

\* The points at which the file or what f has seen of the queue matters.
HotPoints == {"push_apply", "remove_store", "remove_pop"}

Hot(f, p) == pc[f] \in HotPoints /\ Idx(f) = p

\* The file and queue of partition p fit what session f is doing there.
FileFits(f, p) ==
    /\ pc[f] \notin HotPoints => Replay(p) = queue[p]
    /\ pc[f] = "push_apply" =>
          Replay(p) = Append(queue[p], [id |-> req[f].id, data |-> req[f].data])
    /\ pc[f] = "remove_store" =>
          Replay(p) = queue[p] /\ queue[p] # <<>> /\ Head(queue[p]).data = req[f].data
    /\ pc[f] = "remove_pop" => Replay(p) = Tail(queue[p]) /\ queue[p] # <<>>

\* They fit what anybody does, and nobody's doing anything.
QueueInv(p) ==
    /\ LogInv(p)
    /\ \A f \in Fibers : Hot(f, p) => FileFits(f, p)
    /\ (\A f \in Fibers : ~Hot(f, p)) => Replay(p) = queue[p]

\* Nobody but the writer f is at such a point.
LEMMA OthersCold ==
    ASSUME ControlInv, Exclusive, NEW p \in Partitions, NEW f \in Fibers, ~AtRest(f),
           pc[f] \in WritePoints, Idx(f) = p, NEW h \in Fibers \ {f}
    PROVE  ~Hot(h, p)
<1>1. SUFFICES ASSUME pc[h] \in HotPoints, Idx(h) = p PROVE FALSE
  BY DEF Hot
<1>2. f \in WritersOf(p)
  <2>1. f \notin WaitWrite(p)
    BY BusyUnqueued
  <2>2. QED
    BY <2>1 DEF WritersOf, WritePoints, WriteQueued, WaitWrite
<1>3. h \in WritersOf(p)
  <2>1. h \notin WaitWrite(p)
    BY <1>1 DEF ControlInv, PartitionInv, HotPoints, WriteLockPoints
  <2>2. QED
    BY <1>1, <2>1 DEF WritersOf, HotPoints, WriteQueued, WaitWrite
<1>4. QED
  BY <1>2, <1>3 DEF Exclusive, ExclInv

\* A step of f that is at no such point of partition q leaves it alone.
LEMMA QueueKept ==
    ASSUME wall \in Seq(Record), NEW q \in Partitions, QueueInv(q),
           NEW f \in Fibers, OthersKeep(f), ~Hot(f, q), ~Hot(f, q)',
           queue'[q] = queue[q],
           \/ wall' = wall
           \/ \E r \in Record : wall' = Append(wall, r) /\ r.identifier # q
    PROVE  QueueInv(q)'
<1>1. LogInv(q)' /\ Replay(q)' = Replay(q)
  BY ReplayElsewhere DEF QueueInv
<1>2. \A h \in Fibers \ {f} : /\ pc'[h] = pc[h] /\ req'[h] = req[h] /\ Idx(h)' = Idx(h)
                              /\ Hot(h, q)' <=> Hot(h, q)
  BY DEF OthersKeep, Idx, Hot
<1>3. \A h \in Fibers : Hot(h, q)' <=> Hot(h, q)
  BY <1>2
<1>4. ASSUME NEW h \in Fibers, Hot(h, q)'
      PROVE  FileFits(h, q)'
  <2>1. h # f /\ Hot(h, q) /\ FileFits(h, q)
    BY <1>3, <1>4 DEF QueueInv
  <2>2. QED
    BY <1>1, <1>2, <2>1 DEF FileFits
<1>5. (\A h \in Fibers : ~Hot(h, q)') => Replay(q)' = queue'[q]
  BY <1>1, <1>3 DEF QueueInv
<1>6. QED
  BY <1>1, <1>4, <1>5 DEF QueueInv

\* Before a step of the partition's writer f, file and queue fit what f does, ...
LEMMA WriterBefore ==
    ASSUME NEW p \in Partitions, QueueInv(p), NEW f \in Fibers, Idx(f) = p,
           \A h \in Fibers \ {f} : ~Hot(h, p)
    PROVE  FileFits(f, p)
<1>1. CASE pc[f] \in HotPoints
  BY <1>1 DEF QueueInv, Hot
<1>2. CASE pc[f] \notin HotPoints
  <2>1. \A h \in Fibers : ~Hot(h, p)
    BY <1>2 DEF Hot
  <2>2. QED
    BY <1>2, <2>1 DEF QueueInv, FileFits, HotPoints
<1>3. QED
  BY <1>1, <1>2

\* ... and if they do so after it, the invariant holds again.
LEMMA WriterAfter ==
    ASSUME NEW p \in Partitions, LogInv(p)', NEW f \in Fibers, OthersKeep(f), Idx(f)' = p,
           \A h \in Fibers \ {f} : ~Hot(h, p),
           FileFits(f, p)'
    PROVE  QueueInv(p)'
<1>1. \A h \in Fibers \ {f} : ~Hot(h, p)'
  BY DEF OthersKeep, Hot, Idx
<1>2. (\A h \in Fibers : ~Hot(h, p)') => Replay(p)' = queue'[p]
  BY DEF Hot, FileFits
<1>3. \A h \in Fibers : Hot(h, p)' => FileFits(h, p)'
  BY <1>1
<1>4. QED
  BY <1>2, <1>3 DEF QueueInv

Files == \A p \in Partitions : QueueInv(p)

\* A step that neither logs nor applies anything.
LEMMA ColdStep ==
    ASSUME wall \in Seq(Record), Files, NEW f \in Fibers, OthersKeep(f), UNCHANGED <<queue, wall>>,
           pc[f] \notin HotPoints, pc'[f] \notin HotPoints
    PROVE  Files'
<1>1. ASSUME NEW q \in Partitions
      PROVE  QueueInv(q)'
  <2>1. ~Hot(f, q) /\ ~Hot(f, q)'
    BY DEF Hot
  <2>2. QED
    BY <2>1, QueueKept DEF Files
<1>2. QED
  BY <1>1 DEF Files

\* A step of partition p's writer f.
LEMMA WriterStep ==
    ASSUME ControlInv, Exclusive, wall \in Seq(Record), Files, NEW f \in Fibers, ~AtRest(f),
           NEW p \in Partitions, p = Idx(f), pc[f] \in WritePoints,
           OthersKeep(f), Idx(f)' = p, \A q \in Partitions \ {p} : queue'[q] = queue[q],
           \/ wall' = wall
           \/ \E r \in Record : wall' = Append(wall, r) /\ r.identifier = p,
           FileFits(f, p) => LogInv(p)' /\ FileFits(f, p)'
    PROVE  Files'
<1>1. \A h \in Fibers \ {f} : ~Hot(h, p)
  BY OthersCold
<1>2. FileFits(f, p)
  BY <1>1, WriterBefore DEF Files
<1>3. QueueInv(p)'
  BY <1>1, <1>2, WriterAfter
<1>4. ASSUME NEW q \in Partitions, q # p
      PROVE  QueueInv(q)'
  <2>1. ~Hot(f, q) /\ ~Hot(f, q)'
    BY <1>4 DEF Hot
  <2>2. wall' = wall \/ \E r \in Record : wall' = Append(wall, r) /\ r.identifier # q
    BY <1>4
  <2>3. QED
    BY <1>4, <2>1, <2>2, QueueKept DEF Files
<1>5. QED
  BY <1>3, <1>4 DEF Files

\* A push or a removal is logged.
LEMMA StoreFiles ==
    ASSUME TopicInv, Exclusive, Files, NEW t \in Threads, NEW f \in Fibers,
           PushStore(t, f) \/ RemoveStore(t, f)
    PROVE  Files'
<1>1. PICK push \in BOOLEAN, point \in {"push_apply", "remove_pop"} :
         /\ Running(t, f) /\ pc[f] = (IF push THEN "push_store" ELSE "remove_store")
         /\ point = (IF push THEN "push_apply" ELSE "remove_pop")
         /\ pc' = [pc EXCEPT ![f] = point] /\ UNCHANGED <<req, queue>>
         /\ wall' = Append(wall, [identifier |-> Idx(f), is_push_operation |-> push, message |-> f,
                                  about |-> [id |-> req[f].id, data |-> req[f].data]])
  <2>1. CASE PushStore(t, f)
    BY <2>1 DEF PushStore, Store, At
  <2>2. CASE RemoveStore(t, f)
    BY <2>2 DEF RemoveStore, Store, At
  <2>3. QED
    BY <2>1, <2>2
<1>2. ControlInv /\ ControlTypes /\ ExecTypeOK /\ wall \in Seq(Record) /\ pc \in [Fibers -> PCs]
  BY DEF TopicInv, ControlInv, ControlTypes, DataTypes
<1>3. PICK p \in Partitions : p = Idx(f)
  BY <1>1, <1>2, IdxPartition
<1>4. PICK x : x = [id |-> req[f].id, data |-> req[f].data]
  OBVIOUS
<1>5. PICK r : r = [identifier |-> p, is_push_operation |-> push, message |-> f, about |-> x]
  OBVIOUS
<1>6. /\ r.identifier = p /\ r.is_push_operation = push /\ r.about = x /\ x.data = req[f].data
      /\ wall' = Append(wall, r)
  BY <1>1, <1>3, <1>4, <1>5
<1>7. r \in Record
  <2>1. req[f] \in Request /\ req[f].data \in Data
    BY <1>1, <1>2 DEF ControlTypes, RequestFits, PushPoints, RemovePoints
  <2>2. x \in [id : 0..MaxPush, data : Data]
    BY <1>4, <2>1 DEF Request
  <2>3. QED
    BY <1>5, <2>2 DEF Record
<1>8. OthersKeep(f) /\ Idx(f)' = p /\ pc'[f] = point /\ req'[f] = req[f]
  BY <1>1, <1>2, <1>3 DEF OthersKeep, Idx
<1>9. ~AtRest(f) /\ pc[f] \in WritePoints
  BY <1>1, <1>2, RunningBusy DEF WritePoints
<1>10. LogInv(p)
  BY DEF Files, QueueInv
<1>11. ASSUME FileFits(f, p)
       PROVE  LogInv(p)' /\ FileFits(f, p)'
  <2>1. CASE push
    <3>1. Replay(p) = queue[p]
      BY <1>1, <1>11, <2>1 DEF FileFits, HotPoints
    <3>2. LogInv(p)' /\ Replay(p)' = Append(queue[p], x)
      BY <1>2, <1>6, <1>7, <1>10, <2>1, <3>1, ReplayPush
    <3>3. FileFits(f, p)'
      BY <1>1, <1>4, <1>8, <2>1, <3>2 DEF FileFits, HotPoints
    <3>4. QED
      BY <3>2, <3>3
  <2>2. CASE ~push
    <3>1. Replay(p) = queue[p] /\ queue[p] # <<>> /\ Head(queue[p]).data = req[f].data
      BY <1>1, <1>11, <2>2 DEF FileFits
    <3>2. LogInv(p)' /\ Replay(p)' = Tail(queue[p])
      BY <1>2, <1>6, <1>7, <1>10, <2>2, <3>1, ReplayPop
    <3>3. FileFits(f, p)'
      BY <1>1, <1>8, <2>2, <3>1, <3>2 DEF FileFits, HotPoints
    <3>4. QED
      BY <3>2, <3>3
  <2>3. QED
    BY <2>1, <2>2
<1>12. QED
  BY <1>1, <1>2, <1>3, <1>6, <1>7, <1>8, <1>9, <1>11, WriterStep

\* It is applied.
LEMMA ApplyFiles ==
    ASSUME TopicInv, Exclusive, Files, NEW t \in Threads, NEW f \in Fibers,
           PushApply(t, f) \/ RemovePop(t, f)
    PROVE  Files'
<1>1. /\ Running(t, f) /\ pc[f] \in {"push_apply", "remove_pop"} /\ UNCHANGED <<req, wall>>
      /\ WriteUnlock(t, f, Idx(f))
      /\ pc[f] = "push_apply" =>
           queue' = [queue EXCEPT ![Idx(f)] = Append(@, [id |-> req[f].id, data |-> req[f].data])]
      /\ pc[f] = "remove_pop" =>
           queue' = [queue EXCEPT ![Idx(f)] = IF @ = <<>> THEN @ ELSE Tail(@)]
  BY DEF PushApply, RemovePop, At
<1>2. PICK point \in {"respond", "unlocking"} : pc' = [pc EXCEPT ![f] = point]
  BY <1>1 DEF WriteUnlock, CallReaders
<1>3. ControlInv /\ ControlTypes /\ ExecTypeOK /\ wall \in Seq(Record) /\ pc \in [Fibers -> PCs]
      /\ queue \in [Partitions -> Seq(Message)]
  BY DEF TopicInv, ControlInv, ControlTypes, DataTypes
<1>4. PICK p \in Partitions : p = Idx(f)
  BY <1>1, <1>3, IdxPartition
<1>5. PICK x : x = [id |-> req[f].id, data |-> req[f].data]
  OBVIOUS
<1>6. /\ \A q \in Partitions \ {p} : queue'[q] = queue[q]
      /\ pc[f] = "push_apply" => queue'[p] = Append(queue[p], x)
      /\ pc[f] = "remove_pop" => queue'[p] = IF queue[p] = <<>> THEN queue[p] ELSE Tail(queue[p])
  BY <1>1, <1>3, <1>4, <1>5
<1>7. OthersKeep(f) /\ Idx(f)' = p /\ pc'[f] = point
  BY <1>1, <1>2, <1>3, <1>4 DEF OthersKeep, Idx
<1>8. ~AtRest(f) /\ pc[f] \in WritePoints
  BY <1>1, <1>3, RunningBusy DEF WritePoints
<1>9. LogInv(p)' /\ Replay(p)' = Replay(p)
  BY <1>1, <1>3, ReplayElsewhere DEF Files, QueueInv
<1>10. ASSUME FileFits(f, p)
       PROVE  FileFits(f, p)'
  <2>1. Replay(p) = queue'[p]
    BY <1>1, <1>5, <1>6, <1>10 DEF FileFits
  <2>2. QED
    BY <1>7, <1>9, <2>1 DEF FileFits, HotPoints
<1>11. QED
  BY <1>1, <1>3, <1>4, <1>6, <1>7, <1>8, <1>9, <1>10, WriterStep

\* The second comparison succeeds.
LEMMA CheckFiles ==
    ASSUME TopicInv, Exclusive, Files, NEW t \in Threads, NEW f \in Fibers,
           RemoveCheck(t, f), Matches(f)
    PROVE  Files'
<1>1. /\ Running(t, f) /\ pc[f] = "remove_check" /\ pc' = [pc EXCEPT ![f] = "remove_store"]
      /\ UNCHANGED <<req, wall, queue>> /\ queue[Idx(f)] # <<>>
      /\ Head(queue[Idx(f)]).data = req[f].data
  BY DEF RemoveCheck, At, Matches
<1>2. ControlInv /\ ControlTypes /\ ExecTypeOK /\ wall \in Seq(Record) /\ pc \in [Fibers -> PCs]
  BY DEF TopicInv, ControlInv, ControlTypes, DataTypes
<1>3. PICK p \in Partitions : p = Idx(f)
  BY <1>1, <1>2, IdxPartition
<1>4. OthersKeep(f) /\ Idx(f)' = p /\ pc'[f] = "remove_store"
  BY <1>1, <1>2, <1>3 DEF OthersKeep, Idx
<1>5. ~AtRest(f) /\ pc[f] \in WritePoints
  BY <1>1, <1>2, RunningBusy DEF WritePoints
<1>6. LogInv(p)' /\ Replay(p)' = Replay(p)
  BY <1>1, <1>2, ReplayElsewhere DEF Files, QueueInv
<1>7. ASSUME FileFits(f, p)
      PROVE  FileFits(f, p)'
  <2>1. Replay(p) = queue[p]
    BY <1>1, <1>7 DEF FileFits, HotPoints
  <2>2. QED
    BY <1>1, <1>3, <1>4, <1>6, <2>1 DEF FileFits, HotPoints
<1>8. QED
  BY <1>1, <1>2, <1>3, <1>4, <1>5, <1>6, <1>7, WriterStep

\* The other steps of a session.
LEMMA OtherFiles ==
    ASSUME TopicInv, Files, NEW t \in Threads, NEW f \in Fibers, Step(t, f),
           ~PushStore(t, f), ~RemoveStore(t, f), ~PushApply(t, f), ~RemovePop(t, f),
           ~(RemoveCheck(t, f) /\ Matches(f))
    PROVE  Files'
<1>1. wall \in Seq(Record) /\ pc \in [Fibers -> PCs] /\ req \in [Fibers -> Request \cup {None}]
  BY DEF TopicInv, ControlInv, ControlTypes, DataTypes
<1>2. UNCHANGED <<queue, wall>>
  BY DEF Step, PushLock, PushWall, ReadBegin, ReadFront, RemoveBegin, NullFront, RemovePeek,
         RemoveLock, RemoveCheck, UnlockLoop, Respond
<1>3. CASE NullFront(t, f)
  <2>1. OthersKeep(f) /\ pc[f] \notin HotPoints /\ pc'[f] \notin HotPoints
    BY <1>3 DEF NullFront, At, OthersKeep, HotPoints
  <2>2. QED
    BY <1>1, <1>2, <2>1, ColdStep
<1>4. CASE Respond(t, f)
  <2>1. OthersKeep(f) /\ pc[f] \notin HotPoints /\ pc'[f] \notin HotPoints
    BY <1>1, <1>4 DEF Respond, At, OthersKeep, HotPoints
  <2>2. QED
    BY <1>1, <1>2, <2>1, ColdStep
<1>5. CASE ~NullFront(t, f) /\ ~Respond(t, f)
  <2>1. PICK point : /\ pc' = [pc EXCEPT ![f] = point] /\ UNCHANGED req
                     /\ pc[f] \notin HotPoints /\ point \notin HotPoints
    <3>1. CASE PushLock(t, f) \/ PushWall(t, f) \/ ReadBegin(t, f) \/ RemoveBegin(t, f) \/ RemoveLock(t, f)
      BY <3>1 DEF PushLock, PushWall, ReadBegin, RemoveBegin, RemoveLock, At, HotPoints
    <3>2. CASE ReadFront(t, f) \/ RemovePeek(t, f)
      BY <3>2, ZenonT(60) DEF ReadFront, RemovePeek, ReadUnlock, At, HotPoints
    <3>3. CASE RemoveCheck(t, f) \/ UnlockLoop(t, f)
      BY <3>3, ZenonT(60) DEF RemoveCheck, UnlockLoop, WriteUnlock, CallReaders, At, HotPoints
    <3>4. QED
      BY <1>5, <3>1, <3>2, <3>3 DEF Step
  <2>2. OthersKeep(f) /\ pc'[f] = point
    BY <1>1, <2>1 DEF OthersKeep
  <2>3. QED
    BY <1>1, <1>2, <2>1, <2>2, ColdStep
<1>6. QED
  BY <1>3, <1>4, <1>5

\* Every step keeps file and queues together.
LEMMA FilesStep ==
    ASSUME TopicInv, Roles, Exclusive, Files, [Next]_vars
    PROVE  Files'
<1>1. ControlTypes /\ wall \in Seq(Record)
  BY DEF TopicInv, ControlInv, DataTypes
<1>2. ASSUME NEW f \in Fibers, RequestPush(f) \/ RequestPull(f) \/ RequestDelete(f)
      PROVE  Files'
  <2>1. UNCHANGED <<queue, wall>>
    BY <1>2 DEF RequestPush, RequestPull, RequestDelete, Start
  <2>2. OthersKeep(f) /\ pc[f] \notin HotPoints /\ pc'[f] \notin HotPoints
    BY <1>1, <1>2, RequestRoles DEF HotPoints
  <2>3. QED
    BY <1>1, <2>1, <2>2, ColdStep
<1>3. ASSUME NEW t \in Threads, NEW f \in Fibers, Step(t, f)
      PROVE  Files'
  BY <1>3, StoreFiles, ApplyFiles, CheckFiles, OtherFiles
<1>4. ASSUME UNCHANGED <<pc, req, queue, wall>>
      PROVE  Files'
  <2>1. ASSUME NEW p \in Partitions
        PROVE  QueueInv(p)'
    <3>1. Replay(p)' = Replay(p) /\ LogInv(p)'
      BY <1>1, <1>4, ReplayElsewhere DEF Files, QueueInv
    <3>2. \A f \in Fibers : (Hot(f, p)' <=> Hot(f, p)) /\ (FileFits(f, p) => FileFits(f, p)')
      BY <1>4, <3>1 DEF Hot, FileFits, Idx
    <3>3. QED
      BY <1>4, <3>1, <3>2 DEF Files, QueueInv
  <2>2. QED
    BY <2>1 DEF Files
<1>5. QED
  BY <1>2, <1>3, <1>4 DEF Next, vars, Resume

\* They are together at first.
LEMMA FilesStart == Init => Files
<1> SUFFICES ASSUME Init, NEW p \in Partitions PROVE QueueInv(p)
  BY DEF Files
<1>1. wall = <<>> /\ queue[p] = <<>> /\ \A f \in Fibers : pc[f] = "idle"
  BY DEF Init
<1>2. PushesOf(p) = {} /\ PopsOf(p) = {}
  BY <1>1 DEF PushesOf, PopsOf
<1>3. Cardinality({}) = 0 /\ 1..0 = {} /\ 0 <= 0 /\ 0 - 0 = 0
  BY FS_EmptySet
<1>4. Ranked({})
  BY <1>3 DEF Ranked
<1>5. LogInv(p)
  BY <1>2, <1>3, <1>4 DEF LogInv
<1>6. Replay(p) = <<>>
  BY <1>2, <1>3 DEF Replay
<1>7. \A f \in Fibers : ~Hot(f, p)
  BY <1>1 DEF Hot, HotPoints
<1>8. QED
  BY <1>1, <1>5, <1>6, <1>7 DEF QueueInv

\* Where exclusion holds, the file runs ahead of a partition's queue by the
\* operation in flight and by nothing else, with any number of partitions,
\* pushes and threads.
THEOREM FileFollowsQueue ==
    ASSUME FewSessions
    PROVE  Spec => []WallMatchesQueue
<1> DEFINE Inv == TopicInv /\ Roles /\ Exclusive /\ Files
<1>1. Inv /\ [Next]_vars => Inv'
  BY TopicStep, ExclusionStep, FilesStep
<1>2. Inv => WallMatchesQueue
  <2> SUFFICES ASSUME Files, NEW p \in Partitions
               PROVE  /\ InFlight(p) = {} => Replay(p) = queue[p]
                      /\ \A f \in InFlight(p) :
                            Replay(p) = IF pc[f] = "push_apply"
                                        THEN Append(queue[p], [id |-> req[f].id, data |-> req[f].data])
                                        ELSE Tail(queue[p])
    BY DEF WallMatchesQueue
  <2>1. QueueInv(p)
    BY DEF Files
  <2>2. ASSUME InFlight(p) = {}
        PROVE  Replay(p) = queue[p]
    <3>1. CASE \A f \in Fibers : ~Hot(f, p)
      BY <2>1, <3>1 DEF QueueInv
    <3>2. ASSUME NEW f \in Fibers, Hot(f, p)
          PROVE  Replay(p) = queue[p]
      BY <2>1, <2>2, <3>2 DEF QueueInv, FileFits, Hot, HotPoints, InFlight
    <3>3. QED
      BY <3>1, <3>2
  <2>3. ASSUME NEW f \in InFlight(p)
        PROVE  Replay(p) = IF pc[f] = "push_apply"
                           THEN Append(queue[p], [id |-> req[f].id, data |-> req[f].data])
                           ELSE Tail(queue[p])
    <3>1. f \in Fibers /\ Hot(f, p) /\ pc[f] \in {"push_apply", "remove_pop"}
      BY DEF InFlight, Hot, HotPoints
    <3>2. QED
      BY <2>1, <3>1 DEF QueueInv, FileFits
  <2>4. QED
    BY <2>2, <2>3
<1>3. QED
  BY TopicStart, ExclusionStart, FilesStart, <1>1, <1>2, PTL DEF Spec

\* Under the same hypothesis the k-th removal in the file is that of the k-th
\* push: what remove compared before it awaited the wall mutex is what it pops.
THEOREM RemovalsFollowPushes ==
    ASSUME FewSessions
    PROVE  Spec => []RemovalsMatch
<1> DEFINE Inv == TopicInv /\ Roles /\ Exclusive /\ Files
<1>1. Inv /\ [Next]_vars => Inv'
  BY TopicStep, ExclusionStep, FilesStep
<1>2. Inv => RemovalsMatch
  BY DEF Files, QueueInv, LogInv, RemovalsMatch
<1>3. QED
  BY TopicStart, ExclusionStart, FilesStart, <1>1, <1>2, PTL DEF Spec
===============================================================================
