-------------------------------- MODULE Topic --------------------------------
(***************************************************************************)
(* topic_t (src/topic.h) and the partition_t, wall_writer_t and mutexes it *)
(* is made of, used by sessions that handle PUSH, PULL and DELETE requests *)
(* (src/rpc/rpc-session.h, after the checks of handle_push, handle_pull    *)
(* and handle_delete).                                                     *)
(*                                                                         *)
(* Every session is a fiber.  pc[f] names the point at which f goes on     *)
(* when it next runs, so a fiber that suspends on a mutex already has the  *)
(* point after the co_await as its pc: a posted or a direct call of its    *)
(* handler is enough to resume it.  A point that ends in "_lock", "_rlock" *)
(* or "_wall" is about to ask for a mutex, the point after it holds it.    *)
(*                                                                         *)
(* Queues are sequences here; MessageQueue shows that the linked list in   *)
(* src/messages/message-queue.h implements them.                           *)
(***************************************************************************)
EXTENDS Executor, SequencesExt

CONSTANTS Pushers, Pullers, Deleters, \* sessions whose client sends such requests
          Data,        \* message contents
          N,           \* partitions_count
          TopicHash,   \* hash_func_ of the requests to this topic
          AnyDelete,   \* may a client delete what it has not pulled?
          MaxPush,     \* bound on the pushes of a behaviour
          INVALID,     \* common::INVALID_TOPIC_ID
          None

Partitions == 0..(N - 1)

ASSUME TopicAssumption ==
    /\ IsFiniteSet(Fibers)
    /\ N \in Nat \ {0}
    /\ TopicHash \in Nat
    /\ MaxPush \in Nat
    /\ AnyDelete \in BOOLEAN
    /\ INVALID \notin Partitions
    /\ None \notin Data /\ None \notin [partition : Partitions, data : Data]
    /\ Pushers \cup Pullers \cup Deleters = Fibers

P == INSTANCE SharedMutexOps
W == INSTANCE UniqueMutexOps

VARIABLES pc,
          req,         \* req[f]: the request session f handles
          mutex,       \* mutex[p]: partition p's shared_mutex_t
          queue,       \* queue[p]: partition p's messages
          wall_mutex_,
          wall,        \* records written to the topic's file
          died,        \* a null iterator was dereferenced: the process is gone
          result,      \* result[f]: what read returned to handle_pull, until it is sent
          pulled,      \* pulled[f]: what f's client last received by PULL, until it
                       \* asks for its deletion
          delivered,   \* history: numbers of the messages received by PULL
          issued       \* history: how many pushes have been requested

vars == <<stack, ready, pc, req, mutex, queue, wall_mutex_, wall, died,
          result, pulled, delivered, issued>>

\* What the clients have been sent and have asked for.
clients == <<pulled, delivered, issued>>

\* A message carries its number, which the code does not have, to tell
\* messages of equal content apart.
Message == [id : 1..MaxPush, data : Data]

\* id is 0 where the request creates no message, data None where it has none.
Request ==
    [op : {"push", "pull", "delete"}, partition_id : Partitions \cup {INVALID},
     id : 0..MaxPush, data : Data \cup {None}]

\* The index push, read and remove use: push replaces INVALID by a hash.
PartitionIdx(r) == IF r.partition_id = INVALID THEN TopicHash % N ELSE r.partition_id

\* store() writes the bytes of a wall_data_t.  Its message member is a view:
\* the file receives the address of session f's request buffer, not the
\* content.  about is a history field: the message the record is about.
Record == [identifier : Partitions, is_push_operation : BOOLEAN, message : Fibers,
           about : [id : 0..MaxPush, data : Data]]

PCs == {"idle", "respond", "unlocking",
        "push_lock", "push_wall", "push_store", "push_apply",
        "read_lock", "read_front",
        "remove_rlock", "remove_peek", "remove_lock", "remove_check",
        "remove_store", "remove_pop"}

TypeOK ==
    /\ ExecTypeOK
    /\ pc \in [Fibers -> PCs]
    /\ \A f \in Fibers : IF pc[f] = "idle" THEN req[f] = None ELSE req[f] \in Request
    /\ mutex \in [Partitions -> P!SharedMutexType(Fibers)]
    /\ queue \in [Partitions -> Seq(Message)]
    /\ wall_mutex_ \in W!UniqueMutexType(Fibers)
    /\ wall \in Seq(Record)
    /\ died \in BOOLEAN
    /\ \A f \in Fibers : result[f] = None \/ result[f] \in Message
    /\ \A f \in Fibers : pulled[f] = None \/ pulled[f] \in [partition : Partitions, data : Data]
    /\ delivered \subseteq 1..MaxPush
    /\ issued \in 0..MaxPush

Init ==
    /\ ExecInit
    /\ pc = [f \in Fibers |-> "idle"]
    /\ req = [f \in Fibers |-> None]
    /\ mutex = [p \in Partitions |-> P!IdleMutex]
    /\ queue = [p \in Partitions |-> <<>>]
    /\ wall_mutex_ = W!UnlockedMutex
    /\ wall = <<>>
    /\ died = FALSE
    /\ result = [f \in Fibers |-> None]
    /\ pulled = [f \in Fibers |-> None]
    /\ delivered = {}
    /\ issued = 0

-----------------------------------------------------------------------------
(* The mutexes: each operator is one critical section of a mutex and what  *)
(* becomes of the calling fiber.  They leave pc to the caller.             *)

\* co_await storage_[p]->write_lock()
WriteLock(t, f, p) ==
    /\ Leave(t)
    /\ \/ /\ P!LockFree(mutex[p])
          /\ mutex' = [mutex EXCEPT ![p] = P!TakeUnique(@)]
          /\ Post(f)
       \/ /\ ~P!LockFree(mutex[p])
          /\ mutex' = [mutex EXCEPT ![p] = P!QueueUnique(@, f)]
          /\ UNCHANGED ready

\* co_await storage_[p]->read_lock()
ReadLock(t, f, p) ==
    /\ Leave(t)
    /\ \/ /\ P!SharedFree(mutex[p])
          /\ mutex' = [mutex EXCEPT ![p] = P!TakeShared(@)]
          /\ Post(f)
       \/ /\ ~P!SharedFree(mutex[p])
          /\ mutex' = [mutex EXCEPT ![p] = P!QueueShared(@, f)]
          /\ UNCHANGED ready

\* co_await wall_mutex_.lock()
WallLock(t, f) ==
    /\ Leave(t)
    /\ \/ /\ ~wall_mutex_.locked_
          /\ wall_mutex_' = W!Take(wall_mutex_)
          /\ Post(f)
       \/ /\ wall_mutex_.locked_
          /\ wall_mutex_' = W!Enqueue(wall_mutex_, f)
          /\ UNCHANGED ready

\* The wall guard leaves its block.
WallUnlock(t) ==
    \/ /\ wall_mutex_.waiters_ = <<>>
       /\ wall_mutex_' = W!Release(wall_mutex_)
       /\ UNCHANGED stack
    \/ /\ wall_mutex_.waiters_ # <<>>
       /\ wall_mutex_' = W!HandOff(wall_mutex_)
       /\ Call(t, W!FirstWaiter(wall_mutex_))

\* The loop of shared_mutex_t::unlock over queued readers, one turn of it.
CallReaders(t, f, p, m) ==
    \/ /\ m.shared_waiters_ # <<>>
       /\ mutex' = [mutex EXCEPT ![p] = P!PassToReader(m)]
       /\ Call(t, Head(m.shared_waiters_))
       /\ pc' = [pc EXCEPT ![f] = "unlocking"]
    \/ /\ m.shared_waiters_ = <<>>
       /\ mutex' = [mutex EXCEPT ![p] = m]
       /\ UNCHANGED stack
       /\ pc' = [pc EXCEPT ![f] = "respond"]

\* The write guard is destroyed as push or remove returns.
WriteUnlock(t, f, p) ==
    LET m == P!DropUnique(mutex[p])
    IN  \/ /\ m.unique_waiters_ # <<>>
           /\ mutex' = [mutex EXCEPT ![p] = P!PassToWriter(m)]
           /\ Call(t, Head(m.unique_waiters_))
           /\ pc' = [pc EXCEPT ![f] = "respond"]
        \/ m.unique_waiters_ = <<>> /\ CallReaders(t, f, p, m)

\* The read guard is destroyed; f goes on at point.
ReadUnlock(t, f, p, point) ==
    LET m == P!DropShared(mutex[p])
        pass == m.reader_count_ = 0 /\ m.unique_waiters_ # <<>>
    IN  /\ pc' = [pc EXCEPT ![f] = point]
        /\ \/ /\ pass
              /\ mutex' = [mutex EXCEPT ![p] = P!PassToWriter(m)]
              /\ Call(t, Head(m.unique_waiters_))
           \/ /\ ~pass
              /\ mutex' = [mutex EXCEPT ![p] = m]
              /\ UNCHANGED stack

-----------------------------------------------------------------------------
(* Requests *)

\* The session's client sends a request; handle_request starts to handle it.
Start(f, r, point) ==
    /\ pc[f] = "idle"
    /\ ~OnStack(f) /\ f \notin ready
    /\ req' = [req EXCEPT ![f] = r]
    /\ pc' = [pc EXCEPT ![f] = point]
    /\ Post(f)
    /\ UNCHANGED <<stack, mutex, queue, wall_mutex_, wall, died, result, delivered>>

RequestPush(f) ==
    /\ f \in Pushers
    /\ issued < MaxPush
    /\ issued' = issued + 1
    /\ \E p \in Partitions \cup {INVALID}, d \in Data :
          Start(f, [op |-> "push", partition_id |-> p, id |-> issued + 1, data |-> d],
                "push_lock")
    /\ UNCHANGED pulled

RequestPull(f) ==
    /\ f \in Pullers
    /\ \E p \in Partitions :
          Start(f, [op |-> "pull", partition_id |-> p, id |-> 0, data |-> None], "read_lock")
    /\ UNCHANGED <<pulled, issued>>

\* A client deletes what it has pulled, once, or, with AnyDelete, anything.
RequestDelete(f) ==
    /\ f \in Deleters
    /\ \E p \in Partitions, d \in Data :
          /\ AnyDelete \/ pulled[f] = [partition |-> p, data |-> d]
          /\ Start(f, [op |-> "delete", partition_id |-> p, id |-> 0, data |-> d],
                   "remove_rlock")
    /\ pulled' = [pulled EXCEPT ![f] = None]
    /\ UNCHANGED issued

\* A thread runs the handler posted for f.
Resume(t, f) ==
    /\ TakePosted(t, f)
    /\ UNCHANGED <<pc, req, mutex, queue, wall_mutex_, wall, died, result, clients>>

\* f runs on t and stands at point.
At(t, f, point) == Running(t, f) /\ pc[f] = point

Idx(f) == PartitionIdx(req[f])

\* The response is written, with the message that was read, if any, and the
\* session awaits its next request; the request buffer is gone.  If the
\* connection breaks instead, the response is lost and the client comes back
\* with a new session.
Respond(t, f) ==
    /\ At(t, f, "respond")
    /\ Leave(t)
    /\ pc' = [pc EXCEPT ![f] = "idle"]
    /\ req' = [req EXCEPT ![f] = None]
    /\ result' = [result EXCEPT ![f] = None]
    /\ \/ UNCHANGED <<pulled, delivered>>
       \/ /\ result[f] # None
          /\ pulled' = [pulled EXCEPT ![f] = [partition |-> Idx(f), data |-> result[f].data]]
          /\ delivered' = delivered \cup {result[f].id}
    /\ UNCHANGED <<ready, mutex, queue, wall_mutex_, wall, died, issued>>

\* shared_mutex_t::unlock, after a reader it called has suspended.
UnlockLoop(t, f) ==
    /\ At(t, f, "unlocking")
    /\ CallReaders(t, f, Idx(f), mutex[Idx(f)])
    /\ UNCHANGED <<ready, req, queue, wall_mutex_, wall, died, result, clients>>

StoreAsPush(t, f, push) ==
    /\ wall' = Append(wall, [identifier |-> Idx(f), is_push_operation |-> TRUE,
                             message |-> f,
                             about |-> [id |-> req[f].id, data |-> req[f].data]])
    /\ WallUnlock(t)
    /\ UNCHANGED <<ready, req, mutex, queue, died, result, clients>>

\* wall_write_.store(&wall_data, sizeof(wall_data)) and the end of its block.
Store(t, f, push) ==
    /\ wall' = Append(wall, [identifier |-> Idx(f), is_push_operation |-> push,
                             message |-> f,
                             about |-> [id |-> req[f].id, data |-> req[f].data]])
    /\ WallUnlock(t)
    /\ UNCHANGED <<ready, req, mutex, queue, died, result, clients>>

-----------------------------------------------------------------------------
(* push *)

PushLock(t, f) ==
    /\ At(t, f, "push_lock")
    /\ WriteLock(t, f, Idx(f))
    /\ pc' = [pc EXCEPT ![f] = "push_wall"]
    /\ UNCHANGED <<req, queue, wall_mutex_, wall, died, result, clients>>

PushWall(t, f) ==
    /\ At(t, f, "push_wall")
    /\ WallLock(t, f)
    /\ pc' = [pc EXCEPT ![f] = "push_store"]
    /\ UNCHANGED <<req, mutex, queue, wall, died, result, clients>>

PushStore(t, f) ==
    /\ At(t, f, "push_store")
    /\ Store(t, f, TRUE)
    /\ pc' = [pc EXCEPT ![f] = "push_apply"]

PushApplyInFront(t, f) ==
    /\ At(t, f, "push_apply")
    /\ queue' = [queue EXCEPT ![Idx(f)] = <<[id |-> req[f].id, data |-> req[f].data]>> \o @]
    /\ WriteUnlock(t, f, Idx(f))
    /\ UNCHANGED <<ready, req, wall_mutex_, wall, died, result, clients>>

\* The message enters the queue, then the write guard is destroyed.
PushApply(t, f) ==
    /\ At(t, f, "push_apply")
    /\ queue' = [queue EXCEPT ![Idx(f)] = Append(@, [id |-> req[f].id, data |-> req[f].data])]
    /\ WriteUnlock(t, f, Idx(f))
    /\ UNCHANGED <<ready, req, wall_mutex_, wall, died, result, clients>>

-----------------------------------------------------------------------------
(* read *)

ReadBegin(t, f) ==
    /\ At(t, f, "read_lock")
    /\ ReadLock(t, f, Idx(f))
    /\ pc' = [pc EXCEPT ![f] = "read_front"]
    /\ UNCHANGED <<req, queue, wall_mutex_, wall, died, result, clients>>

ReadBack(t, f) ==
    LET q == queue[Idx(f)]
    IN  /\ At(t, f, "read_front")
        /\ result' = [result EXCEPT ![f] = IF q = <<>> THEN None ELSE Last(q)]
        /\ ReadUnlock(t, f, Idx(f), "respond")
        /\ UNCHANGED <<ready, req, queue, wall_mutex_, wall, died, clients>>

ReadNextPartition(t, f) ==
    LET q == queue[(Idx(f) + 1) % N]
    IN  /\ At(t, f, "read_front")
        /\ result' = [result EXCEPT ![f] = IF q = <<>> THEN None ELSE Head(q)]
        /\ ReadUnlock(t, f, Idx(f), "respond")
        /\ UNCHANGED <<ready, req, queue, wall_mutex_, wall, died, clients>>

\* nullopt for an empty partition, else a copy of the front message; the read
\* guard is destroyed on return.
ReadFront(t, f) ==
    LET q == queue[Idx(f)]
    IN  /\ At(t, f, "read_front")
        /\ result' = [result EXCEPT ![f] = IF q = <<>> THEN None ELSE Head(q)]
        /\ ReadUnlock(t, f, Idx(f), "respond")
        /\ UNCHANGED <<ready, req, queue, wall_mutex_, wall, died, clients>>

-----------------------------------------------------------------------------
(* remove *)

RemoveBegin(t, f) ==
    /\ At(t, f, "remove_rlock")
    /\ ReadLock(t, f, Idx(f))
    /\ pc' = [pc EXCEPT ![f] = "remove_peek"]
    /\ UNCHANGED <<req, queue, wall_mutex_, wall, died, result, clients>>

\* front() of an empty partition is a null iterator, which remove dereferences
\* without a test.
NullFront(t, f) ==
    /\ At(t, f, "remove_peek") \/ At(t, f, "remove_check")
    /\ queue[Idx(f)] = <<>>
    /\ died' = TRUE
    /\ UNCHANGED <<stack, ready, pc, req, mutex, queue, wall_mutex_, wall, result, clients>>

Matches(f) == Head(queue[Idx(f)]).data = req[f].data

\* The first comparison, under the read lock.
RemovePeek(t, f) ==
    /\ At(t, f, "remove_peek")
    /\ queue[Idx(f)] # <<>>
    /\ ReadUnlock(t, f, Idx(f), IF Matches(f) THEN "remove_lock" ELSE "respond")
    /\ UNCHANGED <<ready, req, queue, wall_mutex_, wall, died, result, clients>>

RemoveLock(t, f) ==
    /\ At(t, f, "remove_lock")
    /\ WriteLock(t, f, Idx(f))
    /\ pc' = [pc EXCEPT ![f] = "remove_check"]
    /\ UNCHANGED <<req, queue, wall_mutex_, wall, died, result, clients>>

RemoveCheckTrusts(t, f) ==
    /\ At(t, f, "remove_check")
    /\ queue[Idx(f)] # <<>>
    /\ WallLock(t, f)
    /\ pc' = [pc EXCEPT ![f] = "remove_store"]
    /\ UNCHANGED <<req, mutex, queue, wall, died, result, clients>>

\* The second comparison, under the write lock; then the wall mutex is asked
\* for, or the write guard is destroyed.
RemoveCheck(t, f) ==
    /\ At(t, f, "remove_check")
    /\ queue[Idx(f)] # <<>>
    /\ \/ /\ Matches(f)
          /\ WallLock(t, f)
          /\ pc' = [pc EXCEPT ![f] = "remove_store"]
          /\ UNCHANGED mutex
       \/ /\ ~Matches(f)
          /\ WriteUnlock(t, f, Idx(f))
          /\ UNCHANGED <<ready, wall_mutex_>>
    /\ UNCHANGED <<req, queue, wall, died, result, clients>>

RemoveStore(t, f) ==
    /\ At(t, f, "remove_store")
    /\ Store(t, f, FALSE)
    /\ pc' = [pc EXCEPT ![f] = "remove_pop"]

\* pop() does nothing on an empty queue; then the write guard is destroyed.
RemovePop(t, f) ==
    /\ At(t, f, "remove_pop")
    /\ queue' = [queue EXCEPT ![Idx(f)] = IF @ = <<>> THEN @ ELSE Tail(@)]
    /\ WriteUnlock(t, f, Idx(f))
    /\ UNCHANGED <<ready, req, wall_mutex_, wall, died, result, clients>>

-----------------------------------------------------------------------------

\* What f does when it runs.
Step(t, f) ==
    \/ PushLock(t, f) \/ PushWall(t, f) \/ PushStore(t, f) \/ PushApply(t, f)
    \/ ReadBegin(t, f) \/ ReadFront(t, f)
    \/ RemoveBegin(t, f) \/ NullFront(t, f) \/ RemovePeek(t, f) \/ RemoveLock(t, f)
    \/ RemoveCheck(t, f) \/ RemoveStore(t, f) \/ RemovePop(t, f)
    \/ UnlockLoop(t, f) \/ Respond(t, f)

Next ==
    /\ ~died
    /\ \/ \E f \in Fibers : RequestPush(f) \/ RequestPull(f) \/ RequestDelete(f)
       \/ \E t \in Threads, f \in Fibers : Resume(t, f) \/ Step(t, f)

Spec == Init /\ [][Next]_vars

\* A thread goes on with the fiber on top of its stack, and io_context takes
\* every posted handler in turn.
Fairness ==
    \A f \in Fibers :
        /\ SF_vars(~died /\ \E t \in Threads : Resume(t, f))
        /\ WF_vars(~died /\ \E t \in Threads : Step(t, f))

FairSpec == Spec /\ Fairness

-----------------------------------------------------------------------------
(* Properties *)

WriteQueued(f, p) == f \in ToSet(mutex[p].unique_waiters_)
ReadQueued(f, p)  == f \in ToSet(mutex[p].shared_waiters_)

WritersOf(p) ==
    {f \in Fibers : /\ pc[f] \in {"push_wall", "push_store", "push_apply",
                                  "remove_check", "remove_store", "remove_pop"}
                    /\ Idx(f) = p
                    /\ ~WriteQueued(f, p)}

ReadersOf(p) ==
    {f \in Fibers : /\ pc[f] \in {"read_front", "remove_peek"}
                    /\ Idx(f) = p
                    /\ ~ReadQueued(f, p)}

\* The writer of a partition is alone with it.
PartitionExclusion ==
    \A p \in Partitions :
        /\ \A f, g \in WritersOf(p) : f = g
        /\ WritersOf(p) # {} => ReadersOf(p) = {}

\* Only one session at a time writes to the topic's file.
WallExclusion ==
    \A f, g \in {h \in Fibers : /\ pc[h] \in {"push_store", "remove_store"}
                                /\ h \notin ToSet(wall_mutex_.waiters_)} : f = g

\* The places in the file of the records of partition p's pushes and removals.
PushesOf(p) == {i \in DOMAIN wall : wall[i].identifier = p /\ wall[i].is_push_operation}
PopsOf(p)   == {i \in DOMAIN wall : wall[i].identifier = p /\ ~wall[i].is_push_operation}

\* The k-th of the places in S.
Nth(S, k) == CHOOSE i \in {j \in S : Cardinality({h \in S : h <= j}) = k} : TRUE

\* The queue one gets by replaying partition p's records: a removal takes the
\* oldest message, so the pushes after the first Cardinality(PopsOf(p)) remain.
Replay(p) ==
    LET gone == Cardinality(PopsOf(p))
    IN  [k \in 1..(Cardinality(PushesOf(p)) - gone) |-> wall[Nth(PushesOf(p), gone + k)].about]

\* The sessions that have logged an operation on p and not yet applied it.
InFlight(p) == {f \in Fibers : pc[f] \in {"push_apply", "remove_pop"} /\ Idx(f) = p}

\* The file runs ahead of the queue by the operation in flight, if any, and by
\* nothing else: push and remove log first, and apply in the order of the log.
WallMatchesQueue ==
    \A p \in Partitions :
        /\ InFlight(p) = {} => Replay(p) = queue[p]
        /\ \A f \in InFlight(p) :
              Replay(p) = IF pc[f] = "push_apply"
                          THEN Append(queue[p], [id |-> req[f].id, data |-> req[f].data])
                          ELSE Tail(queue[p])

\* A removal is logged for the content of the message it removes, the
\* oldest one: the comparison made before the wall mutex was awaited
\* still holds when the message is popped.
RemovalsMatch ==
    \A p \in Partitions :
        /\ Cardinality(PopsOf(p)) <= Cardinality(PushesOf(p))
        /\ \A k \in 1..Cardinality(PopsOf(p)) :
              wall[Nth(PopsOf(p), k)].about.data = wall[Nth(PushesOf(p), k)].about.data

\* remove never dereferences the null front of an empty partition.
NoNullFront == ~died

\* At-least-once delivery: a message leaves its partition only after a consumer
\* has received it.
DeliveredBeforeRemoved ==
    [][\A p \in Partitions :
          queue[p] # <<>> /\ queue'[p] = Tail(queue[p]) => Head(queue[p]).id \in delivered]_vars

\* Every request is answered.
EveryRequestAnswered == \A f \in Fibers : pc[f] # "idle" ~> pc[f] = "idle"
=============================================================================
