# Noctua: TLA+ models and proofs

Noctua is a small message broker in C++20: clients send PUSH, PULL and DELETE
requests over TCP; messages live in the partitions of named topics; every
change of a partition is first written to the topic's log file (the "wall").
Requests are handled by coroutines ("fibers") on a Boost.Asio `io_context` that
several threads run. The models cover the synchronisation primitives, the
message queue, the topic with its partitions and log, the registry of topics,
the sessions that serve connections, the broker process with its accept loop and
its shutdown, and the command-line client. Paths below are relative to the
repository root; the broker's own code is in `src/`.

## 1. Inventory

| Component | State | Operations | Interacts with |
|---|---|---|---|
| Executor (Boost.Asio, external; `src/main.cpp`, `src/common/fibers/task.h`) | call stacks of threads, posted handlers | post, run, suspend, direct call of a completion handler | everything |
| `unique_mutex_t` (`unique-mutex.h`) | `locked_`, `waiters_` | `lock`, guard release | resumes waiters on the releasing thread's stack |
| `shared_mutex_t` (`shared-mutex.h`) | `writer_active_`, `reader_count_`, `writers_waiting_`, two queues | `lock`, `lock_shared`, both releases | as above |
| Message queue (`message-queue.h`, `message.h`) | `size_`, `head_`, `tail_`, heap cells | push, pop, moves, destruction, iterators | owned by a partition |
| `partition_t` (`partition.h`) | a queue and a `shared_mutex_t` | forwards to them | owned by a topic |
| `topic_t` (`topic.h`) | partitions, log, `wall_mutex_` | `push`, `read`, `remove` | called by sessions |
| Log (`wall-writer.h`, `wall-header.h`) | one file per topic | open (truncates), `store` | owned by a topic |
| Registry (`rpc-session.h`) | `topics_`, an unused mutex | `get_or_create_topic`, `get_topic` | called by sessions on all threads |
| Session (`rpc-session.h`) | socket, request buffers | read loop, `handle_*`, responses | client, registry, topic |
| Server (`rpc-server.h`), `main.cpp` | acceptor, running flag, threads | accept loop, stop, shutdown | sessions, executor |
| Client (`rpc-client.h`, `rpc-client.cpp`) | socket | connect, send, receive, command line | session |

What is hard in this code:

* **Direct resumption.** Releasing a mutex with waiters calls the next fiber's
  handler on the releaser's own stack, outside the internal `std::mutex`. A
  fiber thus runs on top of another one, and everything that holds "after"
  an unlock holds only once the resumed fiber has suspended.
* **The loop in `shared_mutex_t::unlock`** gives its `std::mutex` up around each
  reader it resumes.
* **Nested suspension.** `push` and `remove` await the wall mutex while they hold
  a partition's write lock; `remove` compares under a read lock and acts under
  a write lock, with suspensions in between.
* **Log and memory** must change in the same order although sessions suspend
  between the two.
* **The registry** looks locked but is not: `mutex_.lock()` builds a coroutine
  nobody awaits.
* **Crash and restart**: opening a topic truncates its log; nothing replays it.
* **Shutdown**: `main` posts the closing of the acceptor, stops the context at once,
  joins the threads and destroys the server, whose destructor posts a handler
  with a pointer to the dying server. Sessions may be anywhere meanwhile; the
  frames of the suspended ones are destroyed after the server, with their guards.
* **The accept loop** ends for good at the first exception, with the acceptor open.

What makes each component correct:

* mutexes: exclusion, no lost and no doubled wake-up, arrival order, service of
  every waiter;
* queue: the list implements a FIFO queue, no leak, no use of freed cells;
* topic: exclusion per partition and for the file; the log replays to the
  queues; a removal concerns the content it was asked for; no message leaves
  undelivered; every request is answered;
* registry: the topic a request uses is alive, and what was stored in a log
  stays there;
* session: one response per request, in order; what a response says is true;
* server: no handler runs on a destroyed server, what is destroyed after it uses
  nothing of it, shutdown completes, clients are
  served while the accept loop lives, and those with a session also after it;
* client: it ends, with or without a response.

`PROJECT.json` lists the hazards one by one, with the line where each bites and
the properties that would catch it.

## 2. Modules

```
Executor            UniqueMutexOps      SharedMutexOps      FifoQueue
   |  \                |      \             |      \             |
   |   +-- UniqueMutex-+       \            |       \       MessageQueue
   |   +-- SharedMutex ---------\-----------+        \     (refines FifoQueue)
   +------ Topic (W == UniqueMutexOps, P == SharedMutexOps)
   |
   +------ Server --+
CommandLine --------+- Broker <- MCBroker, Broker_proofs
Executor_proofs <- UniqueMutex_proofs, SharedMutex_proofs, Topic_proofs, Broker_proofs
MessageQueue <- MessageQueue_proofs
Registry <- Registry_proofs
Session <- MCSession, Session_proofs
```

* **Executor** (external code, modelled from its use). `stack[t]` is the
  sequence of fibers on thread `t`'s call stack; `ready` is the set of fibers
  with a posted handler. `TakePosted`: an idle thread takes a handler. `Leave`:
  the running fiber suspends. `Call`: the running fiber calls another one's
  handler. `Post`: `boost::asio::post`. The order among posted handlers is open.
* **UniqueMutexOps / SharedMutexOps**: the fields of the two mutexes as records,
  with one operator per critical section of their internal `std::mutex`. Both
  the stand-alone models and Topic use these operators.
* **UniqueMutex**: `AsyncLock` (take and post, or queue), `Unlock` (free, or hand
  over and call the first waiter), and what fibers do otherwise (`Dispatch`,
  `Await`, `Complete`). `pc` distinguishes a fiber that owns the mutex but whose
  posted handler has not built its guard yet (`granted`).
* **SharedMutex**: `AsyncLock`, `AsyncLockShared`, `Unlock`, `UnlockLoop` (one turn
  of the loop after a reader has come back), `UnlockShared`. `Readers` and
  `Writers` may overlap; `AwaitUnder` says under which guards fibers may suspend.
* **FifoQueue** (abstract) and **MessageQueue**: queues as sequences with an
  iterator, and the linked list over a heap of `Cells` in which `malloc` may
  return any free cell and a freed cell keeps its bytes. `CellsFrom` walks the
  list as the destructor does. `back()` and the result of `push` are `head_` in
  the code (the tests say so too), so they are the same action as `begin()`.
* **Topic**: sessions as fibers; `pc[f]` is the point at which session `f` goes on
  when it next runs. Between two points lies exactly what the code does between
  two points where another thread can see or change shared state:
  `push` = `PushLock`, `PushWall`, `PushStore`, `PushApply`; `read` = `ReadBegin`,
  `ReadFront`; `remove` = `RemoveBegin`, `RemovePeek`, `RemoveLock`,
  `RemoveCheck`, `RemoveStore`, `RemovePop`; `NullFront` is the dereference of
  the front of an empty partition, after which the process is gone (`died`).
  Guards are destroyed where the code's scopes end, inside the action that
  leaves the scope. `RequestPush/Pull/Delete` are the clients' requests as they
  reach the topic, `Respond` the response, which may get lost with the connection:
  then the client knows nothing and the message counts as not delivered. `issued`, `delivered`, the message
  numbers and the `about` field of log records are history; `pulled` is what a
  client knows.
* **Registry**: threads that handle requests call `get_or_create_topic` (`Find`,
  `Construct`, `Emplace`, `Link`) or `get_topic` (`Get`). The lock these functions
  ask for is never awaited, so nothing in the model excludes the threads; `Race`
  is the end of the process that the data race on `topics_` may bring.
  `Construct` builds the topic before `emplace` looks the key up, and truncates
  the file; every topic object writes at its stream's own offset (`Store`, for a
  push and for a removal; `Use` is an operation that stores nothing).
  `Crash` ends and restarts the process; the files stay, and nothing reads them.
* **Session** (instantiated by **MCSession** with sets of requests): the read loop
  (`ReadHeader`, `ReadBody`), the handlers up to the call of the topic
  (`HandlePush/Pull/Delete/Unknown`, with every check in the code's order), the
  steps of `get_or_create_topic` after its lookup (`Emplace`, `Link`), which nothing
  locks, the topic's effect (`Push`, `Read`, `Remove`, one step each, taken at the point where
  they hold the partition's lock), `Respond`, and `Break` for a connection that
  fails at any await on the socket. `topics_[n]` lists the topics linked under one
  key, of which `find` returns the last; `topic[s]` is the one a handler has got.
  A session inside `get_or_create_topic` keeps its thread, of which there are
  `ThreadCount`: with one thread that function is not interrupted, with two both
  sessions may link a topic. Where the code goes on to something
  undefined, `undefined` says what it was and the behaviour ends: an index
  outside `storage_`, a request that does not fit its 1024 bytes, the front of an
  empty partition, the data race on `topics_` (`Race`). Names and messages are represented by their lengths.
* **Server**: the broker process. `main` is where `main()` stands: `Start`,
  `CreateThread`, `Stop` (once all threads exist and `running` is false),
  `StopContext`, `Join`, `DestroyServer` (the destructor posts `Close` again;
  registry and acceptor go, and the handlers that the topics' mutexes hold: Asio
  unwinds a coroutine through its executor, so these are posted and nobody runs
  them), `DestroyContext` (posted handlers and suspended coroutines go, sockets
  close; if the frame of one holds a guard, that guard unlocks a mutex which went
  with the server, and `main` is "undefined"). The fibers of Executor are the sessions, the accept
  loop and the handler that `stop()` posts; `Take` and `Return` are `io_context::run`
  on a thread, which returns when the context is stopped, by `main` or because no
  work is left. `loop` is what the accept loop awaits or resumes with;
  `RunAcceptLoop` is its body from one `async_accept` to the next, `CloseAcceptor`
  the posted handler. Of a session only the suspension points are kept, which say
  what guards its frame holds: it awaits a request (`ReadReady`), or one of the locks
  that `push`, `read` and `remove` take one after another (`NextLock`), and is resumed
  by a posted handler (`TopicReady`) or by another session that releases the lock
  (`HandOver`). Which session gets a lock when is left to Topic. The one suspension
  under a guard is that for the wall's mutex, under the partition's write lock
  (`HoldsGuard`).
  `AcceptFails` and `Break` are failed accepts and broken connections.
* **CommandLine**: operators that say what the client makes of its words: the scan
  for options, the argument counts, the conversions to 16 bits, the request's
  header and whether the copy overruns the buffer sized by it.
* **Broker** (instantiated by **MCBroker** with command lines): clients, one process
  per connection (`StartClient`, `Connect`, `SendRequest`, `Receive`), composed with
  Server. A client connects before it counts its arguments, as in the code.
* ***_proofs**: theorems and lemmas, see section 5.

Operators such as `HandOffWithoutPop`, `LockFreeIgnoresReaders` or `ReadBack`,
each placed before the definition it imitates, are deliberately wrong variants
of the code. They are used by no specification; substituting one for its
original shows that a property can fail (`PROJECT.json`, "mutants").

## 3. Runs

Passing runs:

| Run | Checks | Bounds |
|---|---|---|
| `UniqueMutex.cfg` | MutualExclusion, NoLostWakeup, WaitersExact, SingleFrame, NoBarging, EveryWaiterServed | 4 fibers, 2 threads |
| `SharedMutexOneWriter.cfg` | TypeOK, Exclusion, CountersExact, NoLostWakeup, SingleFrame, EveryWriterServed, UnlockReturns, EveryReaderServed | 3 readers, 1 writer, 2 threads |
| `MessageQueue.cfg` | ListExact, HeapExact, Refinement (of FifoQueue) | 2 queues, 3 cells, 2 contents |
| `TopicPair.cfg` | TypeOK, PartitionExclusion, WallExclusion, WallMatchesQueue, NoNullFront, DeliveredBeforeRemoved, EveryRequestAnswered | a producer and a consumer, 2 partitions, 2 pushes |
| `TopicAny.cfg` | PartitionExclusion, WallMatchesQueue, RemovalsMatch | 2 sessions pushing and deleting anything in any order, one of them pulling; 1 partition, 2 pushes |
| `RegistryRace.cfg` | ReturnedTopicAlive, TopicsOwned | 2 threads, 1 restart |
| `Session.cfg` | TypeOK, AnsweredInOrder, AckedPushesKept, EveryRequestAnswered | 2 connections, one with 19 kinds of requests that pass and fail every check and one with 4; 2 threads, 3 requests |
| `Broker.cfg` | RunsOnLiveServer, CleanShutdown, SingleFrame, ShutdownCompletes, EveryClientEnds | 2 threads, 2 clients, one that pushes and one with five kinds of command lines; a signal at any time; 1 fault |

Runs in which the code disagrees with what the repository says (each is a
finding in `PROJECT.json`):

| Run | What TLC shows |
|---|---|
| `SharedMutexExclusion.cfg` | With two writers `unlock`'s loop admits a queued reader next to an active writer: it releases `state_mutex_` around a reader's handler, the reader leaves, another writer takes the free mutex, a reader queues behind it, and the loop, which tests only `shared_waiters_`, admits it. |
| `TopicNullFront.cfg` | Two consumers pull the last message and both delete it; the second `remove` dereferences a null front. |
| `RegistryWall.cfg` | Two threads handle the first pushes to a topic; both construct it, and the second construction truncates the file in which the first topic has stored its record. |
| `SessionDelete.cfg` | A DELETE for a message that is not at the front removes nothing and is answered OK; `MESSAGE_NOT_FOUND` is never sent. |

Further disagreements are visible in the models, without a run of their own.

Three of them appear when a cfg is changed. In Session AckedPushesKept excepts names
with two topics; without that exception it fails with `ThreadCount = 2`: two threads
handle the first pushes to a topic, both are past emplace's lookup and both link one,
`find` returns the one linked last, and a message in the other, although its push was
answered OK, is seen by no later PULL or DELETE. In Registry WallKeepsStored fails with
one thread and `MaxCrash = 1`: the first push to a topic after a restart truncates its
log, which nothing has read. In Topic DeliveredBeforeRemoved fails with two sessions
that pull and delete and two pushes of one content: both are sent the first message,
both delete it, and the second DELETE removes the other one, which nobody was sent.

Four more can be read off the definitions. In Session a PUSH to partition 1
leads to `undefined = "index"`: topics are created with one partition, and
`storage_` is indexed unchecked. In CommandLine `Usable` is false of all three
examples of the client's help text (`src/rpc-client.cpp:23-25`): `argc` counts the
program's name too, so `push` and `delete` need one word after the message and
`pull` one after the partition, and an option in front is taken for the command.
In Broker EveryClientEnds fails without its exception: after one failed
accept the port stays open and nobody accepts. And a log record
holds a `string_view`, the address of a request buffer that dies with the request,
so the content the README wants to recover is not in the file.

**Why the bounds are enough.** Two threads are what it takes for code outside a
`std::mutex` to interleave, and a third adds only more of the same; direct calls
already put several fibers on one thread. Three fibers beside an owner give a
queue with a first, a middle and a last waiter. Two readers and two writers are
the least for which the loop in `unlock` can be overtaken. Three cells and two
queues reach every shape of the list (empty, one, several cells; both queues in
use) and reuse of freed cells. Two pushes give a second message behind the
first, of equal or different content. The theorems of
section 5 carry the safety properties of the passing runs to all sizes.

Two clients are the least for which one has a session while the other is in the
backlog of a loop that has ended, and for which a session releases a lock to
another one at shutdown; two threads let the posted close and the accept loop
run at the same time. One fault ends the loop or breaks a connection; after the
first end of the loop a second fault can only break another connection.

Two threads and three topic objects are what it takes for one thread to win
and another to lose the race to insert a topic, before and after a restart. Two
requests behind an unanswered one show whether responses keep their order. Two
pushes on two threads are the least for which a topic is linked twice.

In `Broker` one client pushes and the other one may pull, push or delete: that gives
a session that holds the write lock while it awaits the wall's mutex, alone or
behind another one, and shutdowns that find only a pull.

`TopicAny` disables deadlock checking because after `NullFront`
the process has ended; the Registry runs because of `Race`; the
Session runs because connections close and behaviours end where the code is
undefined; `Broker` because clients and broker end. In all other runs a deadlock would be reported.

**What the passing topic runs do not claim.** With two or more writers that
compete with two readers on one partition, the defect of `shared_mutex_t`
reaches the topic as well; `TopicAny` and `TopicPair` have two
sessions, for which exclusion holds.

## 4. Fairness

* A thread goes on with the fiber on top of its call stack (weak fairness of
  the fiber's steps): operating-system scheduling.
* A posted handler is eventually taken (strong fairness of `Dispatch`/`Resume`):
  `io_context` serves its queue in order, and threads become idle again and
  again.
* In the mutex models, I/O awaited under a guard completes, and a fiber does not
  hold a guard for ever (strong fairness of the unlock actions): every guard in
  the broker is scoped to a block without loops. The code gives I/O no timeout,
  so a session that awaits its client may stay `outside`/`idle` for ever; no
  fairness is assumed there, and none is needed because no guard is held.
* In Session, a session that has something to read or to do goes on (weak
  fairness of `Step`): its I/O completes or the connection breaks, and the
  topic's operations end, which is what EveryRequestAnswered of Topic says for
  the loads checked there. Nothing is assumed about `Send` and `Break`.
* In Broker, the broker process takes a step when it can, and so do the clients
  that have been started (one weak fairness condition each; nothing about which
  of several possible steps). Nothing is assumed about signals, faults, or
  whether clients are started.
* Nothing is assumed about which thread takes a handler.

With two or more writers, readers of `shared_mutex_t` can starve (every unlock
prefers queued writers), and `unlock`'s loop need not end while readers keep
queueing behind new writers; these properties are therefore checked for one
writer only.

## 5. Theorems

Every invariant, every action property and the refinement that a passing run
checks is also stated by a theorem, for arbitrary threads, fibers, sessions,
partitions, names and bounds, some under a hypothesis that is named below. The liveness properties (EveryWaiterServed,
EveryWriterServed, EveryReaderServed, UnlockReturns, EveryRequestAnswered,
ShutdownCompletes, EveryClientEnds) are only model-checked: fairness and ENABLED
are out of the prover's reach.

* **Executor_proofs**: lemmas on what `Leave`, `Call`, `TakePosted` and `Post` do
  to the stacks, to `OnStack` and to `SingleFrame`; cited by the proofs about the
  mutexes, the topic and the broker.
* **UniqueMutex_proofs**. `TypeCorrect`; `Exclusive` (MutualExclusion);
  `WakeupsExact` (NoLostWakeup); `WaitersKnown` (WaitersExact);
  `NoFiberResumedTwice` (SingleFrame); `ArrivalOrder` (NoBarging). The inductive
  invariant `IInv` is the conjunction of the type invariant with all four state
  properties. MutualExclusion alone is not inductive: `unlock` makes the first
  waiter the owner, so one has to know that a queued fiber owns nothing and is
  queued once, that a locked mutex has an owner, and that a fiber occupies one
  place only.
* **SharedMutex_proofs**. `TypeCorrect` (no counter wraps around),
  `CountersAgree` (CountersExact), `NobodyForgotten` (NoLostWakeup) and
  `NoFiberResumedTwice` (SingleFrame), for any readers and writers. `IInv` adds
  `QueuesExact` (the queues list exactly the waiting fibers, which are at rest)
  and `FlagOwned` (`writer_active_` is never left set without a writer; the
  converse fails with two writers). Cardinality facts from FiniteSetTheorems
  relate `reader_count_` to the set of readers; hence the assumption that
  `Fibers` is finite. `OneWriterExclusion`: if at most one fiber writes, Exclusion
  holds. Its invariant adds that only fibers of `Writers` hold the exclusive guard
  and that the flag is set whenever there is a writer; the point of the proof is
  that while the only writer is inside the loop nobody can take the mutex
  exclusively.
* **MessageQueue_proofs**. `ListsAgree` (ListExact), `HeapAgrees` (HeapExact) and
  `ListRefinesQueues` (Refinement), for any queues and any finite heap. The
  properties speak of what a walk over the list computes; the inductive invariant
  `HeapInv` speaks of single links: the cells up to `size_ - 1` links after `head_`
  are in use, the last of them is `tail_` and its `next_` is NULL (`Lists`), two
  queues have no cell in common and none is met twice (`Separate`), and every cell
  in use is met (`Reached`). A recursive function gives the cell `i` links away;
  that the function exists (`Iteration`) and what it computes for every `i` comes
  from the least number principle (`LeastNatural`, from the well-foundedness of
  `<`), by taking the least `i` at which a claim would fail. That the walk of the
  destructor ends is a pigeonhole argument over the finite heap. For the
  refinement, each operation on cells is shown to be the operation of FifoQueue
  on `Content` and `Cursor`.
* **Topic_proofs**. `TypeCorrect`, `OneWallWriter` (WallExclusion) and
  `NoFiberResumedTwice`, for any sessions. Their invariant `TopicInv` says, for
  each point of `push`, `read` and `remove`, which guards the session holds or
  waits for, and that the queues and counters of the wall mutex and of each
  partition's mutex agree with that.
  `WriterAlone` (PartitionExclusion), `FileFollowsQueue` (WallMatchesQueue) and
  `RemovalsFollowPushes` (RemovalsMatch) assume `FewSessions`: no three different
  sessions of which two write and one reads (any number of sessions that only
  push, one session that writes beside any that only pull, or any two sessions).
  With a pusher, a deleter and a puller the loop of `shared_mutex_t::unlock` can
  let a reader in beside a writer, the schedule of the run shared_mutex_exclusion,
  and WriterAlone fails; a fourth session that pushes is then let in beside the
  writer when the reader leaves, and the log and the queue part. The invariant
  `Files` carries which record of the log is the k-th push of a partition and
  which message it stands for; the log itself only gives counts and contents.
  `ConsumerMeetsNoNullFront` (NoNullFront) and `AtLeastOnce`
  (DeliveredBeforeRemoved) assume `OneConsumer` as well: one session pulls and
  deletes, and it deletes what it has pulled. The invariant is that what the consumer
  has read is still at the front. Responses may be lost. Two consumers are
  enough to break either property: the run topic_null_front shows it for the first,
  and section 3 says how for the second. `FewSessions` is needed because Topic takes an operation on the
  message queue as one step, which is what the partition's lock gives when writers
  exclude each other.
* **Registry_proofs**. `ReturnedTopicsLive` (ReturnedTopicAlive) and `NoTopicLeaks`
  (TopicsOwned), for any threads, although nothing locks `topics_`. `OwnershipInv`
  adds that linked topics are alive, that the topic a thread is inserting is alive,
  not linked and in no other thread's hands (so destroying it after a lost race
  takes it from nobody), and that a topic a thread uses is linked.
  `OneThreadKeepsStored` (WallKeepsStored): with one thread and no restart every
  stored record stays in its topic's file. Both hypotheses are needed: a second thread
  (the run registry_wall) or the first request after a restart constructs a topic
  whose file has records, and truncates it.
* **Session_proofs**. `TypeCorrect`; `ResponsesInOrder` (AnsweredInOrder): `OrderInv`
  relates, per session, the number of requests read, the number of responses sent
  and the point the session is at, and the pending response to the request it
  answers; both for any number of threads. `AckedPushesAreKept` (AckedPushesKept),
  also for any number of threads: `KeptInv` counts, for a name with at most one topic,
  the answered pushes of one message together with those about to be answered, at most
  as many as the queue and `removed` hold; the second part is what makes it inductive.
  Topics are only added, so a name that has one now never had two; linking the first one
  changes nothing that was pushed, and linking another one ends what the property says
  of the name. `OneThreadOneTopic` assumes `ThreadCount = 1` and says that this never
  happens then: `SingleInv` says that at most one session is inside
  `get_or_create_topic`, that the topic it looked for is still missing, and so that a
  name has at most one topic.
* **Broker_proofs**. `ServerOutlivesHandlers` (RunsOnLiveServer), for any threads,
  connections, command lines and faults. The property alone is not inductive:
  `ThreadsExact` adds that only threads inside `run()` have handlers on their
  stacks, which a hand-over or a step of a handler keeps, and that all threads
  have returned from it once `main` is past the join. `NoFiberResumedTwice`
  (SingleFrame): the invariant `BrokerInv` adds `PlacedExact` (the accept loop, the
  posted close and each session are on a stack or posted only at the points where
  they are being resumed, or when the mutex that held the session's handler is
  destroyed) and `AcceptedOnce` (a connection is accepted once).
  `QuietShutdownIsClean` (CleanShutdown): the invariant `Unanswered` adds that a request is
  kept until its session answers it, and that a session at or past the write lock
  has a push or a delete to answer. ServerOutlivesHandlers is about what threads
  run, QuietShutdownIsClean about what is destroyed after the server; together they
  say that nothing of the server is used after its end unless a push or a delete
  is cut off.

Assumptions on constants: `Fibers = Readers \cup Writers`, `Fibers` finite,
`AwaitUnder` a set of guards (SharedMutex); the fibers of Server are the
connections and two others, and no connection is one of the values that mark the
states of the loop; `Fibers` finite, at least one partition, and special values
distinct from the ordinary ones (Topic); `Cells` finite (MessageQueue: the heap of
a process is); Registry and Session assume the obvious about their sizes and
values.

## 6. Abstractions

* A stored handler is the fiber it resumes. Allocation of handlers never fails.
* `size_t` counters are naturals; the type invariant shows that they do not step
  below zero, and they count fibers, so they stay far below 2^64.
* Message contents are model values; a message carries a number as history, so
  that messages of equal content can be told apart in properties.
* `topic_t` is exercised with indices of existing partitions only.
* The topic's own `mutex_` (`read_lock`, `write_lock` of `topic_t`) and the mutex
  in `wall_writer_t` are used by nobody and are left out.
* In Topic a response is written in one step, or lost, and a session whose
  connection breaks goes on with a new one. In Session a topic operation is one
  step; Topic has those it is made of. The construction of a topic, which only
  touches its file, is in Registry; Session has it in the step that finds none.
* In Server the awaiting of `async_write` is part of the step that answers: the
  suspension holds no guard, and a connection that breaks there ends the session
  as one that breaks before.
* In Broker what a request does to a topic is left to Session and Topic: a request
  is answered, or waits for the locks of a topic operation, which it gets. Behaviours in which
  a request makes the broker do something undefined are those of Session.
  The acceptor's backlog is large enough; a response is read as one unit; nobody
  listens on other ports. `exit` statuses are left out (the client returns 0 also
  for a response with an error code).
* The data race of `close` and `async_accept` on the acceptor has three outcomes:
  either one first, or an accept that starts but is never aborted.
* Opening a topic's file succeeds: the `kassert` in `wall_writer_t`, which ends the
  broker for a name that the file system refuses, is left out.
* A mutex that is unlocked after it was destroyed ends the process or hangs it.
* The data race on `topics_` has the outcomes of some interleaving of its steps, or
  ends the process; other outcomes of undefined behaviour are not enumerated.
* The restart of Registry's `Crash` finds what `store` has flushed; a file system
  that loses flushed data is not modelled.

## 7. Not modelled, and the plan

* **Session on Topic.** Session takes a topic operation in one step and Topic has only
  the loss of a response of a broken connection; one module with both multiplies two large state spaces.
* **Message packing**: `next_` and `data_len_` in 47 and 16 bits. Lengths come from
  16-bit fields and user-space addresses fit 47 bits, so packing loses nothing.
* **Moves of lock guards**: a move passes the pointer on and changes no mutex.

Of the proofs, only those of the liveness properties are open, and they stay with
TLC. A theorem about Session on Topic would need the composed module first.

Out of scope: vendored libraries (`third-party/`), logging and formatting,
`concepts.h` and `kassert.h` (no state), the bit packing of `message_t`.
