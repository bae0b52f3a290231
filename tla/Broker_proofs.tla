---------------------------- MODULE Broker_proofs ----------------------------
(***************************************************************************)
(* Theorems about Broker, for any threads, connections, command lines and  *)
(* numbers of faults.                                                      *)
(***************************************************************************)
EXTENDS Broker, Executor_proofs, TLAPS

\* A thread has handlers on its stack only while it is in io_ctx.run(), and
\* every thread has left it when main goes on after joining.
ThreadsExact ==
    /\ stack \in [Threads -> Seq(Fibers)]
    /\ thread \in [Threads -> {"none", "run", "returned"}]
    /\ \A t \in Threads : thread[t] # "run" => stack[t] = <<>>
    /\ main \in {"destroy", "context", "exited", "undefined"} =>
          \A t \in Threads : thread[t] = "returned"

\* Initially no thread exists.
LEMMA ThreadsInit == Init => ThreadsExact
  BY DEF Init, ServerInit, ExecInit, ThreadsExact

\* A step that leaves main, the threads and the stacks alone, or only takes
\* the top off the stack of a thread that runs something.
LEMMA PopKeepsThreads ==
    ASSUME ThreadsExact, NEW t \in Threads, stack[t] # <<>>, Leave(t),
           UNCHANGED <<main, thread>>
    PROVE  ThreadsExact'
  <1>1. thread[t] = "run"
    BY DEF ThreadsExact
  <1>2. Tail(stack[t]) \in Seq(Fibers)
    BY DEF ThreadsExact
  <1> QED
    BY <1>1, <1>2 DEF ThreadsExact, Leave

\* The steps of main.
LEMMA MainKeepsThreads == ThreadsExact /\ Main => ThreadsExact'
  <1> SUFFICES ASSUME ThreadsExact, Main PROVE ThreadsExact'
    OBVIOUS
  <1>1. CASE Start
    BY <1>1 DEF Start, ThreadsExact
  <1>2. ASSUME NEW t \in Threads, CreateThread(t) PROVE ThreadsExact'
    BY <1>2 DEF CreateThread, ThreadsExact
  <1>3. CASE Stop
    BY <1>3 DEF Stop, ThreadsExact
  <1>4. CASE StopContext
    BY <1>4 DEF StopContext, ThreadsExact
  <1>5. CASE Join
    BY <1>5 DEF Join, ThreadsExact
  <1>6. CASE DestroyServer
    BY <1>6 DEF DestroyServer, ThreadsExact
  <1>7. CASE DestroyContext
    BY <1>7 DEF DestroyContext, ThreadsExact
  <1> QED
    BY <1>1, <1>2, <1>3, <1>4, <1>5, <1>6, <1>7 DEF Main

\* The steps of the threads.
LEMMA RunKeepsThreads ==
    ASSUME ThreadsExact, NEW t \in Threads, Run(t)
    PROVE  ThreadsExact'
  <1>1. Leave(t) /\ UNCHANGED <<main, thread>>
    BY DEF Run, RunAcceptLoop, CloseAcceptor, RunSession, Suspend
  <1>2. stack[t] # <<>>
    BY DEF Run, RunAcceptLoop, CloseAcceptor, RunSession, Running
  <1> QED
    BY <1>1, <1>2, PopKeepsThreads

\* Every step of the broker and of the clients.
LEMMA ThreadsStep == ThreadsExact /\ [Next]_vars => ThreadsExact'
  <1> SUFFICES ASSUME ThreadsExact, [Next]_vars PROVE ThreadsExact'
    OBVIOUS
  <1>1. CASE Main
    BY <1>1, MainKeepsThreads
  <1>2. ASSUME NEW t \in Threads, Return(t) PROVE ThreadsExact'
    BY <1>2 DEF Return, ThreadsExact
  <1>3. ASSUME NEW t \in Threads, Run(t) PROVE ThreadsExact'
    BY <1>3, RunKeepsThreads
  <1>4. ASSUME NEW t \in Threads, NEW f \in Fibers, Take(t, f) PROVE ThreadsExact'
    BY <1>4 DEF Take, TakePosted, ThreadsExact
  <1>5. ASSUME NEW t \in Threads, NEW f \in Connections, NEW c \in Connections,
               HandOver(t, f, c)
        PROVE  ThreadsExact'
    <2>1. stack[t] # <<>> /\ thread[t] = "run"
      BY <1>5 DEF HandOver, Running, ThreadsExact
    <2>2. c \in Fibers
      BY ServerAssumption
    <2>3. <<c>> \o stack[t] \in Seq(Fibers)
      BY <2>2 DEF ThreadsExact
    <2> QED
      BY <1>5, <2>1, <2>3 DEF HandOver, Call, ThreadsExact
  <1>6. ASSUME NEW c \in Connections, AcceptReady(c) \/ ReadReady(c) \/ TopicReady(c)
        PROVE  ThreadsExact'
    BY <1>6 DEF AcceptReady, ReadReady, TopicReady, Polled, ThreadsExact
  <1>7. CASE Signal \/ Fault
    BY <1>7 DEF Signal, Fault, AcceptFails, Break, Polled, brokerVars, ThreadsExact
  <1>8. ASSUME NEW c \in Connections, StartClient(c) \/ Client(c) PROVE ThreadsExact'
    BY <1>8 DEF StartClient, Client, Connect, SendRequest, Receive, brokerVars, ThreadsExact
  <1>9. CASE UNCHANGED vars
    BY <1>9 DEF vars, brokerVars, ThreadsExact
  <1> QED
    BY <1>1, <1>2, <1>3, <1>4, <1>5, <1>6, <1>7, <1>8, <1>9 DEF Next, Broker

\* No handler runs once the server has been destroyed: main destroys it after
\* joining threads that have left run() with an empty stack, and a stopped
\* context gives none of them another handler.
THEOREM ServerOutlivesHandlers == Spec => []RunsOnLiveServer
  <1>1. ThreadsExact => RunsOnLiveServer
    BY DEF ThreadsExact, RunsOnLiveServer
  <1> QED
    BY <1>1, ThreadsInit, ThreadsStep, PTL DEF Spec

-----------------------------------------------------------------------------
(* No fiber of the broker is resumed twice *)

\* Fiber f runs, or has been called or posted to run.
Placed(f) == f \in ready \/ OnStack(f)

\* The accept loop is placed only when it has something to resume with, a
\* session only when what it awaited has completed, and the handler of stop()
\* only once main has called it.
PlacedExact ==
    /\ Placed(AcceptLoop) => loop \in {"begin", "error"} \cup Connections
    /\ \A c \in Connections :
          Placed(c) =>
              \/ session[c] \in {"begin", "request", "read", "write", "wall", "eof"}
              \/ session[c] \in Awaiting /\ main \in {"context", "exited", "undefined"}
    /\ main \in {"start", "threads"} => ~Placed(Close)
    /\ main = "start" => loop = "none"

\* A connection is accepted once: until its session begins it is with the
\* client, in the backlog, or what the accept loop resumes with.
AcceptedOnce ==
    \A c \in Connections :
        /\ c \in backlog \/ loop = c => session[c] = "none"
        /\ c \in backlog => loop # c
        /\ client[c] \in {"start", "connect"} =>
              session[c] = "none" /\ c \notin backlog /\ loop # c

\* Where a session may stand.
Points == {"none", "begin", "reading", "request", "eof", "ended"}
          \cup Awaiting \cup {"read", "write", "wall"}

\* The inductive invariant.
BrokerInv ==
    /\ ThreadsExact
    /\ ready \subseteq Fibers
    /\ session \in [Connections -> Points]
    /\ client \in [Connections -> {"start", "connect", "send", "receive", "ended"}]
    /\ SingleFrame /\ PlacedExact /\ AcceptedOnce

\* The coroutines and the handler are different fibers.
LEMMA FibersDiffer ==
    /\ AcceptLoop \in Fibers /\ Close \in Fibers /\ AcceptLoop # Close
    /\ \A c \in Connections : c \in Fibers /\ c # AcceptLoop /\ c # Close
    /\ \A c \in Connections : c \notin {"none", "begin", "pending", "error", "ended"}
BY ServerAssumption

\* A lock that is awaited is granted; that of the wall as such.
LEMMA GrantedLock ==
    \A lock \in Awaiting :
        /\ Granted(lock) \in {"read", "write", "wall"}
        /\ Granted(lock) = "wall" => lock = "wall lock"
BY DEF Granted, Awaiting

\* What a session releases is a lock.
LEMMA ReleasesAwaited ==
    \A point \in {"read", "write", "wall"} :
        \A lock \in Releases(point) : lock \in Awaiting
BY DEF Releases, Awaiting

\* The executor's types.
LEMMA BrokerExec == BrokerInv => ExecTypeOK
BY DEF BrokerInv, ThreadsExact, ExecTypeOK

\* Nothing is posted and the stacks stay as they are.
LEMMA SameStacks ==
    ASSUME BrokerInv, UNCHANGED stack, ready' \subseteq ready
    PROVE  SingleFrame' /\ \A g : Placed(g)' => Placed(g)
<1>1. \A g : OnStack(g)' <=> OnStack(g)
  BY DEF OnStack
<1>2. FramesDiffer'
  <2>1. FramesDiffer
    BY SingleFrameParts DEF BrokerInv
  <2>2. QED
    BY <2>1 DEF FramesDiffer
<1>3. QED
  BY <1>1, <1>2 DEF SingleFrame, FramesDiffer, Placed, BrokerInv

\* A fiber at rest is posted while the stacks stay as they are.
LEMMA PostPlaced ==
    ASSUME BrokerInv, NEW f \in Fibers, ~OnStack(f), Post(f), UNCHANGED stack
    PROVE  /\ SingleFrame' /\ ready' \subseteq Fibers
           /\ \A g : Placed(g)' => Placed(g) \/ g = f
<1>1. SingleFrame'
  BY PostSingle DEF BrokerInv
<1>2. \A g : OnStack(g)' <=> OnStack(g)
  BY DEF OnStack
<1>3. QED
  BY <1>1, <1>2 DEF Post, Placed, BrokerInv

\* The running fiber suspends: it stays placed only if it has been posted.
LEMMA LeavePlaced ==
    ASSUME BrokerInv, NEW t \in Threads, NEW f \in Fibers, Running(t, f), Leave(t),
           NEW posted, posted \subseteq Fibers, ready' = ready \cup posted,
           \A g \in posted : g = f \/ ~OnStack(g)
    PROVE  /\ SingleFrame' /\ ready' \subseteq Fibers
           /\ \A g : Placed(g)' => g \in posted \/ (Placed(g) /\ g # f)
           /\ Placed(f)
<1>1. ExecTypeOK /\ SingleFrame
  BY BrokerExec DEF BrokerInv
<1>2. SingleFrame' /\ \A g : OnStack(g)' => OnStack(g) /\ g # f
  BY <1>1, LeavePostSingle, LeaveOnStack
<1>3. OnStack(f)
  BY <1>1, LeaveStack DEF OnStack
<1>4. f \notin ready
  BY <1>1, <1>3 DEF SingleFrame
<1>5. QED
  BY <1>2, <1>3, <1>4 DEF Placed, BrokerInv

\* ... and no longer if nothing has been posted.
LEMMA JustLeavePlaced ==
    ASSUME BrokerInv, NEW t \in Threads, NEW f \in Fibers, Running(t, f), Leave(t),
           UNCHANGED ready
    PROVE  /\ SingleFrame' /\ ready' \subseteq Fibers
           /\ \A g : Placed(g)' => Placed(g) /\ g # f
<1> DEFINE posted == {}
<1>1. /\ posted \subseteq Fibers /\ ready' = ready \cup posted
      /\ \A g \in posted : g = f \/ ~OnStack(g)
  OBVIOUS
<1>2. /\ SingleFrame' /\ ready' \subseteq Fibers
      /\ \A g : Placed(g)' => g \in posted \/ (Placed(g) /\ g # f)
  <2> HIDE DEF posted
  <2>1. QED
    BY <1>1, LeavePlaced
<1>3. QED
  BY <1>2

\* A fiber that runs on a thread is placed.
LEMMA RunningPlaced ==
    ASSUME BrokerInv, NEW t \in Threads, NEW f \in Fibers, Running(t, f)
    PROVE  Placed(f)
<1>1. stack[t] \in Seq(Fibers) /\ stack[t] # <<>> /\ f = Head(stack[t])
  BY DEF Running, BrokerInv, ThreadsExact
<1>2. 1 \in 1..Len(stack[t]) /\ stack[t][1] = f
  BY <1>1
<1>3. QED
  BY <1>2 DEF Placed, OnStack

\* The steps of main: it posts the accept loop before it runs and the handler
\* that closes the acceptor at most once while threads run.
LEMMA MainKeepsPlaces ==
    ASSUME BrokerInv, ThreadsExact', Main, UNCHANGED clientVars
    PROVE  BrokerInv'
<1> USE FibersDiffer DEF BrokerInv
<1>1. CASE Start
  <2>1. main = "start" /\ loop = "none" /\ main' = "threads" /\ loop' = "begin"
    BY <1>1 DEF Start, PlacedExact
  <2>2. ~Placed(AcceptLoop) /\ Post(AcceptLoop) /\ UNCHANGED <<stack, session, backlog>>
    BY <1>1, <2>1 DEF Start, PlacedExact, wireVars
  <2>3. /\ SingleFrame' /\ ready' \subseteq Fibers
        /\ \A g : Placed(g)' => Placed(g) \/ g = AcceptLoop
    BY <2>2, PostPlaced DEF Placed
  <2>4. PlacedExact'
    BY <2>1, <2>2, <2>3 DEF PlacedExact
  <2>5. AcceptedOnce'
    BY <2>1, <2>2 DEF AcceptedOnce, clientVars
  <2>6. QED
    BY <2>2, <2>3, <2>4, <2>5 DEF clientVars
<1>2. CASE Stop
  <2>1. /\ main = "threads" /\ main' = "stopping"
        /\ Post(Close) /\ UNCHANGED <<stack, loop, session, backlog>>
    BY <1>2 DEF Stop, wireVars
  <2>2. ~OnStack(Close)
    BY <2>1 DEF PlacedExact, Placed
  <2>3. /\ SingleFrame' /\ ready' \subseteq Fibers
        /\ \A g : Placed(g)' => Placed(g) \/ g = Close
    BY <2>1, <2>2, PostPlaced
  <2>4. PlacedExact'
    BY <2>1, <2>3 DEF PlacedExact
  <2>5. AcceptedOnce'
    BY <2>1 DEF AcceptedOnce, clientVars
  <2>6. QED
    BY <2>1, <2>3, <2>4, <2>5 DEF clientVars
<1>3. CASE (\E t \in Threads : CreateThread(t)) \/ StopContext \/ Join \/ DestroyContext
  <2>1. /\ UNCHANGED <<stack, loop, session, backlog>> /\ ready' \subseteq ready
        /\ main' = "threads" => main = "threads"
        /\ main' # "start"
        /\ main \in {"context", "exited", "undefined"} =>
              main' \in {"context", "exited", "undefined"}
    BY <1>3 DEF CreateThread, StopContext, Join, DestroyContext, wireVars
  <2>2. SingleFrame' /\ \A g : Placed(g)' => Placed(g)
    BY <2>1, SameStacks
  <2>3. PlacedExact'
    BY <2>1, <2>2 DEF PlacedExact
  <2>4. AcceptedOnce'
    BY <2>1 DEF AcceptedOnce, clientVars
  <2>5. QED
    BY <2>1, <2>2, <2>3, <2>4 DEF clientVars
<1>4. CASE DestroyServer
  <2>1. /\ main = "destroy" /\ main' = "context" /\ UNCHANGED <<stack, loop, session>>
        /\ backlog' \subseteq backlog
    BY <1>4 DEF DestroyServer, ResetBacklog
  <2>2. \A t \in Threads : stack[t] = <<>>
    BY <2>1 DEF ThreadsExact
  <2>3. \A g : ~OnStack(g) /\ ~OnStack(g)'
    BY <2>1, <2>2, IdleOnStack DEF OnStack
  <2>4. ready' = ready \cup {Close} \cup {c \in Connections : session[c] \in Awaiting}
    BY <1>4 DEF DestroyServer
  <2>5. SingleFrame'
    <3>1. FramesDiffer
      BY SingleFrameParts
    <3>2. FramesDiffer'
      BY <2>1, <3>1 DEF FramesDiffer
    <3>3. QED
      BY <2>3, <3>2 DEF SingleFrame, FramesDiffer
  <2>6. PlacedExact'
    <3>1. ~(AcceptLoop \in {Close} \cup Connections)
      OBVIOUS
    <3>2. QED
      BY <2>1, <2>3, <2>4, <3>1 DEF PlacedExact, Placed
  <2>7. AcceptedOnce'
    BY <2>1 DEF AcceptedOnce, clientVars
  <2>8. QED
    BY <2>1, <2>4, <2>5, <2>6, <2>7 DEF clientVars
<1>5. QED
  BY <1>1, <1>2, <1>3, <1>4 DEF Main

\* What a thread that waits for I/O posts was pending, so it was at rest.
LEMMA PolledKeepsPlaces ==
    ASSUME BrokerInv, ThreadsExact', UNCHANGED clientVars,
           \/ AcceptFails
           \/ \E c \in Connections : AcceptReady(c) \/ ReadReady(c) \/ TopicReady(c)
    PROVE  BrokerInv'
<1> USE FibersDiffer DEF BrokerInv
<1>1. CASE AcceptFails
  <2>1. loop = "pending" /\ loop' = "error" /\ Post(AcceptLoop)
        /\ UNCHANGED <<stack, main, session, backlog>>
    BY <1>1 DEF AcceptFails, Polled
  <2>2. ~Placed(AcceptLoop) /\ main # "start"
    BY <2>1 DEF PlacedExact
  <2>3. /\ SingleFrame' /\ ready' \subseteq Fibers
        /\ \A g : Placed(g)' => Placed(g) \/ g = AcceptLoop
    BY <2>1, <2>2, PostPlaced DEF Placed
  <2>4. PlacedExact'
    BY <2>1, <2>2, <2>3 DEF PlacedExact
  <2>5. AcceptedOnce'
    BY <2>1 DEF AcceptedOnce, clientVars
  <2>6. QED
    BY <2>1, <2>3, <2>4, <2>5 DEF clientVars
<1>2. ASSUME NEW c \in Connections, AcceptReady(c)
      PROVE  BrokerInv'
  <2>1. /\ loop = "pending" /\ loop' = c /\ Post(AcceptLoop)
        /\ c \in backlog /\ backlog' = backlog \ {c}
        /\ UNCHANGED <<stack, main, session>>
    BY <1>2 DEF AcceptReady, Polled
  <2>2. ~Placed(AcceptLoop) /\ main # "start"
    BY <2>1 DEF PlacedExact
  <2>3. /\ SingleFrame' /\ ready' \subseteq Fibers
        /\ \A g : Placed(g)' => Placed(g) \/ g = AcceptLoop
    BY <2>1, <2>2, PostPlaced DEF Placed
  <2>4. PlacedExact'
    BY <2>1, <2>2, <2>3 DEF PlacedExact
  <2>5. AcceptedOnce'
    BY <2>1 DEF AcceptedOnce, clientVars
  <2>6. QED
    BY <2>1, <2>3, <2>4, <2>5 DEF clientVars
<1>3. ASSUME NEW c \in Connections, ReadReady(c) \/ TopicReady(c)
      PROVE  BrokerInv'
  <2>1. /\ session[c] \in {"reading"} \cup Awaiting /\ Post(c)
        /\ UNCHANGED <<stack, main, loop, backlog>>
        /\ \E t \in Threads : thread[t] = "run"
    BY <1>3 DEF ReadReady, TopicReady, Polled, wireVars
  <2>2. PICK point \in {"request", "eof", "read", "write", "wall"} :
          session' = [session EXCEPT ![c] = point]
    BY <1>3, GrantedLock DEF ReadReady, TopicReady, SessionAt
  <2>3. ~Placed(c)
    BY <2>1 DEF PlacedExact, ThreadsExact, Awaiting
  <2>4. /\ SingleFrame' /\ ready' \subseteq Fibers
        /\ \A g : Placed(g)' => Placed(g) \/ g = c
    BY <2>1, <2>3, PostPlaced DEF Placed
  <2>5. PlacedExact'
    BY <2>1, <2>2, <2>4 DEF PlacedExact
  <2>6. AcceptedOnce'
    BY <2>1, <2>2 DEF AcceptedOnce, clientVars, Awaiting
  <2>7. session' \in [Connections -> Points]
    BY <2>2 DEF Points
  <2>8. QED
    BY <2>4, <2>5, <2>6, <2>7 DEF clientVars
<1>4. QED
  BY <1>1, <1>2, <1>3

\* A thread takes a handler, or a session that releases a lock calls another
\* one, which awaited it.
LEMMA StacksKeepPlaces ==
    ASSUME BrokerInv, ThreadsExact', UNCHANGED clientVars, NEW t \in Threads,
           \/ \E f \in Fibers : Take(t, f)
           \/ \E f, c \in Connections : HandOver(t, f, c)
    PROVE  BrokerInv'
<1> USE FibersDiffer DEF BrokerInv
<1>1. ASSUME NEW f \in Fibers, Take(t, f)
      PROVE  BrokerInv'
  <2>1. TakePosted(t, f) /\ UNCHANGED <<main, loop, session, backlog>>
    BY <1>1 DEF Take, wireVars
  <2>2. SingleFrame' /\ \A h : OnStack(h)' => OnStack(h) \/ h = f
    BY <2>1, BrokerExec, TakeSingle, TakeOnStack
  <2>3. f \in ready /\ ready' = ready \ {f}
    BY <2>1 DEF TakePosted
  <2>4. \A g : Placed(g)' => Placed(g)
    BY <2>2, <2>3 DEF Placed
  <2>5. PlacedExact' /\ AcceptedOnce'
    BY <2>1, <2>4 DEF PlacedExact, AcceptedOnce, clientVars
  <2>6. QED
    BY <2>1, <2>2, <2>3, <2>5 DEF clientVars
<1>2. ASSUME NEW f \in Connections, NEW c \in Connections, HandOver(t, f, c)
      PROVE  BrokerInv'
  <2>1. /\ session[c] \in Awaiting
        /\ session' = [session EXCEPT ![c] = Granted(session[c])]
        /\ Call(t, c) /\ UNCHANGED <<ready, main, loop, backlog>>
    BY <1>2, ReleasesAwaited DEF HandOver, SessionAt, wireVars
  <2>a. Granted(session[c]) \in {"read", "write", "wall"}
    BY <2>1, GrantedLock
  <2>b. main \notin {"context", "exited", "undefined"}
    BY <1>2 DEF HandOver, Running, ThreadsExact
  <2>2. ~OnStack(c) /\ c \notin ready
    BY <2>1, <2>b DEF PlacedExact, Placed, Awaiting
  <2>3. SingleFrame' /\ \A h : OnStack(h)' => OnStack(h) \/ h = c
    BY <2>1, <2>2, BrokerExec, CallSingle, CallOnStack
  <2>4. \A g : Placed(g)' => Placed(g) \/ g = c
    BY <2>1, <2>3 DEF Placed
  <2>5. PlacedExact'
    BY <2>1, <2>a, <2>4 DEF PlacedExact
  <2>6. AcceptedOnce'
    BY <2>1, <2>a DEF AcceptedOnce, clientVars, Awaiting
  <2>7. session' \in [Connections -> Points]
    BY <2>1, <2>a DEF Points
  <2>8. QED
    BY <2>1, <2>3, <2>5, <2>6, <2>7 DEF clientVars
<1>3. QED
  BY <1>1, <1>2

\* The accept loop suspends with an accept pending or its handler posted, or
\* ends; the session it posts has just begun.
LEMMA AcceptKeepsPlaces ==
    ASSUME BrokerInv, ThreadsExact', UNCHANGED clientVars, NEW t \in Threads,
           RunAcceptLoop(t)
    PROVE  BrokerInv'
<1> USE FibersDiffer DEF BrokerInv
<1>1. /\ Running(t, AcceptLoop) /\ Leave(t) /\ UNCHANGED <<main, backlog>>
      /\ Placed(AcceptLoop) /\ main # "start"
  BY RunningPlaced DEF RunAcceptLoop, Suspend, wireVars, PlacedExact
<1>2. CASE loop = "begin" \/ loop' = "ended"
  <2> DEFINE posted == IF loop' = "error" THEN {AcceptLoop} ELSE {}
  <2>1. ready' = ready \cup posted
    BY <1>2 DEF RunAcceptLoop, Accept
  <2>2. UNCHANGED session /\ loop' \in {"pending", "error", "ended"}
    BY <1>2 DEF RunAcceptLoop, Accept
  <2>3. /\ SingleFrame' /\ ready' \subseteq Fibers
        /\ \A g : Placed(g)' => g \in posted \/ (Placed(g) /\ g # AcceptLoop)
    <3>1. posted \subseteq Fibers /\ \A g \in posted : g = AcceptLoop
      OBVIOUS
    <3> HIDE DEF posted, BrokerInv
    <3>2. QED
      BY <1>1, <2>1, <3>1, LeavePlaced
  <2>4. PlacedExact'
    BY <1>1, <2>1, <2>2, <2>3 DEF PlacedExact
  <2>5. AcceptedOnce'
    BY <1>1, <2>2 DEF AcceptedOnce, clientVars
  <2>6. QED
    BY <2>2, <2>3, <2>4, <2>5 DEF clientVars
<1>3. CASE loop # "begin" /\ loop' # "ended"
  <2>1. PICK c \in Connections :
          /\ loop = c /\ Accept({c})
          /\ session' = [session EXCEPT ![c] = "begin"]
    BY <1>3 DEF RunAcceptLoop
  <2>2. session[c] = "none" /\ c \notin backlog /\ client[c] \notin {"start", "connect"}
    BY <2>1 DEF AcceptedOnce
  <2>3. ~Placed(c)
    BY <2>2 DEF PlacedExact, Awaiting
  <2> DEFINE posted == IF loop' = "error" THEN {c, AcceptLoop} ELSE {c}
  <2>4. ready' = ready \cup posted
    BY <2>1 DEF Accept
  <2>5. loop' \in {"pending", "error"}
    BY <2>1 DEF Accept
  <2>6. /\ SingleFrame' /\ ready' \subseteq Fibers
        /\ \A g : Placed(g)' => g \in posted \/ (Placed(g) /\ g # AcceptLoop)
    <3>1. posted \subseteq Fibers /\ \A g \in posted : g = AcceptLoop \/ ~OnStack(g)
      BY <2>3 DEF Placed
    <3> HIDE DEF posted, BrokerInv
    <3>2. QED
      BY <1>1, <2>4, <3>1, LeavePlaced
  <2>7. PlacedExact'
    BY <1>1, <2>1, <2>4, <2>5, <2>6 DEF PlacedExact
  <2>8. AcceptedOnce'
    BY <1>1, <2>1, <2>2, <2>5 DEF AcceptedOnce, clientVars
  <2>9. session' \in [Connections -> Points]
    BY <2>1 DEF Points
  <2>10. QED
    BY <2>6, <2>7, <2>8, <2>9 DEF clientVars
<1>4. QED
  BY <1>2, <1>3

\* The handler of stop() posts the accept loop only if an accept is pending.
LEMMA CloseKeepsPlaces ==
    ASSUME BrokerInv, ThreadsExact', UNCHANGED clientVars, NEW t \in Threads,
           CloseAcceptor(t)
    PROVE  BrokerInv'
<1> USE FibersDiffer DEF BrokerInv
<1>1. /\ Running(t, Close) /\ Leave(t) /\ UNCHANGED <<main, session>> /\ backlog' = {}
      /\ Placed(Close) /\ main # "start"
  BY RunningPlaced DEF CloseAcceptor, Suspend, ResetBacklog, PlacedExact
<1>2. CASE loop = "pending"
  <2> DEFINE posted == {AcceptLoop}
  <2>1. loop' = "error" /\ ready' = ready \cup posted
    BY <1>2 DEF CloseAcceptor, Post
  <2>2. ~OnStack(AcceptLoop)
    BY <1>2 DEF PlacedExact, Placed
  <2>3. /\ SingleFrame' /\ ready' \subseteq Fibers
        /\ \A g : Placed(g)' => g \in posted \/ (Placed(g) /\ g # Close)
    <3>1. posted \subseteq Fibers /\ \A g \in posted : g = Close \/ ~OnStack(g)
      BY <2>2
    <3> HIDE DEF posted, BrokerInv
    <3>2. QED
      BY <1>1, <2>1, <3>1, LeavePlaced
  <2>4. PlacedExact'
    BY <1>1, <2>1, <2>3 DEF PlacedExact
  <2>5. AcceptedOnce'
    BY <1>1, <2>1 DEF AcceptedOnce, clientVars
  <2>6. QED
    BY <1>1, <2>3, <2>4, <2>5 DEF clientVars
<1>3. CASE loop # "pending"
  <2>1. UNCHANGED <<loop, ready>>
    BY <1>3 DEF CloseAcceptor
  <2>2. /\ SingleFrame' /\ ready' \subseteq Fibers
        /\ \A g : Placed(g)' => Placed(g) /\ g # Close
    BY <1>1, <2>1, JustLeavePlaced
  <2>3. PlacedExact'
    BY <1>1, <2>1, <2>2 DEF PlacedExact
  <2>4. AcceptedOnce'
    BY <1>1, <2>1 DEF AcceptedOnce, clientVars
  <2>5. QED
    BY <1>1, <2>2, <2>3, <2>4 DEF clientVars
<1>4. QED
  BY <1>2, <1>3

\* What a handler goes on to await is a lock.
LEMMA NextAwaited ==
    \A h : \A point \in {"request", "read", "write", "wall"} :
        NextLock(h, point) \subseteq Awaiting
BY DEF NextLock, Awaiting

\* A session suspends and awaits I/O or a lock, or ends.
LEMMA SessionKeepsPlaces ==
    ASSUME BrokerInv, ThreadsExact', UNCHANGED clientVars, NEW t \in Threads,
           NEW c \in Connections, RunSession(t, c)
    PROVE  BrokerInv'
<1> USE FibersDiffer DEF BrokerInv
<1>1. /\ Running(t, c) /\ Leave(t) /\ UNCHANGED <<main, loop, backlog>>
      /\ UNCHANGED ready /\ Placed(c)
  BY RunningPlaced DEF RunSession, Suspend
<1>2. session[c] # "none"
  BY <1>1 DEF PlacedExact, Awaiting
<1>3. PICK point \in {"reading", "ended"} \cup Awaiting :
        session' = [session EXCEPT ![c] = point]
  BY NextAwaited DEF RunSession, Respond, End, SessionAt
<1>4. /\ SingleFrame' /\ ready' \subseteq Fibers
      /\ \A g : Placed(g)' => Placed(g) /\ g # c
  BY <1>1, JustLeavePlaced
<1>5. PlacedExact'
  BY <1>1, <1>3, <1>4 DEF PlacedExact
<1>6. AcceptedOnce'
  BY <1>1, <1>2, <1>3 DEF AcceptedOnce, clientVars, Awaiting
<1>7. session' \in [Connections -> Points]
  BY <1>3 DEF Points
<1>8. QED
  BY <1>4, <1>5, <1>6, <1>7 DEF clientVars

\* The clients leave the broker alone; one that connects is new to it.
LEMMA ClientsKeepPlaces ==
    ASSUME BrokerInv, ThreadsExact', NEW c \in Connections, StartClient(c) \/ Client(c)
    PROVE  BrokerInv'
<1> USE FibersDiffer DEF BrokerInv
<1>1. UNCHANGED <<stack, ready, main, loop, session>>
  BY DEF StartClient, Client, Connect, SendRequest, Receive, brokerVars
<1>2. SingleFrame' /\ \A g : Placed(g)' => Placed(g)
  BY <1>1, SameStacks
<1>3. PlacedExact'
  BY <1>1, <1>2 DEF PlacedExact
<1>4. PICK point \in {"connect", "send", "receive", "ended"} :
        /\ client' = [client EXCEPT ![c] = point]
        /\ point = "connect" => client[c] = "start"
        /\ \/ backlog' = backlog
           \/ client[c] = "connect" /\ point = "send" /\ backlog' = backlog \cup {c}
  BY DEF StartClient, Client, Connect, SendRequest, Receive, Exit
<1>5. AcceptedOnce'
  <2>1. ASSUME NEW d \in Connections
        PROVE  /\ d \in backlog' \/ loop = d => session[d] = "none"
               /\ d \in backlog' => loop # d
               /\ client'[d] \in {"start", "connect"} =>
                     session[d] = "none" /\ d \notin backlog' /\ loop # d
    <3>1. CASE d = c
      <4>1. client'[d] = point
        BY <1>4, <3>1
      <4>2. QED
        BY <1>4, <3>1, <4>1 DEF AcceptedOnce
    <3>2. CASE d # c
      <4>1. client'[d] = client[d] /\ (d \in backlog' <=> d \in backlog)
        BY <1>4, <3>2
      <4>2. QED
        BY <4>1 DEF AcceptedOnce
    <3>3. QED
      BY <3>1, <3>2
  <2>2. QED
    BY <1>1, <2>1 DEF AcceptedOnce
<1>6. client' \in [Connections -> {"start", "connect", "send", "receive", "ended"}]
  BY <1>4
<1>7. QED
  BY <1>1, <1>2, <1>3, <1>5, <1>6

\* Every step of the broker and of the clients.
LEMMA PlacesStep == BrokerInv /\ [Next]_vars => BrokerInv'
<1> SUFFICES ASSUME BrokerInv, [Next]_vars PROVE BrokerInv'
  OBVIOUS
<1>0. ThreadsExact'
  BY ThreadsStep DEF BrokerInv
<1>1. ASSUME Main, UNCHANGED clientVars PROVE BrokerInv'
  BY <1>0, <1>1, MainKeepsPlaces
<1>2. ASSUME NEW t \in Threads, Run(t), UNCHANGED clientVars PROVE BrokerInv'
  BY <1>0, <1>2, AcceptKeepsPlaces, CloseKeepsPlaces, SessionKeepsPlaces DEF Run
<1>3. ASSUME NEW t \in Threads, UNCHANGED clientVars,
             \/ \E f \in Fibers : Take(t, f)
             \/ \E f, c \in Connections : HandOver(t, f, c)
      PROVE  BrokerInv'
  BY <1>0, <1>3, StacksKeepPlaces
<1>4. ASSUME UNCHANGED clientVars,
             \/ AcceptFails
             \/ \E c \in Connections : AcceptReady(c) \/ ReadReady(c) \/ TopicReady(c)
      PROVE  BrokerInv'
  BY <1>0, <1>4, PolledKeepsPlaces
<1>5. ASSUME NEW c \in Connections, StartClient(c) \/ Client(c) PROVE BrokerInv'
  BY <1>0, <1>5, ClientsKeepPlaces
<1>6. ASSUME UNCHANGED <<stack, ready, main, loop, session, backlog, client>>
      PROVE  BrokerInv'
  <2>1. SingleFrame' /\ \A g : Placed(g)' => Placed(g)
    BY <1>6, SameStacks
  <2>2. PlacedExact' /\ AcceptedOnce'
    BY <1>6, <2>1 DEF PlacedExact, AcceptedOnce, BrokerInv
  <2>3. QED
    BY <1>0, <1>6, <2>1, <2>2 DEF BrokerInv
<1>7. ASSUME UNCHANGED clientVars,
             (\E t \in Threads : Return(t)) \/ Signal \/ \E c \in Connections : Break(c)
      PROVE  BrokerInv'
  BY <1>6, <1>7 DEF Return, Signal, Break, brokerVars, wireVars, clientVars
<1>8. ASSUME UNCHANGED vars PROVE BrokerInv'
  BY <1>6, <1>8 DEF vars, brokerVars, wireVars, clientVars
<1>9. QED
  BY <1>1, <1>2, <1>3, <1>4, <1>5, <1>7, <1>8 DEF Next, Broker, Fault

\* Initially nothing is placed and no connection has been made.
LEMMA BrokerInit == Init => BrokerInv
<1> SUFFICES ASSUME Init PROVE BrokerInv
  OBVIOUS
<1>1. ThreadsExact
  BY ThreadsInit
<1>2. (\A t \in Threads : stack[t] = <<>>) /\ ready = {}
  BY DEF Init, ServerInit, ExecInit
<1>3. \A f : ~Placed(f)
  BY <1>2, IdleOnStack DEF Placed
<1>4. SingleFrame
  <2>1. \A t \in Threads : \A i \in 1..Len(stack[t]) : OnStack(stack[t][i])
    BY DEF OnStack
  <2>2. QED
    BY <1>2, <1>3, <2>1 DEF SingleFrame, Placed
<1>5. QED
  BY <1>1, <1>2, <1>3, <1>4, FibersDiffer
     DEF Init, ServerInit, BrokerInv, PlacedExact, AcceptedOnce, Points

\* For any threads, connections and faults, no fiber of the broker is resumed
\* twice or while it runs: neither the accept loop, which stop() aborts from
\* another thread, nor a session, which is resumed by I/O, by posted handlers
\* and by sessions that release a lock, nor the handler stop() posts twice.
THEOREM NoFiberResumedTwice == Spec => []SingleFrame
<1>1. BrokerInv => SingleFrame
  BY DEF BrokerInv
<1>2. QED
  BY <1>1, BrokerInit, PlacesStep, PTL DEF Spec

-----------------------------------------------------------------------------
(* Shutdown *)

\* A session between a request and its response.
Busy == {"request", "read", "write", "wall"} \cup Awaiting

\* Points of a session inside push or remove from the write lock on.
Writing == {"write lock", "write", "wall lock", "wall"}

\* A request is kept from when the client sends it to when the session answers
\* it, and only a push or a delete has its session take the write lock.
Unanswered ==
    /\ DOMAIN request = Connections
    /\ \A c \in Connections :
          /\ client[c] \in {"start", "connect", "send"} => request[c] = None
          /\ session[c] \in Busy => request[c] # None
          /\ session[c] \in Writing => Changing(c)
    /\ CleanShutdown

\* Only the handler of a push or a delete goes on to the write lock, and to the
\* wall's only from there.
LEMMA WriteAwaited ==
    \A h : \A point \in {"request", "read", "write", "wall"} :
        \A lock \in NextLock(h, point) :
            /\ lock \in Awaiting
            /\ lock \in Writing => h.opcode \in {"PUSH", "DELETE"} \/ point = "write"
BY DEF NextLock, Awaiting, Writing

\* A lock that is granted keeps a session among the writing ones or out of them.
LEMMA GrantedWriting ==
    \A lock \in Awaiting : Granted(lock) \in Busy
                           /\ (Granted(lock) \in Writing => lock \in Writing)
BY DEF Granted, Awaiting, Busy, Writing

\* The requests and the session of one connection change together at most.
LEMMA OneSession ==
    ASSUME BrokerInv, Unanswered, UNCHANGED <<main, request, clientVars>>,
           NEW c \in Connections, NEW point, session' = [session EXCEPT ![c] = point],
           point \in Busy => request[c] # None,
           point \in Writing => Changing(c)
    PROVE  Unanswered'
BY DEF BrokerInv, Unanswered, CleanShutdown, Changing, clientVars

\* The steps of main: what ~io_context destroys has a guard only for a push or
\* a delete.
LEMMA MainKeepsUnanswered ==
    ASSUME BrokerInv, Unanswered, Main, UNCHANGED clientVars
    PROVE  Unanswered'
<1>1. UNCHANGED <<request, session>>
  BY DEF Main, Start, CreateThread, Stop, StopContext, Join, DestroyServer, DestroyContext,
         ResetBacklog, wireVars
<1>2. main' = "undefined" => \E c \in Connections : HoldsGuard(c)
  BY DEF Main, Start, CreateThread, Stop, StopContext, Join, DestroyServer, DestroyContext
<1>3. CleanShutdown'
  BY <1>1, <1>2 DEF Unanswered, CleanShutdown, Changing, HoldsGuard, Writing
<1>4. QED
  BY <1>1, <1>3 DEF Unanswered, Changing, clientVars

\* A session that runs answers its request or goes on to a lock.
LEMMA SessionKeepsUnanswered ==
    ASSUME BrokerInv, Unanswered, UNCHANGED clientVars, NEW t \in Threads,
           NEW c \in Connections, RunSession(t, c)
    PROVE  Unanswered'
<1>1. main # "undefined" /\ UNCHANGED main
  BY DEF RunSession, Running, Suspend, BrokerInv, ThreadsExact
<1>2. ASSUME UNCHANGED request, NEW point, session' = [session EXCEPT ![c] = point],
             \/ point \in {"reading", "ended"}
             \/ /\ session[c] \in {"request", "read", "write", "wall"}
                /\ point \in NextLock(request[c], session[c])
      PROVE  Unanswered'
  <2>2. point \in Busy => request[c] # None
    BY <1>2 DEF Busy, Awaiting, Unanswered
  <2>3. point \in Writing => Changing(c)
    <3>1. CASE point \in {"reading", "ended"}
      BY <3>1 DEF Writing
    <3>2. CASE /\ session[c] \in {"request", "read", "write", "wall"}
               /\ point \in NextLock(request[c], session[c])
      <4>1. request[c] # None
        BY <3>2 DEF Unanswered, Busy
      <4>2. session[c] = "write" => Changing(c)
        BY DEF Unanswered, Writing
      <4>3. QED
        BY <3>2, <4>1, <4>2, WriteAwaited DEF Changing
    <3>3. QED
      BY <1>2, <3>1, <3>2
  <2>4. QED
    BY <1>1, <1>2, <2>2, <2>3, OneSession
<1>3. ASSUME request' = [request EXCEPT ![c] = None], NEW point \in {"reading", "ended"},
             session' = [session EXCEPT ![c] = point]
      PROVE  Unanswered'
  <2>1. point \notin Busy /\ point \notin Writing
    BY DEF Busy, Writing, Awaiting
  <2>2. QED
    BY <1>1, <1>3, <2>1 DEF BrokerInv, Unanswered, CleanShutdown, Changing, clientVars
<1>4. \E point : /\ session' = [session EXCEPT ![c] = point]
                 /\ \/ request' = request /\ point \in {"reading", "ended"}
                    \/ /\ request' = request
                       /\ session[c] \in {"request", "read", "write", "wall"}
                       /\ point \in NextLock(request[c], session[c])
                    \/ /\ request' = [request EXCEPT ![c] = None]
                       /\ point \in {"reading", "ended"}
  BY DEF RunSession, Respond, End, SessionAt
<1>5. QED
  BY <1>2, <1>3, <1>4

\* The clients: a request is sent once, by a client that had none.
LEMMA ClientsKeepUnanswered ==
    ASSUME BrokerInv, Unanswered, NEW c \in Connections, StartClient(c) \/ Client(c)
    PROVE  Unanswered'
<1>1. UNCHANGED <<main, session>>
  BY DEF StartClient, Client, Connect, SendRequest, Receive, brokerVars
<1>2. CASE UNCHANGED request
  <2>1. PICK point \in {"connect", "send", "receive", "ended"} :
          /\ client' = [client EXCEPT ![c] = point]
          /\ point \in {"connect", "send"} => client[c] \in {"start", "connect"}
    BY DEF StartClient, Client, Connect, SendRequest, Receive, Exit
  <2>2. QED
    BY <1>1, <1>2, <2>1 DEF BrokerInv, Unanswered, CleanShutdown, Changing
<1>3. CASE ~UNCHANGED request
  <2>1. /\ client[c] = "send" /\ client' = [client EXCEPT ![c] = "receive"]
        /\ \E h : request' = [request EXCEPT ![c] = h]
    BY <1>3 DEF StartClient, Client, Connect, SendRequest, Receive
  <2>2. /\ request[c] = None
        /\ session[c] \notin Busy /\ session[c] \notin Writing
    BY <2>1 DEF Unanswered, Changing
  <2>3. QED
    BY <1>1, <2>1, <2>2 DEF BrokerInv, Unanswered, CleanShutdown, Changing
<1>4. QED
  BY <1>2, <1>3

\* Every step of the broker and of the clients.
LEMMA UnansweredStep == BrokerInv /\ Unanswered /\ [Next]_vars => Unanswered'
<1> SUFFICES ASSUME BrokerInv, Unanswered, [Next]_vars PROVE Unanswered'
  OBVIOUS
<1>1. ASSUME UNCHANGED <<main, request, session, clientVars>> PROVE Unanswered'
  BY <1>1 DEF Unanswered, CleanShutdown, Changing, clientVars
<1>2. ASSUME NEW t \in Threads, RunAcceptLoop(t), UNCHANGED clientVars PROVE Unanswered'
  <2>1. UNCHANGED <<main, request>>
    BY <1>2 DEF RunAcceptLoop, Suspend, wireVars
  <2>2. \/ UNCHANGED session
        \/ \E c \in Connections : session' = [session EXCEPT ![c] = "begin"]
    BY <1>2 DEF RunAcceptLoop
  <2>3. "begin" \notin Busy /\ "begin" \notin Writing
    BY DEF Busy, Writing, Awaiting
  <2>4. QED
    BY <1>1, <1>2, <2>1, <2>2, <2>3, OneSession
<1>3. ASSUME NEW t \in Threads, CloseAcceptor(t), UNCHANGED clientVars PROVE Unanswered'
  BY <1>1, <1>3 DEF CloseAcceptor, Suspend, ResetBacklog
<1>4. ASSUME NEW c \in Connections, ReadReady(c), UNCHANGED clientVars PROVE Unanswered'
  <2>1. /\ UNCHANGED <<main, request>>
        /\ \E point \in {"request", "eof"} :
              /\ session' = [session EXCEPT ![c] = point]
              /\ point = "request" => request[c] # None
    BY <1>4 DEF ReadReady, Polled, wireVars, SessionAt
  <2>2. {"request", "eof"} \cap Writing = {} /\ "eof" \notin Busy
    BY DEF Busy, Writing, Awaiting
  <2>3. QED
    BY <1>4, <2>1, <2>2, OneSession
<1>5. ASSUME NEW c \in Connections, UNCHANGED clientVars,
             TopicReady(c) \/ \E t \in Threads, f \in Connections : HandOver(t, f, c)
      PROVE  Unanswered'
  <2>1. /\ UNCHANGED <<main, request>> /\ session[c] \in Awaiting
        /\ session' = [session EXCEPT ![c] = Granted(session[c])]
    BY <1>5, ReleasesAwaited DEF TopicReady, HandOver, Polled, wireVars, SessionAt
  <2>2. request[c] # None /\ (Granted(session[c]) \in Writing => Changing(c))
    BY <2>1, GrantedWriting DEF Unanswered, Busy
  <2>3. QED
    BY <1>5, <2>1, <2>2, OneSession
<1>6. ASSUME UNCHANGED clientVars,
             \/ \E t \in Threads : Return(t) \/ \E f \in Fibers : Take(t, f)
             \/ Signal \/ Fault \/ \E c \in Connections : AcceptReady(c)
      PROVE  Unanswered'
  BY <1>1, <1>6 DEF Return, Take, Signal, Fault, AcceptFails, Break, AcceptReady, Polled,
                    brokerVars, wireVars
<1>7. ASSUME UNCHANGED vars PROVE Unanswered'
  BY <1>1, <1>7 DEF vars, brokerVars, wireVars
<1>8. QED
  BY <1>2, <1>3, <1>4, <1>5, <1>6, <1>7, MainKeepsUnanswered, SessionKeepsUnanswered,
     ClientsKeepUnanswered DEF Next, Broker, Run

\* For any threads, connections, command lines and faults, a shutdown that
\* cuts off no push and no delete unlocks no mutex of the destroyed server,
\* wherever the signal lands and whatever the sessions await: a guard is held
\* across a suspension only under the write lock, which only those two take.
THEOREM QuietShutdownIsClean == Spec => []CleanShutdown
<1>1. Init => BrokerInv /\ Unanswered
  BY BrokerInit DEF Init, ServerInit, Unanswered, CleanShutdown, Changing, Busy, Writing, Awaiting
<1>2. Unanswered => CleanShutdown
  BY DEF Unanswered
<1>3. QED
  BY <1>1, <1>2, PlacesStep, UnansweredStep, PTL DEF Spec

=============================================================================
