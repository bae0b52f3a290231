------------------------------- MODULE Server -------------------------------
(***************************************************************************)
(* The broker process: main() (src/main.cpp) with its threads and its      *)
(* shutdown, rpc_server_t (src/rpc/rpc-server.h) with the accept loop, and *)
(* the connections as far as the two see them.                             *)
(*                                                                         *)
(* The fibers of the Executor are the sessions, named by their connection, *)
(* the accept loop's coroutine, and the handler that stop() posts.  A      *)
(* fiber is in ready when what it awaited has completed; a thread takes it *)
(* and runs it up to its next suspension.                                  *)
(*                                                                         *)
(* Of a session only its suspension points are kept, and by them which     *)
(* guards its frame holds: Session has what the handlers do and Topic what *)
(* happens under the locks.                                                *)
(***************************************************************************)
EXTENDS Executor

CONSTANTS Connections,
          AcceptLoop,   \* the coroutine of accept_loop
          Close,        \* the handler that closes the acceptor
          MaxFaults,    \* bound on failed accepts and broken connections
          None

ASSUME ServerAssumption ==
    /\ Fibers = Connections \cup {AcceptLoop, Close}
    /\ AcceptLoop # Close
    /\ Connections \cap {AcceptLoop, Close, None} = {}
    /\ Connections \cap {"none", "begin", "pending", "error", "ended"} = {}
    /\ MaxFaults \in Nat

VARIABLES main,       \* where main() stands, "undefined" once it uses what is destroyed
          running,    \* the flag that signal_handler clears
          thread,     \* thread[t]: not created, in io_ctx.run(), or returned from it
          stopped,    \* io_ctx is stopped: run() takes no more handlers
          acceptor,   \* the listening socket (see CloseAcceptor for "raced")
          loop,       \* the accept loop: where it stands or what it resumes with
          session,    \* session[c]: where the session of c stands
          link,       \* link[c]: the TCP connection
          backlog,    \* connections that await being accepted
          request,    \* request[c]: the request sent and not yet answered
          reply,      \* reply[c]: a response is on its way to the client
          left,       \* connections whose client has closed its end
          faults

brokerVars == <<stack, ready, main, running, thread, stopped, acceptor, loop, session>>
wireVars   == <<link, backlog, request, reply, left, faults>>

ServerInit ==
    /\ ExecInit
    /\ main = "start"
    /\ running = TRUE
    /\ thread = [t \in Threads |-> "none"]
    /\ stopped = FALSE
    /\ acceptor = "open"
    /\ loop = "none"
    /\ session = [c \in Connections |-> "none"]
    /\ link = [c \in Connections |-> "none"]
    /\ backlog = {}
    /\ request = [c \in Connections |-> None]
    /\ reply = [c \in Connections |-> FALSE]
    /\ left = {}
    /\ faults = 0

-----------------------------------------------------------------------------
(* main() *)

\* signal_handler, at any time.
Signal ==
    /\ running /\ main \notin {"exited", "undefined"}
    /\ running' = FALSE
    /\ UNCHANGED <<stack, ready, main, thread, stopped, acceptor, loop, session, wireVars>>

\* server.start(): the accept loop's coroutine is spawned.
Start ==
    /\ main = "start"
    /\ main' = "threads"
    /\ loop' = "begin"
    /\ Post(AcceptLoop)
    /\ UNCHANGED <<stack, running, thread, stopped, acceptor, session, wireVars>>

\* One turn of the loop that creates the threads.
CreateThread(t) ==
    /\ main = "threads"
    /\ thread[t] = "none"
    /\ thread' = [thread EXCEPT ![t] = "run"]
    /\ UNCHANGED <<stack, ready, main, running, stopped, acceptor, loop, session, wireVars>>

\* The threads exist, running has been found false: server.stop().
Stop ==
    /\ main = "threads"
    /\ \A t \in Threads : thread[t] # "none"
    /\ ~running
    /\ main' = "stopping"
    /\ Post(Close)
    /\ UNCHANGED <<stack, running, thread, stopped, acceptor, loop, session, wireVars>>

StopContextInVain ==
    /\ main = "stopping"
    /\ main' = "join"
    /\ UNCHANGED <<stack, ready, running, thread, stopped, acceptor, loop, session, wireVars>>

\* io_ctx.stop().
StopContext ==
    /\ main = "stopping"
    /\ main' = "join"
    /\ stopped' = TRUE
    /\ UNCHANGED <<stack, ready, running, thread, acceptor, loop, session, wireVars>>

JoinNobody ==
    /\ main = "join"
    /\ main' = "destroy"
    /\ UNCHANGED <<stack, ready, running, thread, stopped, acceptor, loop, session, wireVars>>

\* Every thread has been joined.
Join ==
    /\ main = "join"
    /\ \A t \in Threads : thread[t] = "returned"
    /\ main' = "destroy"
    /\ UNCHANGED <<stack, ready, running, thread, stopped, acceptor, loop, session, wireVars>>

\* The connections in the backlog are reset.
ResetBacklog ==
    /\ link' = [c \in Connections |-> IF c \in backlog THEN "closed" ELSE link[c]]
    /\ backlog' = {}
    /\ UNCHANGED <<request, reply, left, faults>>

\* Suspension points of a session inside a topic's operation: it awaits a
\* lock, and its handler is with the lock; or the lock is its own, and the
\* handler has been posted or is being called.
Awaiting == {"read lock", "write lock", "wall lock"}
Granted(lock) ==
    CASE lock = "read lock"  -> "read"
      [] lock = "write lock" -> "write"
      [] lock = "wall lock"  -> "wall"

\* The frame of the suspended session of c holds a guard: push and remove
\* await the wall's mutex under the guard of the partition's write lock.
\* Elsewhere there is none; that of a lock just granted is built by the
\* handler when it runs.
HoldsGuard(c) == session[c] \in {"wall lock", "wall"}

\* ~rpc_server_t: stop() posts its handler once more, then the registry with
\* its topics and the acceptor are destroyed.  The handlers that the topics'
\* mutexes hold go with them; Asio unwinds their coroutines through the
\* executor, where nobody runs them any more.
DestroyServer ==
    /\ main = "destroy"
    /\ main' = "context"
    /\ ready' = ready \cup {Close} \cup {c \in Connections : session[c] \in Awaiting}
    /\ acceptor' = "closed"
    /\ ResetBacklog
    /\ UNCHANGED <<stack, running, thread, stopped, loop, session>>

\* ~io_context destroys the handlers and with them the suspended sessions,
\* whose sockets are closed; then the process ends.  A guard among what is
\* destroyed unlocks a mutex that went with the server: then the process ends
\* all the same, or hangs.
DestroyContext ==
    /\ main = "context"
    /\ ready' = {}
    /\ \/ /\ main' = IF \E c \in Connections : HoldsGuard(c) THEN "undefined" ELSE "exited"
          /\ link' = [c \in Connections |-> IF link[c] = "open" THEN "closed" ELSE link[c]]
       \/ /\ \E c \in Connections : HoldsGuard(c)
          /\ main' = "undefined"
          /\ UNCHANGED link
    /\ UNCHANGED <<stack, running, thread, stopped, acceptor, loop, session, backlog,
                   request, reply, left, faults>>

Main ==
    \/ Start \/ \E t \in Threads : CreateThread(t)
    \/ Stop \/ StopContext \/ Join \/ DestroyServer \/ DestroyContext

-----------------------------------------------------------------------------
(* io_ctx.run() *)

\* Coroutines and handlers that keep run() from returning.
Work ==
    \/ loop # "ended"
    \/ \E c \in Connections : session[c] \notin {"none", "ended"}
    \/ Close \in ready \/ OnStack(Close)

\* Thread t takes a handler.
Take(t, f) ==
    /\ thread[t] = "run" /\ ~stopped
    /\ TakePosted(t, f)
    /\ UNCHANGED <<main, running, thread, stopped, acceptor, loop, session, wireVars>>

\* run() returns.
Return(t) ==
    /\ thread[t] = "run" /\ stopped
    /\ stack[t] = <<>>
    /\ thread' = [thread EXCEPT ![t] = "returned"]
    /\ UNCHANGED <<stack, ready, main, running, stopped, acceptor, loop, session, wireVars>>

\* Fiber f has run on thread t up to its next suspension; when that was the
\* last work there is, the context stops.
Suspend(t) ==
    /\ Leave(t)
    /\ stopped' = (stopped \/ ~Work')
    /\ UNCHANGED <<main, running, thread>>

\* A thread that waits for I/O notices that what f awaits has completed.
Polled(f) ==
    /\ ~stopped
    /\ \E t \in Threads : thread[t] = "run"
    /\ Post(f)
    /\ UNCHANGED <<stack, main, running, thread, stopped, acceptor>>

-----------------------------------------------------------------------------
(* accept_loop and stop *)

\* async_accept succeeds; c may have been reset by its peer before.
AcceptReady(c) ==
    /\ loop = "pending" /\ acceptor = "open"
    /\ c \in backlog
    /\ backlog' = backlog \ {c}
    /\ loop' = c
    /\ Polled(AcceptLoop)
    /\ UNCHANGED <<session, link, request, reply, left, faults>>

\* async_accept fails, for example for want of a descriptor.
AcceptFails ==
    /\ loop = "pending" /\ acceptor = "open"
    /\ faults < MaxFaults
    /\ faults' = faults + 1
    /\ loop' = "error"
    /\ Polled(AcceptLoop)
    /\ UNCHANGED <<session, link, backlog, request, reply, left>>

\* The next async_accept; that of a closed acceptor fails.  posted are the
\* handlers posted so far by this step.
Accept(posted) ==
    \/ /\ acceptor # "closed"
       /\ loop' = "pending"
       /\ ready' = ready \cup posted
    \/ /\ acceptor = "closed"
       /\ loop' = "error"
       /\ ready' = ready \cup posted \cup {AcceptLoop}

AcceptErrorStops(t) ==
    /\ Running(t, AcceptLoop)
    /\ Leave(t)
    /\ \/ loop = "begin" /\ Accept({}) /\ UNCHANGED <<session, stopped>>
       \/ \E c \in Connections :
             /\ loop = c /\ link[c] = "open"
             /\ session' = [session EXCEPT ![c] = "begin"]
             /\ Accept({c})
             /\ UNCHANGED stopped
       \/ /\ loop = "error" \/ \E c \in Connections : loop = c /\ link[c] = "closed"
          /\ loop' = "ended"
          /\ stopped' = TRUE
          /\ UNCHANGED <<ready, session>>
    /\ UNCHANGED <<main, running, thread, acceptor, wireVars>>

\* accept_loop from one async_accept to the next, or to its end: the first
\* exception breaks the loop, also that of remote_endpoint() when the peer
\* has reset the connection.
RunAcceptLoop(t) ==
    /\ Running(t, AcceptLoop)
    /\ \/ loop = "begin" /\ Accept({}) /\ UNCHANGED session
       \/ \E c \in Connections :
             /\ loop = c /\ link[c] = "open"
             /\ session' = [session EXCEPT ![c] = "begin"]
             /\ Accept({c})
       \/ /\ loop = "error" \/ \E c \in Connections : loop = c /\ link[c] = "closed"
          /\ loop' = "ended"
          /\ UNCHANGED <<ready, session>>
    /\ UNCHANGED <<acceptor, wireVars>>
    /\ Suspend(t)

CloseAlwaysResumes(t) ==
    /\ Running(t, Close)
    /\ acceptor' = "closed"
    /\ loop' = "error"
    /\ Post(AcceptLoop)
    /\ ResetBacklog
    /\ UNCHANGED session
    /\ Suspend(t)

\* The handler posted by stop(): a pending accept is aborted.  Another thread
\* may be inside accept_loop, which nothing excludes: its async_accept then
\* sees the acceptor before or after it is closed, or starts an operation
\* that is never aborted ("raced").
CloseAcceptor(t) ==
    /\ Running(t, Close)
    /\ \/ /\ loop = "pending"
          /\ acceptor' = "closed"
          /\ loop' = "error"
          /\ Post(AcceptLoop)
       \/ /\ loop # "pending"
          /\ acceptor' \in {"closed"} \cup (IF OnStack(AcceptLoop) THEN {"raced"} ELSE {})
          /\ UNCHANGED <<loop, ready>>
    /\ ResetBacklog
    /\ UNCHANGED session
    /\ Suspend(t)

-----------------------------------------------------------------------------
(* Sessions *)

\* The session of c goes on at this point when it next runs.
SessionAt(c, point) == session' = [session EXCEPT ![c] = point]

\* A read completes: the request has arrived, or no more will.
ReadReady(c) ==
    /\ session[c] = "reading"
    /\ \/ /\ request[c] # None /\ link[c] = "open"
          /\ SessionAt(c, "request")
       \/ /\ (c \in left /\ request[c] = None) \/ link[c] = "closed"
          /\ SessionAt(c, "eof")
    /\ Polled(c)
    /\ UNCHANGED <<loop, wireVars>>

\* The lock that the session awaits is free, or becomes so: its handler is
\* posted.
TopicReady(c) ==
    /\ session[c] \in Awaiting
    /\ SessionAt(c, Granted(session[c]))
    /\ Polled(c)
    /\ UNCHANGED <<loop, wireVars>>

\* The locks that a session gives up when it runs on from this point.
Releases(point) ==
    CASE point = "read"  -> {"write lock"}
      [] point = "write" -> {"read lock", "write lock"}
      [] point = "wall"  -> Awaiting

\* ... or is called by the session f that releases the lock on thread t.  push
\* keeps the write lock until it has the wall's.
HandOver(t, f, c) ==
    /\ Running(t, f)
    /\ session[f] \in {"read", "write", "wall"} /\ session[c] \in Releases(session[f])
    /\ ~(session[f] = "write" /\ request[f].opcode = "PUSH")
    /\ SessionAt(c, Granted(session[c]))
    /\ Call(t, c)
    /\ UNCHANGED <<ready, main, running, thread, stopped, acceptor, loop, wireVars>>

\* The session answers and awaits the next request; when the connection is
\* broken the exception ends it.
Respond(c) ==
    /\ request' = [request EXCEPT ![c] = None]
    /\ \/ /\ link[c] = "open"
          /\ reply' = [reply EXCEPT ![c] = c \notin left]
          /\ SessionAt(c, "reading")
          /\ UNCHANGED link
       \/ /\ link[c] = "closed"
          /\ SessionAt(c, "ended")
          /\ UNCHANGED <<link, reply>>

\* The session ends and with it its socket.
End(c) ==
    /\ SessionAt(c, "ended")
    /\ link' = [link EXCEPT ![c] = "closed"]

\* handle_requests refuses such a request and leaves its loop.
TooLarge(h) == h.topic_name + h.message > 65536 - 12

PullLogs(h, point) ==
    CASE point = "request" -> IF h.opcode = "PUSH" THEN {"write lock"} ELSE {"read lock"}
      [] point = "read"    -> IF h.opcode = "DELETE" THEN {"write lock"} ELSE {"wall lock"}
      [] point = "write"   -> {"wall lock"}
      [] point = "wall"    -> {}

\* The lock that the handler of request h goes on to await from this point:
\* push takes the partition's write lock, then the wall's; read takes the read
\* lock; remove takes the read lock, and then does as push.
NextLock(h, point) ==
    CASE point = "request" -> IF h.opcode = "PUSH" THEN {"write lock"} ELSE {"read lock"}
      [] point = "read"    -> IF h.opcode = "DELETE" THEN {"write lock"} ELSE {}
      [] point = "write"   -> {"wall lock"}
      [] point = "wall"    -> {}

\* The handler may answer at this point without a further lock: it has no
\* topic to ask, refuses the request, or the operation is over.  handle_push
\* refuses only an empty name, and push goes through.
Answers(h, point) ==
    h.opcode = "PUSH" => (point = "request" /\ h.topic_name = 0) \/ point = "wall"

\* A session runs up to its next suspension.
RunSession(t, c) ==
    /\ Running(t, c)
    /\ \/ /\ session[c] = "begin"
          /\ SessionAt(c, "reading")
          /\ UNCHANGED <<link, request, reply>>
       \/ /\ session[c] = "request" /\ TooLarge(request[c])
          /\ request' = [request EXCEPT ![c] = None]
          /\ reply' = [reply EXCEPT ![c] = c \notin left]
          /\ End(c)
       \/ /\ session[c] \in {"request", "read", "write", "wall"}
          /\ session[c] = "request" => ~TooLarge(request[c])
          /\ \/ Answers(request[c], session[c]) /\ Respond(c)
             \/ /\ session[c] = "request" => request[c].topic_name > 0
                /\ \E lock \in NextLock(request[c], session[c]) : SessionAt(c, lock)
                /\ UNCHANGED <<link, request, reply>>
       \/ session[c] = "eof" /\ End(c) /\ UNCHANGED <<request, reply>>
    /\ UNCHANGED <<ready, acceptor, loop, backlog, left, faults>>
    /\ Suspend(t)

\* The network breaks a connection in use.
Break(c) ==
    /\ link[c] = "open" /\ c \notin left
    /\ faults < MaxFaults
    /\ faults' = faults + 1
    /\ link' = [link EXCEPT ![c] = "closed"]
    /\ UNCHANGED <<brokerVars, backlog, request, reply, left>>

\* What thread t does with the handler on top of its stack.
Run(t) ==
    \/ RunAcceptLoop(t) \/ CloseAcceptor(t)
    \/ \E c \in Connections : RunSession(t, c)
=============================================================================
