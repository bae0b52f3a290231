------------------------------- MODULE Broker -------------------------------
(***************************************************************************)
(* The broker process and the clients that are started against it: main()  *)
(* of src/rpc-client.cpp with rpc_client_t (src/rpc/rpc-client.h), one     *)
(* process per connection.  A client connects before it looks at its       *)
(* arguments, sends one request, and waits for one response without a      *)
(* time limit.                                                             *)
(***************************************************************************)
EXTENDS Server, CommandLine

CONSTANTS BrokerHosts,   \* host names that lead to the broker's machine
          BrokerPort     \* the port the broker listens on

VARIABLES client,   \* client[c]: where the client stands
          argv      \* argv[c]: its command line, until the request is sent

clientVars == <<client, argv>>
vars == <<brokerVars, wireVars, clientVars>>

TypeOK ==
    /\ ExecTypeOK
    /\ main \in {"start", "threads", "stopping", "join", "destroy", "context", "exited",
                 "undefined"}
    /\ thread \in [Threads -> {"none", "run", "returned"}]
    /\ acceptor \in {"open", "raced", "closed"}
    /\ loop \in {"none", "begin", "pending", "error", "ended"} \cup Connections
    /\ session \in [Connections -> {"none", "begin", "reading", "request", "read lock",
                                    "read", "write lock", "write", "wall lock", "wall",
                                    "eof", "ended"}]
    /\ link \in [Connections -> {"none", "open", "closed"}]
    /\ backlog \subseteq Connections /\ left \subseteq Connections
    /\ client \in [Connections -> {"start", "connect", "send", "receive", "ended"}]
    /\ \A c \in Connections : argv[c] \in CommandLines[c] \cup {<<>>}

Init ==
    /\ ServerInit
    /\ client = [c \in Connections |-> "start"]
    /\ argv = [c \in Connections |-> <<>>]

-----------------------------------------------------------------------------
(* Clients *)

\* The process ends, in whatever way; its socket is closed.
Exit(c) ==
    /\ client' = [client EXCEPT ![c] = "ended"]
    /\ argv' = [argv EXCEPT ![c] = <<>>]
    /\ left' = left \cup {c}
    /\ reply' = [reply EXCEPT ![c] = FALSE]

\* A client is started.
StartClient(c) ==
    /\ client[c] = "start"
    /\ \E a \in CommandLines[c] :
          \/ OnlyHelp(a) /\ Exit(c)
          \/ /\ ~OnlyHelp(a)
             /\ argv' = [argv EXCEPT ![c] = a]
             /\ client' = [client EXCEPT ![c] = "connect"]
             /\ UNCHANGED <<left, reply>>
    /\ UNCHANGED <<brokerVars, link, backlog, request, faults>>

\* connect throws if nobody listens there.
Connect(c) ==
    LET listening == /\ acceptor = "open"
                     /\ Host(argv[c]) \in BrokerHosts /\ Port(argv[c]) = BrokerPort
    IN  /\ client[c] = "connect"
        /\ \/ /\ listening
              /\ link' = [link EXCEPT ![c] = "open"]
              /\ backlog' = backlog \cup {c}
              /\ client' = [client EXCEPT ![c] = "send"]
              /\ UNCHANGED <<argv, left, reply>>
           \/ ~listening /\ Exit(c) /\ UNCHANGED <<link, backlog>>
        /\ UNCHANGED <<brokerVars, request, faults>>

\* The arguments are checked, and the request is sent.  When a length does not
\* fit its field the buffer is overrun: the client dies or sends what the
\* header says.
SendRequest(c) ==
    LET a == argv[c]
    IN  /\ client[c] = "send"
        /\ \/ /\ ~Usable(a) \/ Overruns(a)
              /\ Exit(c)
              /\ UNCHANGED request
           \/ /\ Usable(a)
              /\ request' = [request EXCEPT ![c] = Request(a)]
              /\ client' = [client EXCEPT ![c] = "receive"]
              /\ argv' = [argv EXCEPT ![c] = <<>>]
              /\ UNCHANGED <<left, reply>>
        /\ UNCHANGED <<brokerVars, link, backlog, faults>>

\* receive_response, and receive_response_data when the response has data:
\* there is something to read, or reading throws because the connection is
\* closed, which may also cut a response short.
ReadEnds(c) == reply[c] \/ link[c] = "closed"

\* The response, whatever its error code, ends the client.
Receive(c) ==
    /\ client[c] = "receive"
    /\ ReadEnds(c)
    /\ Exit(c)
    /\ UNCHANGED <<brokerVars, link, backlog, request, faults>>

\* What a started client does.
Client(c) == Connect(c) \/ SendRequest(c) \/ Receive(c)

-----------------------------------------------------------------------------

\* What the broker process does when the operating system lets it.
Broker ==
    \/ Main
    \/ \E t \in Threads : Return(t) \/ Run(t) \/ \E f \in Fibers : Take(t, f)
    \/ \E c \in Connections : AcceptReady(c) \/ ReadReady(c) \/ TopicReady(c)
    \/ \E t \in Threads, f, c \in Connections : HandOver(t, f, c)

Fault == AcceptFails \/ \E c \in Connections : Break(c)

Next ==
    \/ (Broker \/ Signal \/ Fault) /\ UNCHANGED clientVars
    \/ \E c \in Connections : StartClient(c) \/ Client(c)

\* The broker and the clients go on while they can.  Nothing is assumed of
\* signals and faults, or of when clients are started.
Fairness ==
    /\ WF_vars(Broker /\ UNCHANGED clientVars)
    /\ WF_vars(\E c \in Connections : Client(c))

Spec == Init /\ [][Next]_vars

FairSpec == Spec /\ Fairness

-----------------------------------------------------------------------------
(* Properties *)

\* No handler runs once the server has been destroyed: every one, the one that
\* ~rpc_server_t posts with a pointer to the dying server included, runs
\* before, or never.  This is about what threads run; the guards that are
\* destroyed with suspended sessions are the matter of CleanShutdown.
RunsOnLiveServer ==
    main \in {"context", "exited", "undefined"} => \A t \in Threads : stack[t] = <<>>

\* A request that changes a topic has been sent and not answered.
Changing(c) == request[c] # None /\ request[c].opcode \in {"PUSH", "DELETE"}

\* A shutdown unlocks a destroyed mutex only if it cuts off a push or a delete:
\* with all of those answered, whatever sessions are suspended in reads, in
\* pulls or between requests, destroying their frames after the server uses
\* nothing of it.
CleanShutdown == main = "undefined" => \E c \in Connections : Changing(c)

\* After a signal main() gets through its shutdown, whatever its clients, its
\* sessions and the accept loop do.
ShutdownCompletes == ~running ~> main \in {"exited", "undefined"}

\* A client that has been started ends, unless the accept loop was ended by a
\* failure before it got to this client, or the process hangs in a shutdown
\* that is not clean: the loop goes on from one connection to the next, a
\* client that leaves without a request does not disturb it, the sessions go on
\* without it, and a shutdown ends the connections it leaves.
EveryClientEnds ==
    \A c \in Connections :
        client[c] # "start" ~>
            \/ client[c] = "ended"
            \/ loop = "ended" /\ faults > 0 /\ session[c] = "none"
            \/ main = "undefined"
=============================================================================
