------------------------------- MODULE Session -------------------------------
(***************************************************************************)
(* rpc_session_t (src/rpc/rpc-session.h): the loop that reads requests     *)
(* from a connection, the checks of the handlers, what they ask of the     *)
(* registry and of a topic, and the responses.                             *)
(*                                                                         *)
(* Several sessions share the registry.  A topic operation is one step     *)
(* here, at the point where it takes effect under the partition's lock:    *)
(* Topic has the steps it is made of.  The registry's lock is never        *)
(* awaited: the find of get_or_create_topic, the lookup of its emplace and *)
(* the linking of the new node are steps between which sessions on other   *)
(* threads run.  The files of the topics are in Registry.                  *)
(*                                                                         *)
(* Topic names and messages are represented by their lengths: two of       *)
(* different content are given different lengths, and the empty name is 0. *)
(***************************************************************************)
EXTENDS Naturals, Sequences, FiniteSets, FiniteSetsExt

CONSTANTS Sessions,
          Headers,        \* Headers[s]: the requests the client of s may send
          ThreadCount,    \* the threads that run sessions
          MaxRequests,    \* bound on the requests of a behaviour
          None

\* common::INVALID_TOPIC_ID
INVALID_TOPIC_ID == 65535

\* sizeof(request_header_t), the buffer of handle_requests, that of
\* handle_push and handle_delete, and the fixed part of a request_t in it.
HeaderSize  == 12
BufferSize  == 65536
RequestSize == 1024
RequestHead == 6

\* get_or_create_topic's default for partitions_count, and the bound that
\* handle_pull checks.
PartitionsCount == 1
PullBound       == 3

Opcodes == {"PUSH", "PULL", "DELETE", "UNKNOWN"}
Codes   == {"OK", "INVALID_TOPIC_NAME", "INVALID_PARTITION_ID", "TOPIC_NOT_FOUND",
            "PARTITION_NOT_FOUND", "EMPTY_PARTITION", "INTERNAL_ERROR"}

Uint16 == 0..65535

\* A request: what the code reads of request_header_t, with the lengths of the
\* name and of the message that follow it on the wire.
AllHeaders == UNION {Headers[s] : s \in Sessions}

ASSUME SessionAssumption ==
    /\ IsFiniteSet(Sessions) /\ ThreadCount \in Nat \ {0} /\ MaxRequests \in Nat
    /\ \A h \in AllHeaders :
          /\ h.magic \in BOOLEAN /\ h.opcode \in Opcodes
          /\ h.topic_name \in Uint16 /\ h.partition_id \in Uint16 /\ h.message \in Uint16

VARIABLES pc,
          requests,   \* requests[s]: what the client has sent
          taken,      \* taken[s]: how many of them the session has read
          response,   \* response[s]: the response about to be written
          replies,    \* replies[s]: the responses the client has received
          topics_,    \* topics_[n]: the topics linked under key n, in the order of
                      \* linking, each as the queue of its partition 0
          topic,      \* topic[s]: which of them the handler of s has got, 0 if none
          removed,    \* history: removed[n], the messages remove has popped
          undefined   \* what the code leaves undefined and has done: "no", or
                      \* "index" (no such partition), "front" (front() of an
                      \* empty partition), "overflow" (the request does not
                      \* fit its buffer), "race" (two threads in topics_)

vars == <<pc, requests, taken, response, replies, topics_, topic, removed, undefined>>

PCs == {"header", "body", "handle", "emplace", "link", "push", "read", "remove",
        "respond", "hangup", "closed", "broken"}

TopicNames == {h.topic_name : h \in AllHeaders}

Response == [opcode : Opcodes, error_code : Codes, message : Uint16]

TypeOK ==
    /\ pc \in [Sessions -> PCs]
    /\ requests \in [Sessions -> Seq(AllHeaders)]
    /\ \A s \in Sessions : taken[s] \in 0..Len(requests[s])
    /\ \A s \in Sessions : IF pc[s] \in {"respond", "hangup"} THEN response[s] \in Response
                           ELSE response[s] = None
    /\ \A s \in Sessions : \A i \in 1..Len(replies[s]) : replies[s][i] \in Response
    /\ \A n \in TopicNames : \A i \in 1..Len(topics_[n]) :
          \A j \in 1..Len(topics_[n][i]) : topics_[n][i][j] \in Uint16
    /\ \A s \in Sessions : IF pc[s] \in {"push", "read", "remove"}
                           THEN topic[s] \in 1..Len(topics_[requests[s][taken[s]].topic_name])
                           ELSE topic[s] = 0
    /\ \A n \in TopicNames : \A i \in 1..Len(removed[n]) : removed[n][i] \in Uint16
    /\ undefined \in {"no", "index", "front", "overflow", "race"}

Init ==
    /\ pc = [s \in Sessions |-> "header"]
    /\ requests = [s \in Sessions |-> <<>>]
    /\ taken = [s \in Sessions |-> 0]
    /\ response = [s \in Sessions |-> None]
    /\ replies = [s \in Sessions |-> <<>>]
    /\ topics_ = [n \in TopicNames |-> <<>>]
    /\ topic = [s \in Sessions |-> 0]
    /\ removed = [n \in TopicNames |-> <<>>]
    /\ undefined = "no"

-----------------------------------------------------------------------------
(* The connection *)

\* The client sends a request, also before earlier ones are answered.
Send(s) ==
    /\ pc[s] \notin {"closed", "broken"}
    /\ MapThenSumSet(LAMBDA x : Len(requests[x]), Sessions) < MaxRequests
    /\ \E h \in Headers[s] : requests' = [requests EXCEPT ![s] = Append(@, h)]
    /\ UNCHANGED <<pc, taken, response, replies, topics_, topic, removed, undefined>>

\* The connection breaks while the session reads or writes: the exception
\* ends start().
Break(s) ==
    /\ pc[s] \in {"header", "body", "respond", "hangup"}
    /\ pc' = [pc EXCEPT ![s] = "broken"]
    /\ response' = [response EXCEPT ![s] = None]
    /\ UNCHANGED <<requests, taken, replies, topics_, topic, removed, undefined>>

\* handle_requests refuses such a request and leaves its loop.
TooLarge(h) == h.topic_name + h.message > BufferSize - HeaderSize

\* The request session s handles.
Current(s) == requests[s][taken[s]]

\* A response is about to be written; the session goes on at point after it.
Answer(s, opcode, code, message, point) ==
    /\ response' = [response EXCEPT ![s] = [opcode |-> opcode, error_code |-> code,
                                            message |-> message]]
    /\ pc' = [pc EXCEPT ![s] = point]

TooLargeAnswersPush(s) ==
    LET h == requests[s][taken[s] + 1]
    IN  /\ pc[s] = "header"
        /\ taken[s] < Len(requests[s])
        /\ taken' = [taken EXCEPT ![s] = @ + 1]
        /\ \/ /\ ~h.magic \/ TooLarge(h)
              /\ Answer(s, "PUSH", "INTERNAL_ERROR", 1, "hangup")
           \/ /\ h.magic /\ ~TooLarge(h)
              /\ pc' = [pc EXCEPT ![s] = "body"]
              /\ UNCHANGED response
        /\ UNCHANGED <<requests, replies, topics_, topic, removed, undefined>>

\* The header is read and checked.  The text of an error is not told apart:
\* its length is 1.
ReadHeader(s) ==
    LET h == requests[s][taken[s] + 1]
    IN  /\ pc[s] = "header"
        /\ taken[s] < Len(requests[s])
        /\ taken' = [taken EXCEPT ![s] = @ + 1]
        /\ \/ /\ ~h.magic
              /\ Answer(s, "PUSH", "INTERNAL_ERROR", 1, "hangup")
           \/ /\ h.magic /\ TooLarge(h)
              /\ Answer(s, h.opcode, "INTERNAL_ERROR", 1, "hangup")
           \/ /\ h.magic /\ ~TooLarge(h)
              /\ pc' = [pc EXCEPT ![s] = IF h.topic_name + h.message > 0 THEN "body" ELSE "handle"]
              /\ UNCHANGED response
        /\ UNCHANGED <<requests, replies, topics_, topic, removed, undefined>>

\* Topic name and message are read, if there are any.
ReadBody(s) ==
    /\ pc[s] = "body"
    /\ pc' = [pc EXCEPT ![s] = "handle"]
    /\ UNCHANGED <<requests, taken, response, replies, topics_, topic, removed, undefined>>

ResponseStays(s) ==
    /\ pc[s] \in {"respond", "hangup"}
    /\ replies' = [replies EXCEPT ![s] = Append(@, response[s])]
    /\ pc' = [pc EXCEPT ![s] = IF @ = "respond" THEN "header" ELSE "closed"]
    /\ UNCHANGED <<requests, taken, response, topics_, topic, removed, undefined>>

RespondOnce(s) ==
    /\ pc[s] \in {"respond", "hangup"}
    /\ replies' = [replies EXCEPT ![s] = Append(@, response[s])]
    /\ response' = [response EXCEPT ![s] = None]
    /\ pc' = [pc EXCEPT ![s] = "closed"]
    /\ UNCHANGED <<requests, taken, topics_, topic, removed, undefined>>

\* The response is written; the loop goes on, or is left after a refusal.
Respond(s) ==
    /\ pc[s] \in {"respond", "hangup"}
    /\ replies' = [replies EXCEPT ![s] = Append(@, response[s])]
    /\ response' = [response EXCEPT ![s] = None]
    /\ pc' = [pc EXCEPT ![s] = IF @ = "respond" THEN "header" ELSE "closed"]
    /\ UNCHANGED <<requests, taken, topics_, topic, removed, undefined>>

-----------------------------------------------------------------------------
(* The handlers, up to the call of the topic *)

\* s handles a request with this opcode.
Handling(s, opcode) == pc[s] = "handle" /\ Current(s).opcode = opcode

\* An error response to the request.
Refuse(s, code) ==
    /\ Answer(s, Current(s).opcode, code, 1, "respond")
    /\ UNCHANGED undefined

\* create_request copies name and message behind a request_t's head.
Fits(h) == RequestHead + h.topic_name + h.message <= RequestSize

\* The code does what it leaves undefined: nothing is known of it after that.
GoUndefined(how) ==
    /\ undefined' = how
    /\ UNCHANGED <<pc, response>>

\* The code calls the topic o it has got, with the given partition; storage_ is
\* indexed unchecked.
CallTopic(s, o, partition, point) ==
    \/ /\ partition < PartitionsCount
       /\ pc' = [pc EXCEPT ![s] = point]
       /\ topic' = [topic EXCEPT ![s] = o]
       /\ UNCHANGED <<response, undefined>>
    \/ partition >= PartitionsCount /\ GoUndefined("index") /\ UNCHANGED topic

\* The topics under the name of the request; find returns the last linked one.
Nodes(s) == topics_[Current(s).topic_name]
Found(s) == Len(Nodes(s))

\* handle_push, once it has got the topic o.  push replaces INVALID_TOPIC_ID by
\* a hash modulo the number of partitions, of which there is one.
PushTo(s, o) ==
    LET h == Current(s)
    IN  \/ ~Fits(h) /\ GoUndefined("overflow") /\ UNCHANGED topic
        \/ /\ Fits(h)
           /\ CallTopic(s, o, IF h.partition_id = INVALID_TOPIC_ID THEN 0 ELSE h.partition_id,
                        "push")

\* get_or_create_topic goes on without the topic.
GoOn(s, point) ==
    /\ pc' = [pc EXCEPT ![s] = point]
    /\ UNCHANGED <<response, topic, undefined>>

\* handle_push and get_or_create_topic, up to the result of find; a new topic is
\* constructed.
HandlePush(s) ==
    /\ Handling(s, "PUSH")
    /\ \/ Current(s).topic_name = 0 /\ Refuse(s, "INVALID_TOPIC_NAME") /\ UNCHANGED topic
       \/ Current(s).topic_name # 0 /\ Nodes(s) # <<>> /\ PushTo(s, Found(s))
       \/ Current(s).topic_name # 0 /\ Nodes(s) = <<>> /\ GoOn(s, "emplace")
    /\ UNCHANGED <<requests, taken, replies, topics_, removed>>

\* emplace looks the key up: if somebody has linked it meanwhile, the new topic
\* is destroyed and the old one returned.
Emplace(s) ==
    /\ pc[s] = "emplace"
    /\ \/ Nodes(s) # <<>> /\ PushTo(s, Found(s))
       \/ Nodes(s) = <<>> /\ GoOn(s, "link")
    /\ UNCHANGED <<requests, taken, replies, topics_, removed>>

LinkReplaces(s) ==
    /\ pc[s] = "link"
    /\ topics_' = [topics_ EXCEPT ![Current(s).topic_name] = << <<>> >>]
    /\ PushTo(s, 1)
    /\ UNCHANGED <<requests, taken, replies, removed>>

\* emplace links the node of the new topic, also when another thread has linked
\* one of the same key since the lookup.
Link(s) ==
    /\ pc[s] = "link"
    /\ topics_' = [topics_ EXCEPT ![Current(s).topic_name] = Append(@, <<>>)]
    /\ PushTo(s, Found(s) + 1)
    /\ UNCHANGED <<requests, taken, replies, removed>>

\* The sessions inside get_or_create_topic: each of them keeps its thread.
InRegistry == {s \in Sessions : pc[s] \in {"emplace", "link"}}

\* There is a thread to run session s.
Runs(s) == Cardinality(InRegistry \ {s}) < ThreadCount

\* handle_pull and handle_delete start alike.
NameRefused(s) ==
    /\ \/ Current(s).topic_name = 0 /\ Refuse(s, "INVALID_TOPIC_NAME")
       \/ Current(s).topic_name # 0 /\ Nodes(s) = <<>> /\ Refuse(s, "TOPIC_NOT_FOUND")
       \/ /\ Nodes(s) # <<>>
          /\ Current(s).partition_id = INVALID_TOPIC_ID
          /\ Refuse(s, "INVALID_PARTITION_ID")
    /\ UNCHANGED topic

\* ... and go on with an existing topic and a partition.
NameAccepted(s) == Nodes(s) # <<>> /\ Current(s).partition_id # INVALID_TOPIC_ID

HandlePull(s) ==
    LET h == Current(s)
    IN  /\ Handling(s, "PULL")
        /\ \/ NameRefused(s)
           \/ /\ NameAccepted(s) /\ h.partition_id >= PullBound
              /\ Refuse(s, "PARTITION_NOT_FOUND")
              /\ UNCHANGED topic
           \/ /\ NameAccepted(s) /\ h.partition_id < PullBound
              /\ CallTopic(s, Found(s), h.partition_id, "read")
        /\ UNCHANGED <<requests, taken, replies, topics_, removed>>

HandleDelete(s) ==
    LET h == Current(s)
    IN  /\ Handling(s, "DELETE")
        /\ \/ NameRefused(s)
           \/ NameAccepted(s) /\ ~Fits(h) /\ GoUndefined("overflow") /\ UNCHANGED topic
           \/ NameAccepted(s) /\ Fits(h) /\ CallTopic(s, Found(s), h.partition_id, "remove")
        /\ UNCHANGED <<requests, taken, replies, topics_, removed>>

\* handle_request's default.
HandleUnknown(s) ==
    /\ Handling(s, "UNKNOWN")
    /\ Refuse(s, "INTERNAL_ERROR")
    /\ UNCHANGED <<requests, taken, replies, topics_, topic, removed>>

\* Session u is about to use topics_.
EntersRegistry(u) ==
    \/ pc[u] \in {"emplace", "link"}
    \/ pc[u] = "handle" /\ Current(u).opcode # "UNKNOWN" /\ Current(u).topic_name # 0

\* The data race on topics_: another thread is in it while s links its node.
Race(s) ==
    /\ pc[s] = "link"
    /\ \E u \in Sessions \ {s} : Runs(u) /\ EntersRegistry(u)
    /\ GoUndefined("race")
    /\ UNCHANGED <<requests, taken, replies, topics_, topic, removed>>

-----------------------------------------------------------------------------
(* The topic's answer and what the handler makes of it *)

\* The topic has answered; the handler has no more use for it.
Answered(s, opcode, code, message) ==
    /\ Answer(s, opcode, code, message, "respond")
    /\ topic' = [topic EXCEPT ![s] = 0]

Push(s) ==
    LET h == Current(s)
    IN  /\ pc[s] = "push"
        /\ topics_' = [topics_ EXCEPT ![h.topic_name][topic[s]] = Append(@, h.message)]
        /\ Answered(s, "PUSH", "OK", 0)
        /\ UNCHANGED <<requests, taken, replies, removed, undefined>>

Read(s) ==
    LET q == Nodes(s)[topic[s]]
    IN  /\ pc[s] = "read"
        /\ \/ q = <<>> /\ Answered(s, "PULL", "EMPTY_PARTITION", 1)
           \/ q # <<>> /\ Answered(s, "PULL", "OK", Head(q))
        /\ UNCHANGED <<requests, taken, replies, topics_, removed, undefined>>

\* handle_delete does not look at what remove returns.
Remove(s) ==
    LET n == Current(s).topic_name
        q == Nodes(s)[topic[s]]
    IN  /\ pc[s] = "remove"
        /\ \/ q = <<>> /\ GoUndefined("front") /\ UNCHANGED <<topics_, topic, removed>>
           \/ /\ q # <<>>
              /\ Answered(s, "DELETE", "OK", 0)
              /\ \/ /\ Head(q) = Current(s).message
                    /\ topics_' = [topics_ EXCEPT ![n][topic[s]] = Tail(@)]
                    /\ removed' = [removed EXCEPT ![n] = Append(@, Head(q))]
                 \/ /\ Head(q) # Current(s).message
                    /\ UNCHANGED <<topics_, removed>>
              /\ UNCHANGED undefined
        /\ UNCHANGED <<requests, taken, replies>>

-----------------------------------------------------------------------------

\* What the session does when it runs.
Step(s) ==
    \/ ReadHeader(s) \/ ReadBody(s) \/ Respond(s)
    \/ HandlePush(s) \/ HandlePull(s) \/ HandleDelete(s) \/ HandleUnknown(s)
    \/ Emplace(s) \/ Link(s) \/ Race(s)
    \/ Push(s) \/ Read(s) \/ Remove(s)

Next ==
    /\ undefined = "no"
    /\ \E s \in Sessions : Send(s) \/ (Runs(s) /\ (Break(s) \/ Step(s)))

Spec == Init /\ [][Next]_vars

\* A session that can go on does: its I/O completes, a thread takes it up, and
\* the topic's operations complete (EveryRequestAnswered of Topic).
FairSpec == Spec /\ \A s \in Sessions : WF_vars(undefined = "no" /\ Runs(s) /\ Step(s))

-----------------------------------------------------------------------------
(* Properties *)

\* handle_requests leaves its loop after such a request.
Rejected(h) == ~h.magic \/ TooLarge(h)

\* Responses come in the order of the requests, one for each that was read,
\* and say which operation they answer (a request without the magic number
\* counts as a PUSH): a client that sends requests ahead can tell them apart.
AnsweredInOrder ==
    \A s \in Sessions :
        /\ pc[s] # "broken" =>
              taken[s] - Len(replies[s]) = IF pc[s] \in {"header", "closed"} THEN 0 ELSE 1
        /\ \A i \in 1..Len(replies[s]) :
              replies[s][i].opcode = IF requests[s][i].magic THEN requests[s][i].opcode
                                     ELSE "PUSH"

\* The requests <<session, position>> of this opcode to topic n that were
\* answered OK.
Acked(opcode, n) ==
    {a \in Sessions \X (1..MaxRequests) :
        /\ a[2] <= Len(replies[a[1]])
        /\ replies[a[1]][a[2]].error_code = "OK"
        /\ requests[a[1]][a[2]].opcode = opcode /\ requests[a[1]][a[2]].topic_name = n}

Count(m, q) == Cardinality({i \in 1..Len(q) : q[i] = m})

\* The queue a later PULL or DELETE of topic n looks at: get_topic's find
\* returns the topic linked last.
Reached(n) == IF topics_[n] = <<>> THEN <<>> ELSE topics_[n][Len(topics_[n])]

\* At most one topic is linked under name n.
OneTopic(n) == Len(topics_[n]) <= 1

\* A message whose PUSH was answered OK is where later requests to its topic
\* find it, until a DELETE takes it out, whatever other sessions do and
\* whichever connections break: as long as one topic is linked under the name.
\* (Threads that miss each other's first push in get_or_create_topic link two,
\* and what was pushed to the first one is then out of reach.)
AckedPushesKept ==
    \A n \in TopicNames, m \in {h.message : h \in AllHeaders} :
        OneTopic(n) =>
            Cardinality({a \in Acked("PUSH", n) : requests[a[1]][a[2]].message = m})
                <= Count(m, Reached(n)) + Count(m, removed[n])

\* A DELETE that was answered OK has removed a message.
AckedDeletesRemoved ==
    \A n \in TopicNames : Cardinality(Acked("DELETE", n)) <= Len(removed[n])

\* Every request is answered, unless the connection breaks, an earlier
\* request made the session hang up, or the code does something undefined.
EveryRequestAnswered ==
    \A s \in Sessions :
        Len(replies[s]) < Len(requests[s]) ~>
            \/ Len(replies[s]) = Len(requests[s])
            \/ pc[s] = "broken"
            \/ \E i \in 1..Len(replies[s]) : Rejected(requests[s][i])
            \/ undefined # "no"
=============================================================================
