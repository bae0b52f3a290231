--------------------------- MODULE Session_proofs ---------------------------
(***************************************************************************)
(* Proofs about Session, for any sessions, requests and threads: types,    *)
(* the order of the responses, and that an acknowledged PUSH is kept as    *)
(* long as one topic is linked under its name, which on one thread is      *)
(* always so.                                                              *)
(***************************************************************************)
EXTENDS Session, FiniteSetTheorems, TLAPS

\* The types of the variables as functions.
SessionTypes ==
    /\ pc \in [Sessions -> PCs]
    /\ requests \in [Sessions -> Seq(AllHeaders)]
    /\ taken \in [Sessions -> Nat]
    /\ response \in [Sessions -> Response \cup {None}]
    /\ replies \in [Sessions -> Seq(Response)]
    /\ topics_ \in [TopicNames -> Seq(Seq(Uint16))]
    /\ topic \in [Sessions -> Nat]
    /\ removed \in [TopicNames -> Seq(Uint16)]
    /\ undefined \in {"no", "index", "front", "overflow", "race"}

\* The operation a response says it answers.
Answers(h) == IF h.magic THEN h.opcode ELSE "PUSH"

\* The session is between reading a request and answering it.
Busy(s) == pc[s] \in {"body", "handle", "emplace", "link", "push", "read", "remove",
                       "respond", "hangup"}

\* How far session s is with the requests and responses of its connection.
InOrder(s) ==
    /\ Len(replies[s]) <= taken[s] /\ taken[s] <= Len(requests[s])
    /\ pc[s] \in {"header", "closed"} => taken[s] = Len(replies[s])
    /\ Busy(s) => taken[s] = Len(replies[s]) + 1
    /\ pc[s] \in {"body", "handle", "emplace", "link", "push", "read", "remove"}
          => Current(s).magic
    /\ pc[s] \in {"emplace", "link", "push"} => Current(s).opcode = "PUSH"
    /\ pc[s] = "read" => Current(s).opcode = "PULL"
    /\ pc[s] = "remove" => Current(s).opcode = "DELETE"

\* A session that calls a topic has got one that is linked.
TopicHeld(s) ==
    IF pc[s] \in {"push", "read", "remove"}
    THEN topic[s] \in 1..Len(topics_[Current(s).topic_name])
    ELSE topic[s] = 0

\* A response is there exactly when one is about to be written; it names the
\* operation it answers, and a refusal after which the session hangs up is not
\* an acknowledgement.
ResponseExact(s) ==
    /\ IF pc[s] \in {"respond", "hangup"} THEN response[s] \in Response ELSE response[s] = None
    /\ pc[s] \in {"respond", "hangup"} => response[s].opcode = Answers(Current(s))
    /\ pc[s] = "hangup" => response[s].error_code # "OK"

\* The responses received name the operations they answer.
RepliesMatch(s) ==
    \A i \in 1..Len(replies[s]) : replies[s][i].opcode = Answers(requests[s][i])

\* The inductive invariant for the order of responses.
OrderInv ==
    /\ SessionTypes
    /\ \A s \in Sessions : InOrder(s) /\ TopicHeld(s) /\ ResponseExact(s) /\ RepliesMatch(s)

\* A step of session s leaves the variables of the others alone.
OthersStay(s) ==
    \A u \in Sessions \ {s} :
        /\ pc'[u] = pc[u] /\ requests'[u] = requests[u] /\ taken'[u] = taken[u]
        /\ response'[u] = response[u] /\ replies'[u] = replies[u] /\ topic'[u] = topic[u]

\* A topic that was linked stays linked.
LinkedStay == \A n \in TopicNames : Len(topics_[n]) <= Len(topics_'[n])

\* Request i of session s pushed message m to topic n and has been answered OK,
\* or is about to be.
Pushed(s, i, n, m) ==
    /\ i \in 1..taken[s]
    /\ requests[s][i].opcode = "PUSH"
    /\ requests[s][i].topic_name = n /\ requests[s][i].message = m
    /\ \/ i <= Len(replies[s]) /\ replies[s][i].error_code = "OK"
       \/ i = taken[s] /\ pc[s] = "respond" /\ response[s].error_code = "OK"

Done(n, m) == {a \in Sessions \X Nat : Pushed(a[1], a[2], n, m)}

\* On one thread nobody else is in the registry while a session creates a topic:
\* the name is not linked meanwhile, and no name is linked twice.
SingleInv ==
    /\ \A s, u \in InRegistry : s = u
    /\ undefined = "no" => \A s \in InRegistry : Nodes(s) = <<>>
    /\ \A n \in TopicNames : OneTopic(n)

\* Each of the requests that pushed to a name with one topic has put its message
\* into the queue that later requests reach, where it is or from where remove
\* has taken it.
KeptInv ==
    \A n \in TopicNames, m \in Uint16 :
        /\ IsFiniteSet(Done(n, m))
        /\ OneTopic(n) =>
              Cardinality(Done(n, m)) <= Count(m, Reached(n)) + Count(m, removed[n])

-----------------------------------------------------------------------------
(* Requests *)

\* What the fields of a request can be.
LEMMA HeaderFields ==
    ASSUME NEW h \in AllHeaders
    PROVE  /\ h.magic \in BOOLEAN /\ h.opcode \in Opcodes
           /\ h.topic_name \in Uint16 /\ h.partition_id \in Uint16 /\ h.message \in Uint16
           /\ h.topic_name \in TopicNames
           /\ Answers(h) \in Opcodes
BY SessionAssumption DEF TopicNames, Answers, Opcodes

\* A client sends only its own requests.
LEMMA HeaderOfSession ==
    ASSUME NEW s \in Sessions, NEW h \in Headers[s]
    PROVE  h \in AllHeaders
BY DEF AllHeaders

\* A busy session handles a request that was sent.
LEMMA CurrentRequest ==
    ASSUME OrderInv, NEW s \in Sessions, Busy(s)
    PROVE  /\ taken[s] \in 1..Len(requests[s])
           /\ Current(s) \in AllHeaders
<1>1. /\ requests[s] \in Seq(AllHeaders) /\ replies[s] \in Seq(Response) /\ taken[s] \in Nat
      /\ taken[s] = Len(replies[s]) + 1 /\ taken[s] <= Len(requests[s])
  BY DEF OrderInv, SessionTypes, InOrder
<1>2. QED
  BY <1>1 DEF Current

-----------------------------------------------------------------------------
(* The order of responses *)

\* The variables of a session are its own, and topics are only added.
LEMMA OneSessionMoves ==
    ASSUME OrderInv, NEW s \in Sessions, SessionTypes', LinkedStay, OthersStay(s),
           InOrder(s)', TopicHeld(s)', ResponseExact(s)', RepliesMatch(s)'
    PROVE  OrderInv'
<1>1. ASSUME NEW u \in Sessions, u # s
      PROVE  InOrder(u)' /\ TopicHeld(u)' /\ ResponseExact(u)' /\ RepliesMatch(u)'
  <2>1. InOrder(u) /\ TopicHeld(u) /\ ResponseExact(u) /\ RepliesMatch(u)
    BY DEF OrderInv
  <2>2. /\ pc'[u] = pc[u] /\ requests'[u] = requests[u] /\ taken'[u] = taken[u]
        /\ response'[u] = response[u] /\ replies'[u] = replies[u] /\ topic'[u] = topic[u]
    BY <1>1 DEF OthersStay
  <2>3. InOrder(u)'
    BY <2>1, <2>2 DEF InOrder, Busy, Current
  <2>4. ResponseExact(u)' /\ RepliesMatch(u)'
    BY <2>1, <2>2 DEF ResponseExact, RepliesMatch, Current
  <2>5. TopicHeld(u)'
    <3>1. CASE pc[u] \in {"push", "read", "remove"}
      <4> DEFINE n == Current(u).topic_name
      <4>1. n \in TopicNames
        BY <3>1, CurrentRequest, HeaderFields DEF Busy
      <4>2. /\ topics_[n] \in Seq(Seq(Uint16)) /\ topics_'[n] \in Seq(Seq(Uint16))
            /\ Len(topics_[n]) <= Len(topics_'[n])
        BY <4>1 DEF LinkedStay, OrderInv, SessionTypes
      <4>3. topic[u] \in 1..Len(topics_[n]) /\ Current(u)' = Current(u)
        BY <2>1, <2>2, <3>1 DEF TopicHeld, Current
      <4>4. topic[u] \in 1..Len(topics_'[n])
        BY <4>2, <4>3
      <4>5. QED
        BY <2>2, <3>1, <4>3, <4>4 DEF TopicHeld
    <3>2. CASE pc[u] \notin {"push", "read", "remove"}
      BY <2>1, <2>2, <3>2 DEF TopicHeld
    <3>3. QED
      BY <3>1, <3>2
  <2>6. QED
    BY <2>3, <2>4, <2>5
<1>2. QED
  BY <1>1 DEF OrderInv

\* A step that does not touch the registry.
LEMMA RegistryStays ==
    ASSUME OrderInv, UNCHANGED topics_
    PROVE  LinkedStay /\ topics_' \in [TopicNames -> Seq(Seq(Uint16))]
BY DEF LinkedStay, OrderInv, SessionTypes

\* An answer to the request that is being handled.
LEMMA AnswerInOrder ==
    ASSUME OrderInv, NEW s \in Sessions, Busy(s),
           NEW code \in Codes, NEW message \in Uint16,
           Answer(s, Answers(Current(s)), code, message, "respond"),
           topic' = [topic EXCEPT ![s] = 0],
           UNCHANGED <<requests, taken, replies>>, LinkedStay,
           topics_' \in [TopicNames -> Seq(Seq(Uint16))], removed' \in [TopicNames -> Seq(Uint16)],
           undefined' = undefined
    PROVE  OrderInv'
<1>1. Current(s) \in AllHeaders /\ Answers(Current(s)) \in Opcodes
  BY CurrentRequest, HeaderFields
<1> DEFINE r == [opcode |-> Answers(Current(s)), error_code |-> code, message |-> message]
<1>2. /\ r \in Response /\ r.opcode = Answers(Current(s))
      /\ response' = [response EXCEPT ![s] = r] /\ pc' = [pc EXCEPT ![s] = "respond"]
  BY <1>1 DEF Answer, Response
<1> HIDE DEF r
<1>3. SessionTypes'
  BY <1>2 DEF OrderInv, SessionTypes, PCs
<1>4. pc'[s] = "respond" /\ response'[s] = r /\ Current(s)' = Current(s) /\ topic'[s] = 0
  BY <1>2 DEF OrderInv, SessionTypes, Current
<1>5. InOrder(s)' /\ TopicHeld(s)'
  BY <1>4 DEF OrderInv, InOrder, Busy, TopicHeld
<1>6. ResponseExact(s)' /\ RepliesMatch(s)'
  BY <1>2, <1>4 DEF OrderInv, ResponseExact, RepliesMatch
<1>7. OthersStay(s)
  BY <1>2 DEF OrderInv, SessionTypes, OthersStay
<1>8. QED
  BY <1>3, <1>5, <1>6, <1>7, OneSessionMoves

\* The session goes on with its request, at a point that suits the request and
\* the topic it has got.
LEMMA GoOnInOrder ==
    ASSUME OrderInv, NEW s \in Sessions, pc[s] \in {"body", "handle", "emplace", "link"},
           LinkedStay, topics_' \in [TopicNames -> Seq(Seq(Uint16))],
           NEW point \in {"handle", "emplace", "link", "push", "read", "remove"},
           pc' = [pc EXCEPT ![s] = point],
           NEW o \in Nat, topic' = [topic EXCEPT ![s] = o],
           IF point \in {"push", "read", "remove"}
              THEN o \in 1..Len(topics_'[Current(s).topic_name]) ELSE o = 0,
           point \in {"emplace", "link", "push"} => Current(s).opcode = "PUSH",
           point = "read" => Current(s).opcode = "PULL",
           point = "remove" => Current(s).opcode = "DELETE",
           UNCHANGED <<requests, taken, replies, response, removed, undefined>>
    PROVE  OrderInv'
<1>1. SessionTypes'
  BY DEF OrderInv, SessionTypes, PCs
<1>2. pc'[s] = point /\ Current(s)' = Current(s) /\ topic'[s] = o
  BY DEF OrderInv, SessionTypes, Current
<1>3. InOrder(s)'
  BY <1>2 DEF OrderInv, InOrder, Busy
<1>4. ResponseExact(s)' /\ RepliesMatch(s)'
  BY <1>2 DEF OrderInv, ResponseExact, RepliesMatch
<1>5. TopicHeld(s)'
  BY <1>2 DEF TopicHeld
<1>6. OthersStay(s)
  BY DEF OrderInv, SessionTypes, OthersStay
<1>7. QED
  BY <1>1, <1>3, <1>4, <1>5, <1>6, OneSessionMoves

\* The code does something undefined: the sessions stay where they are.
LEMMA UndefinedInOrder ==
    ASSUME OrderInv, NEW s \in Sessions, LinkedStay,
           topics_' \in [TopicNames -> Seq(Seq(Uint16))],
           NEW how \in {"index", "front", "overflow", "race"}, GoUndefined(how),
           UNCHANGED <<requests, taken, replies, topic, removed>>
    PROVE  OrderInv'
<1>1. UNCHANGED <<pc, response>> /\ undefined' = how
  BY DEF GoUndefined
<1>2. SessionTypes'
  BY <1>1 DEF OrderInv, SessionTypes
<1>3. InOrder(s)' /\ ResponseExact(s)' /\ RepliesMatch(s)'
  BY <1>1 DEF OrderInv, InOrder, ResponseExact, RepliesMatch, Busy, Current
<1>4. TopicHeld(s)'
  <2>1. CASE pc[s] \in {"push", "read", "remove"}
    <3> DEFINE n == Current(s).topic_name
    <3>1. n \in TopicNames
      BY <2>1, CurrentRequest, HeaderFields DEF Busy
    <3>2. /\ topics_[n] \in Seq(Seq(Uint16)) /\ topics_'[n] \in Seq(Seq(Uint16))
          /\ Len(topics_[n]) <= Len(topics_'[n])
      BY <3>1 DEF LinkedStay, OrderInv, SessionTypes
    <3>3. topic[s] \in 1..Len(topics_[n]) /\ Current(s)' = Current(s)
      BY <2>1 DEF OrderInv, TopicHeld, Current
    <3>4. topic[s] \in 1..Len(topics_'[n])
      BY <3>2, <3>3
    <3>5. QED
      BY <1>1, <2>1, <3>3, <3>4 DEF TopicHeld
  <2>2. CASE pc[s] \notin {"push", "read", "remove"}
    BY <1>1, <2>2 DEF OrderInv, TopicHeld
  <2>3. QED
    BY <2>1, <2>2
<1>5. OthersStay(s)
  BY <1>1 DEF OthersStay
<1>6. QED
  BY <1>2, <1>3, <1>4, <1>5, OneSessionMoves

\* A request is sent: the ones already read stay where they are.
LEMMA SendInOrder ==
    ASSUME OrderInv, NEW s \in Sessions, Send(s)
    PROVE  OrderInv'
<1>1. PICK h \in AllHeaders : requests' = [requests EXCEPT ![s] = Append(@, h)]
  BY HeaderOfSession DEF Send
<1>2. UNCHANGED <<pc, taken, response, replies, topics_, topic, removed, undefined>>
  BY DEF Send
<1>3. /\ requests[s] \in Seq(AllHeaders) /\ replies[s] \in Seq(Response) /\ taken[s] \in Nat
      /\ requests'[s] = Append(requests[s], h)
      /\ Len(replies[s]) <= taken[s] /\ taken[s] <= Len(requests[s])
  BY <1>1 DEF OrderInv, SessionTypes, InOrder
<1>4. /\ requests'[s] \in Seq(AllHeaders) /\ Len(requests'[s]) = Len(requests[s]) + 1
      /\ \A i \in 1..Len(requests[s]) : requests'[s][i] = requests[s][i]
  BY <1>3
<1>5. SessionTypes'
  BY <1>1, <1>2, <1>4 DEF OrderInv, SessionTypes
<1>6. Busy(s) => Current(s)' = Current(s)
  BY <1>2, <1>4, CurrentRequest DEF Current
<1>7. InOrder(s)' /\ TopicHeld(s)'
  BY <1>2, <1>3, <1>4, <1>6 DEF OrderInv, InOrder, Busy, TopicHeld
<1>8. ResponseExact(s)'
  BY <1>2, <1>6 DEF OrderInv, ResponseExact, Busy
<1>9. RepliesMatch(s)'
  <2>1. \A i \in 1..Len(replies[s]) : i \in 1..Len(requests[s])
    BY <1>3
  <2>2. QED
    BY <1>2, <1>4, <2>1 DEF OrderInv, RepliesMatch
<1>10. OthersStay(s)
  BY <1>1, <1>2 DEF OrderInv, SessionTypes, OthersStay
<1>11. QED
  BY <1>2, <1>5, <1>7, <1>8, <1>9, <1>10, OneSessionMoves, RegistryStays

\* The connection breaks.
LEMMA BreakInOrder ==
    ASSUME OrderInv, NEW s \in Sessions, Break(s)
    PROVE  OrderInv'
<1>1. /\ pc' = [pc EXCEPT ![s] = "broken"] /\ response' = [response EXCEPT ![s] = None]
      /\ UNCHANGED <<requests, taken, replies, topics_, topic, removed, undefined>>
  BY DEF Break
<1>2. SessionTypes'
  BY <1>1 DEF OrderInv, SessionTypes, PCs
<1>3. pc'[s] = "broken" /\ response'[s] = None /\ topic'[s] = 0
  BY <1>1 DEF OrderInv, SessionTypes, TopicHeld, Break
<1>4. InOrder(s)' /\ TopicHeld(s)' /\ ResponseExact(s)' /\ RepliesMatch(s)'
  BY <1>1, <1>3 DEF OrderInv, InOrder, Busy, ResponseExact, RepliesMatch, TopicHeld
<1>5. OthersStay(s)
  BY <1>1 DEF OrderInv, SessionTypes, OthersStay
<1>6. QED
  BY <1>1, <1>2, <1>4, <1>5, OneSessionMoves, RegistryStays

\* The next request is read; a refusal names its opcode, or PUSH.
LEMMA ReadHeaderInOrder ==
    ASSUME OrderInv, NEW s \in Sessions, ReadHeader(s)
    PROVE  OrderInv'
<1> DEFINE h == requests[s][taken[s] + 1]
<1>1. /\ pc[s] = "header" /\ taken[s] < Len(requests[s])
      /\ taken' = [taken EXCEPT ![s] = @ + 1]
      /\ UNCHANGED <<requests, replies, topics_, topic, removed, undefined>>
  BY DEF ReadHeader
<1>2. /\ requests[s] \in Seq(AllHeaders) /\ replies[s] \in Seq(Response) /\ taken[s] \in Nat
      /\ taken[s] = Len(replies[s]) /\ response[s] = None /\ topic[s] = 0
  BY <1>1 DEF OrderInv, SessionTypes, InOrder, ResponseExact, TopicHeld
<1>3. h \in AllHeaders
  BY <1>1, <1>2
<1>4. taken'[s] = taken[s] + 1 /\ Current(s)' = h
  BY <1>1, <1>2 DEF OrderInv, SessionTypes, Current
<1>5. \A u \in Sessions \ {s} : requests'[u] = requests[u] /\ taken'[u] = taken[u]
                                /\ replies'[u] = replies[u]
  BY <1>1 DEF OrderInv, SessionTypes
<1>6. RepliesMatch(s)'
  BY <1>1 DEF OrderInv, RepliesMatch
<1>7. h.magic \in BOOLEAN /\ h.opcode \in Opcodes /\ Answers(h) \in Opcodes
  BY <1>3, HeaderFields
<1>8. CASE ~h.magic \/ TooLarge(h)
  <2> DEFINE r == [opcode |-> Answers(h), error_code |-> "INTERNAL_ERROR", message |-> 1]
  <2>1. response' = [response EXCEPT ![s] = r] /\ pc' = [pc EXCEPT ![s] = "hangup"]
    BY <1>7, <1>8 DEF ReadHeader, Answer, Answers
  <2>2. r \in Response /\ r.opcode = Answers(h) /\ r.error_code # "OK"
    BY <1>7 DEF Response, Codes, Uint16
  <2> HIDE DEF h, r
  <2>3. SessionTypes'
    BY <1>1, <2>1, <2>2 DEF OrderInv, SessionTypes, PCs
  <2>4. pc'[s] = "hangup" /\ response'[s] = r
    BY <2>1 DEF OrderInv, SessionTypes
  <2>5. InOrder(s)' /\ TopicHeld(s)'
    BY <1>1, <1>2, <1>4, <2>4 DEF InOrder, Busy, TopicHeld
  <2>6. ResponseExact(s)'
    BY <1>4, <2>2, <2>4 DEF ResponseExact
  <2>7. OthersStay(s)
    BY <1>1, <1>5, <2>1 DEF OrderInv, SessionTypes, OthersStay
  <2>8. QED
    BY <1>1, <1>6, <2>3, <2>5, <2>6, <2>7, OneSessionMoves, RegistryStays
<1>9. CASE h.magic /\ ~TooLarge(h)
  <2>1. PICK point \in {"body", "handle"} : pc' = [pc EXCEPT ![s] = point]
    BY <1>9 DEF ReadHeader
  <2>2. UNCHANGED response
    BY <1>9 DEF ReadHeader
  <2> HIDE DEF h
  <2>3. SessionTypes'
    BY <1>1, <2>1, <2>2 DEF OrderInv, SessionTypes, PCs
  <2>4. pc'[s] = point
    BY <2>1 DEF OrderInv, SessionTypes
  <2>5. InOrder(s)' /\ TopicHeld(s)'
    BY <1>1, <1>2, <1>4, <1>9, <2>4 DEF InOrder, Busy, TopicHeld
  <2>6. ResponseExact(s)'
    BY <1>2, <2>2, <2>4 DEF ResponseExact
  <2>7. OthersStay(s)
    BY <1>1, <1>5, <2>1, <2>2 DEF OrderInv, SessionTypes, OthersStay
  <2>8. QED
    BY <1>1, <1>6, <2>3, <2>5, <2>6, <2>7, OneSessionMoves, RegistryStays
<1>10. QED
  BY <1>7, <1>8, <1>9

\* The response is written: it answers the request read last.
LEMMA RespondInOrder ==
    ASSUME OrderInv, NEW s \in Sessions, Respond(s)
    PROVE  OrderInv'
<1> DEFINE r == response[s]
<1>1. /\ pc[s] \in {"respond", "hangup"}
      /\ replies' = [replies EXCEPT ![s] = Append(@, r)]
      /\ response' = [response EXCEPT ![s] = None]
      /\ UNCHANGED <<requests, taken, topics_, topic, removed, undefined>>
  BY DEF Respond
<1>2. PICK point \in {"header", "closed"} : pc' = [pc EXCEPT ![s] = point]
  BY DEF Respond
<1>3. /\ requests[s] \in Seq(AllHeaders) /\ replies[s] \in Seq(Response) /\ taken[s] \in Nat
      /\ taken[s] = Len(replies[s]) + 1 /\ taken[s] <= Len(requests[s])
      /\ r \in Response /\ r.opcode = Answers(requests[s][taken[s]])
  BY <1>1 DEF OrderInv, SessionTypes, InOrder, Busy, ResponseExact, Current
<1> HIDE DEF r
<1>4. /\ replies'[s] = Append(replies[s], r) /\ replies'[s] \in Seq(Response)
      /\ pc'[s] = point /\ response'[s] = None
  BY <1>1, <1>2, <1>3 DEF OrderInv, SessionTypes
<1>5. /\ Len(replies'[s]) = Len(replies[s]) + 1 /\ replies'[s][Len(replies[s]) + 1] = r
      /\ \A i \in 1..Len(replies[s]) : replies'[s][i] = replies[s][i]
  BY <1>3, <1>4
<1>6. SessionTypes'
  BY <1>1, <1>2, <1>4 DEF OrderInv, SessionTypes, PCs
<1>7. InOrder(s)' /\ TopicHeld(s)' /\ ResponseExact(s)'
  <2>1. topic'[s] = 0
    BY <1>1 DEF OrderInv, TopicHeld
  <2>2. QED
    BY <1>1, <1>3, <1>4, <1>5, <2>1 DEF InOrder, Busy, ResponseExact, TopicHeld
<1>8. RepliesMatch(s)'
  <2>1. ASSUME NEW i \in 1..Len(replies'[s])
        PROVE  replies'[s][i].opcode = Answers(requests[s][i])
    <3>1. CASE i \in 1..Len(replies[s])
      BY <1>5, <3>1 DEF OrderInv, RepliesMatch
    <3>2. CASE i = Len(replies[s]) + 1
      BY <1>3, <1>5, <3>2
    <3>3. QED
      BY <1>3, <1>5, <3>1, <3>2
  <2>2. QED
    BY <1>1, <2>1 DEF RepliesMatch
<1>9. OthersStay(s)
  BY <1>1, <1>2 DEF OrderInv, SessionTypes, OthersStay
<1>10. QED
  BY <1>1, <1>6, <1>7, <1>8, <1>9, OneSessionMoves, RegistryStays

\* A handler knows its request; an error response names its opcode.
LEMMA HandlerKnows ==
    ASSUME OrderInv, NEW s \in Sessions,
           pc[s] \in {"body", "handle", "emplace", "link", "push", "read", "remove"}
    PROVE  /\ Busy(s) /\ Current(s) \in AllHeaders
           /\ Answers(Current(s)) = Current(s).opcode
           /\ Current(s).topic_name \in TopicNames /\ Current(s).message \in Uint16
           /\ Nodes(s) \in Seq(Seq(Uint16)) /\ Found(s) \in Nat
           /\ Nodes(s) # <<>> => Found(s) \in 1..Len(Nodes(s))
<1>1. Busy(s) /\ Current(s).magic
  BY DEF OrderInv, InOrder, Busy
<1>2. Current(s) \in AllHeaders
  BY <1>1, CurrentRequest
<1>3. Current(s).topic_name \in TopicNames
  BY <1>2, HeaderFields
<1>4. Nodes(s) \in Seq(Seq(Uint16))
  BY <1>3 DEF Nodes, OrderInv, SessionTypes
<1>5. Found(s) \in Nat /\ (Nodes(s) # <<>> => Found(s) \in 1..Len(Nodes(s)))
  BY <1>4 DEF Found
<1>6. QED
  BY <1>1, <1>2, <1>4, <1>5, HeaderFields DEF Answers

\* An error response of a handler.
LEMMA RefuseInOrder ==
    ASSUME OrderInv, NEW s \in Sessions, pc[s] = "handle", NEW code \in Codes, Refuse(s, code),
           UNCHANGED <<requests, taken, replies, topics_, topic, removed>>
    PROVE  OrderInv'
<1>1. Busy(s) /\ Answers(Current(s)) = Current(s).opcode
  BY HandlerKnows
<1>2. Answer(s, Answers(Current(s)), code, 1, "respond") /\ 1 \in Uint16 /\ undefined' = undefined
  BY <1>1 DEF Refuse, Uint16
<1>3. removed' \in [TopicNames -> Seq(Uint16)] /\ topic' = [topic EXCEPT ![s] = 0]
  BY DEF OrderInv, SessionTypes, TopicHeld
<1>4. QED
  BY <1>1, <1>2, <1>3, AnswerInOrder, RegistryStays

\* A handler calls the topic it has got, or indexes storage_ with a partition
\* that does not exist.
LEMMA CallTopicInOrder ==
    ASSUME OrderInv, NEW s \in Sessions, pc[s] \in {"handle", "emplace", "link"},
           LinkedStay, topics_' \in [TopicNames -> Seq(Seq(Uint16))],
           NEW o \in 1..Len(topics_'[Current(s).topic_name]),
           NEW partition, NEW point \in {"push", "read", "remove"},
           CallTopic(s, o, partition, point),
           point = "push" => Current(s).opcode = "PUSH",
           point = "read" => Current(s).opcode = "PULL",
           point = "remove" => Current(s).opcode = "DELETE",
           UNCHANGED <<requests, taken, replies, removed>>
    PROVE  OrderInv'
<1>1. CASE /\ pc' = [pc EXCEPT ![s] = point] /\ topic' = [topic EXCEPT ![s] = o]
           /\ UNCHANGED <<response, undefined>>
  <2>1. o \in Nat
    OBVIOUS
  <2>2. QED
    BY <1>1, <2>1, GoOnInOrder
<1>2. CASE GoUndefined("index") /\ UNCHANGED topic
  BY <1>2, UndefinedInOrder
<1>3. QED
  BY <1>1, <1>2 DEF CallTopic

\* The codes the handlers use.
LEMMA CodesUsed ==
    {"OK", "INVALID_TOPIC_NAME", "INVALID_PARTITION_ID", "TOPIC_NOT_FOUND",
     "PARTITION_NOT_FOUND", "EMPTY_PARTITION", "INTERNAL_ERROR"} \subseteq Codes
BY DEF Codes

\* handle_push goes on with the topic that get_or_create_topic has returned.
LEMMA PushToInOrder ==
    ASSUME OrderInv, NEW s \in Sessions, pc[s] \in {"handle", "emplace", "link"},
           LinkedStay, topics_' \in [TopicNames -> Seq(Seq(Uint16))],
           NEW o \in 1..Len(topics_'[Current(s).topic_name]),
           Current(s).opcode = "PUSH", PushTo(s, o),
           UNCHANGED <<requests, taken, replies, removed>>
    PROVE  OrderInv'
<1>1. CASE GoUndefined("overflow") /\ UNCHANGED topic
  BY <1>1, UndefinedInOrder
<1>2. ASSUME NEW partition, CallTopic(s, o, partition, "push")
      PROVE  OrderInv'
  BY <1>2, CallTopicInOrder
<1>3. QED
  BY <1>1, <1>2 DEF PushTo

\* get_or_create_topic has not got a topic yet.
LEMMA PassOnInOrder ==
    ASSUME OrderInv, NEW s \in Sessions, pc[s] \in {"handle", "emplace"},
           NEW point \in {"emplace", "link"}, GoOn(s, point), Current(s).opcode = "PUSH",
           UNCHANGED <<requests, taken, replies, topics_, removed>>
    PROVE  OrderInv'
<1>1. topic' = [topic EXCEPT ![s] = 0]
  BY DEF GoOn, OrderInv, SessionTypes, TopicHeld
<1>2. pc' = [pc EXCEPT ![s] = point] /\ UNCHANGED <<response, undefined>>
  BY DEF GoOn
<1>3. LinkedStay /\ topics_' \in [TopicNames -> Seq(Seq(Uint16))] /\ 0 \in Nat
  BY RegistryStays
<1>4. QED
  BY <1>1, <1>2, <1>3, GoOnInOrder

\* handle_push and get_or_create_topic.
LEMMA CreateInOrder ==
    ASSUME OrderInv, NEW s \in Sessions, HandlePush(s) \/ Emplace(s) \/ Link(s)
    PROVE  OrderInv'
<1> DEFINE n == Current(s).topic_name
<1>1. /\ pc[s] \in {"handle", "emplace", "link"} /\ Current(s).opcode = "PUSH"
      /\ UNCHANGED <<requests, taken, replies, removed>>
  BY DEF HandlePush, Emplace, Link, Handling, OrderInv, InOrder
<1>2. /\ n \in TopicNames /\ topics_[n] \in Seq(Seq(Uint16)) /\ Found(s) = Len(topics_[n])
      /\ topics_[n] # <<>> => Found(s) \in 1..Len(topics_[n])
  BY <1>1, HandlerKnows DEF Nodes, Found
<1>3. CASE HandlePush(s) \/ Emplace(s)
  <2>1. UNCHANGED topics_ /\ pc[s] \in {"handle", "emplace"}
    BY <1>3 DEF HandlePush, Emplace, Handling
  <2>2. LinkedStay /\ topics_' \in [TopicNames -> Seq(Seq(Uint16))]
    BY <2>1, RegistryStays
  <2>3. CASE topics_[n] # <<>> /\ PushTo(s, Found(s))
    <3>1. Found(s) \in 1..Len(topics_'[n])
      BY <1>2, <2>1, <2>3
    <3>2. QED
      BY <1>1, <2>2, <2>3, <3>1, PushToInOrder
  <2>4. CASE \E point \in {"emplace", "link"} : GoOn(s, point)
    BY <1>1, <2>1, <2>4, PassOnInOrder
  <2>5. CASE pc[s] = "handle" /\ Refuse(s, "INVALID_TOPIC_NAME") /\ UNCHANGED topic
    BY <1>1, <2>1, <2>5, RefuseInOrder, CodesUsed
  <2>6. QED
    BY <1>3, <2>3, <2>4, <2>5 DEF HandlePush, Emplace, Handling, Nodes
<1>4. CASE Link(s)
  <2>1. topics_' = [topics_ EXCEPT ![n] = Append(topics_[n], <<>>)]
    BY <1>4 DEF Link
  <2>2. <<>> \in Seq(Uint16)
    OBVIOUS
  <2>3. /\ Append(topics_[n], <<>>) \in Seq(Seq(Uint16))
        /\ Len(Append(topics_[n], <<>>)) = Len(topics_[n]) + 1
    BY <1>2, <2>2
  <2>4. topics_' \in [TopicNames -> Seq(Seq(Uint16))] /\ topics_'[n] = Append(topics_[n], <<>>)
    BY <1>2, <2>1, <2>3 DEF OrderInv, SessionTypes
  <2>5. LinkedStay
    <3> SUFFICES ASSUME NEW k \in TopicNames PROVE Len(topics_[k]) <= Len(topics_'[k])
      BY DEF LinkedStay
    <3>1. topics_[k] \in Seq(Seq(Uint16))
      BY DEF OrderInv, SessionTypes
    <3>2. CASE k = n
      BY <2>3, <2>4, <3>1, <3>2
    <3>3. CASE k # n
      <4>1. topics_'[k] = topics_[k]
        BY <2>1, <3>3 DEF OrderInv, SessionTypes
      <4>2. QED
        BY <3>1, <4>1
    <3>4. QED
      BY <3>2, <3>3
  <2>6. Found(s) + 1 \in 1..Len(topics_'[n])
    BY <1>2, <2>3, <2>4
  <2>7. PushTo(s, Found(s) + 1)
    BY <1>4 DEF Link
  <2>8. QED
    BY <1>1, <2>4, <2>5, <2>6, <2>7, PushToInOrder
<1>5. QED
  BY <1>3, <1>4

\* The other handlers, up to the call of the topic, and the data race.
LEMMA HandlersInOrder ==
    ASSUME OrderInv, NEW s \in Sessions,
           HandlePull(s) \/ HandleDelete(s) \/ HandleUnknown(s) \/ Race(s)
    PROVE  OrderInv'
<1> DEFINE h == Current(s)
<1>1. UNCHANGED <<requests, taken, replies, topics_, removed>>
  BY DEF HandlePull, HandleDelete, HandleUnknown, Race
<1>2. LinkedStay /\ topics_' \in [TopicNames -> Seq(Seq(Uint16))]
  BY <1>1, RegistryStays
<1>3. CASE Race(s)
  BY <1>1, <1>2, <1>3, UndefinedInOrder DEF Race
<1>4. CASE HandlePull(s) \/ HandleDelete(s) \/ HandleUnknown(s)
  <2>1. pc[s] = "handle"
    BY <1>4 DEF HandlePull, HandleDelete, HandleUnknown, Handling
  <2>2. ASSUME NEW code \in Codes, Refuse(s, code), UNCHANGED topic
        PROVE  OrderInv'
    BY <1>1, <2>1, <2>2, RefuseInOrder
  <2>3. CASE NameRefused(s)
    BY <2>2, <2>3, CodesUsed DEF NameRefused
  <2>4. NameAccepted(s) => Found(s) \in 1..Len(topics_'[h.topic_name])
    BY <1>1, <2>1, HandlerKnows DEF NameAccepted, Nodes
  <2>5. CASE HandlePull(s) /\ ~NameRefused(s)
    <3>1. h.opcode = "PULL" /\ NameAccepted(s)
      BY <2>5 DEF HandlePull, Handling
    <3>2. CASE CallTopic(s, Found(s), h.partition_id, "read")
      BY <1>1, <1>2, <2>1, <2>4, <3>1, <3>2, CallTopicInOrder
    <3>3. QED
      BY <2>2, <2>5, <3>2, CodesUsed DEF HandlePull
  <2>6. CASE HandleDelete(s) /\ ~NameRefused(s)
    <3>1. h.opcode = "DELETE" /\ NameAccepted(s)
      BY <2>6 DEF HandleDelete, Handling
    <3>2. CASE CallTopic(s, Found(s), h.partition_id, "remove")
      BY <1>1, <1>2, <2>1, <2>4, <3>1, <3>2, CallTopicInOrder
    <3>3. CASE GoUndefined("overflow") /\ UNCHANGED topic
      BY <1>1, <1>2, <3>3, UndefinedInOrder
    <3>4. QED
      BY <2>6, <3>2, <3>3 DEF HandleDelete
  <2>7. CASE HandleUnknown(s)
    BY <2>2, <2>7, CodesUsed DEF HandleUnknown
  <2>8. QED
    BY <1>4, <2>3, <2>5, <2>6, <2>7
<1>5. QED
  BY <1>3, <1>4

\* A change of the contents of a linked topic.
LEMMA ContentsChange ==
    ASSUME OrderInv, NEW n \in TopicNames, NEW o \in 1..Len(topics_[n]), NEW q \in Seq(Uint16),
           topics_' = [topics_ EXCEPT ![n][o] = q]
    PROVE  /\ topics_' \in [TopicNames -> Seq(Seq(Uint16))] /\ LinkedStay
           /\ Len(topics_'[n]) = Len(topics_[n]) /\ topics_'[n][o] = q
           /\ \A k \in TopicNames \ {n} : topics_'[k] = topics_[k]
<1>1. topics_[n] \in Seq(Seq(Uint16))
  BY DEF OrderInv, SessionTypes
<1>2. topics_' = [topics_ EXCEPT ![n] = [topics_[n] EXCEPT ![o] = q]]
  OBVIOUS
<1>3. /\ [topics_[n] EXCEPT ![o] = q] \in Seq(Seq(Uint16))
      /\ Len([topics_[n] EXCEPT ![o] = q]) = Len(topics_[n])
      /\ [topics_[n] EXCEPT ![o] = q][o] = q
  BY <1>1
<1>4. /\ topics_'[n] = [topics_[n] EXCEPT ![o] = q]
      /\ \A k \in TopicNames \ {n} : topics_'[k] = topics_[k]
  BY <1>2 DEF OrderInv, SessionTypes
<1>5. topics_' \in [TopicNames -> Seq(Seq(Uint16))]
  BY <1>2, <1>3 DEF OrderInv, SessionTypes
<1>6. LinkedStay
  <2>1. \A k \in TopicNames : topics_[k] \in Seq(Seq(Uint16)) /\ Len(topics_'[k]) = Len(topics_[k])
    BY <1>3, <1>4 DEF OrderInv, SessionTypes
  <2>2. QED
    BY <2>1 DEF LinkedStay
<1>7. QED
  BY <1>3, <1>4, <1>5, <1>6

\* The topic a handler has called.
LEMMA TopicKnown ==
    ASSUME OrderInv, NEW s \in Sessions, pc[s] \in {"push", "read", "remove"}
    PROVE  /\ topic[s] \in 1..Len(topics_[Current(s).topic_name])
           /\ Nodes(s) = topics_[Current(s).topic_name]
           /\ Nodes(s)[topic[s]] \in Seq(Uint16)
<1>1. topic[s] \in 1..Len(topics_[Current(s).topic_name])
  BY DEF OrderInv, TopicHeld
<1>2. Nodes(s) \in Seq(Seq(Uint16)) /\ Nodes(s) = topics_[Current(s).topic_name]
  BY HandlerKnows DEF Nodes
<1>3. QED
  BY <1>1, <1>2

\* What the handlers make of the topic's answer.
LEMMA TopicInOrder ==
    ASSUME OrderInv, NEW s \in Sessions, Push(s) \/ Read(s) \/ Remove(s)
    PROVE  OrderInv'
<1> DEFINE h == Current(s)
           n == h.topic_name
           q == Nodes(s)[topic[s]]
<1>1. /\ UNCHANGED <<requests, taken, replies>>
      /\ pc[s] \in {"push", "read", "remove"}
  BY DEF Push, Read, Remove
<1>2. /\ Busy(s) /\ Answers(h) = h.opcode /\ n \in TopicNames /\ h.message \in Uint16
      /\ removed[n] \in Seq(Uint16) /\ removed \in [TopicNames -> Seq(Uint16)]
  BY <1>1, HandlerKnows DEF OrderInv, SessionTypes
<1>3. topic[s] \in 1..Len(topics_[n]) /\ q \in Seq(Uint16) /\ q = topics_[n][topic[s]]
  BY <1>1, TopicKnown
<1>4. 0 \in Uint16 /\ 1 \in Uint16
  BY DEF Uint16
<1>5. CASE Push(s)
  <2>1. Answers(h) = "PUSH"
    BY <1>2, <1>5 DEF Push, OrderInv, InOrder
  <2>2. /\ topics_' = [topics_ EXCEPT ![n][topic[s]] = Append(q, h.message)]
        /\ UNCHANGED <<removed, undefined>> /\ Answered(s, "PUSH", "OK", 0)
    BY <1>3, <1>5 DEF Push
  <2>3. Append(q, h.message) \in Seq(Uint16)
    BY <1>2, <1>3
  <2>4. topics_' \in [TopicNames -> Seq(Seq(Uint16))] /\ LinkedStay
    BY <1>2, <1>3, <2>2, <2>3, ContentsChange
  <2>5. QED
    BY <1>1, <1>2, <1>4, <2>1, <2>2, <2>4, AnswerInOrder, CodesUsed DEF Answered
<1>6. CASE Read(s)
  <2>1. Answers(h) = "PULL"
    BY <1>2, <1>6 DEF Read, OrderInv, InOrder
  <2>2. PICK code \in Codes, message \in Uint16 : Answered(s, "PULL", code, message)
    <3>1. CASE q = <<>>
      BY <1>4, <1>6, <3>1, CodesUsed DEF Read
    <3>2. CASE q # <<>>
      <4>1. Head(q) \in Uint16
        BY <1>3, <3>2
      <4>2. QED
        BY <1>6, <3>2, <4>1, CodesUsed DEF Read
    <3>3. QED
      BY <3>1, <3>2
  <2>3. UNCHANGED <<topics_, removed, undefined>>
    BY <1>6 DEF Read
  <2>4. QED
    BY <1>1, <1>2, <2>1, <2>2, <2>3, AnswerInOrder, RegistryStays DEF Answered
<1>7. CASE Remove(s)
  <2>1. Answers(h) = "DELETE"
    BY <1>2, <1>7 DEF Remove, OrderInv, InOrder
  <2>2. CASE q = <<>>
    <3>1. GoUndefined("front") /\ UNCHANGED <<topics_, topic, removed>>
      BY <1>7, <2>2 DEF Remove
    <3>2. QED
      BY <1>1, <3>1, UndefinedInOrder, RegistryStays
  <2>3. CASE q # <<>>
    <3>1. Answered(s, "DELETE", "OK", 0) /\ UNCHANGED undefined
      BY <1>7, <2>3 DEF Remove
    <3>2. CASE UNCHANGED <<topics_, removed>>
      BY <1>1, <1>2, <1>4, <2>1, <3>1, <3>2, AnswerInOrder, CodesUsed, RegistryStays DEF Answered
    <3>3. CASE ~UNCHANGED <<topics_, removed>>
      <4>1. /\ topics_' = [topics_ EXCEPT ![n][topic[s]] = Tail(q)]
            /\ removed' = [removed EXCEPT ![n] = Append(removed[n], Head(q))]
        BY <1>3, <1>7, <2>3, <3>3 DEF Remove
      <4>2. Tail(q) \in Seq(Uint16) /\ Append(removed[n], Head(q)) \in Seq(Uint16)
        BY <1>2, <1>3, <2>3
      <4>3. topics_' \in [TopicNames -> Seq(Seq(Uint16))] /\ LinkedStay
        BY <1>2, <1>3, <4>1, <4>2, ContentsChange
      <4>4. removed' \in [TopicNames -> Seq(Uint16)]
        BY <1>2, <4>1, <4>2
      <4>5. QED
        BY <1>1, <1>2, <1>4, <2>1, <3>1, <4>3, <4>4, AnswerInOrder, CodesUsed DEF Answered
    <3>4. QED
      BY <3>2, <3>3
  <2>4. QED
    BY <2>2, <2>3
<1>8. QED
  BY <1>5, <1>6, <1>7

\* Every step keeps the order of the responses.
LEMMA NextInOrder == OrderInv /\ [Next]_vars => OrderInv'
<1> SUFFICES ASSUME OrderInv, [Next]_vars PROVE OrderInv'
  OBVIOUS
<1>1. ASSUME NEW s \in Sessions, ReadBody(s)
      PROVE  OrderInv'
  <2>1. /\ pc[s] = "body" /\ pc' = [pc EXCEPT ![s] = "handle"]
        /\ UNCHANGED <<requests, taken, response, replies, topics_, topic, removed, undefined>>
    BY <1>1 DEF ReadBody
  <2>2. topic' = [topic EXCEPT ![s] = 0]
    BY <2>1 DEF OrderInv, SessionTypes, TopicHeld
  <2>3. LinkedStay /\ topics_' \in [TopicNames -> Seq(Seq(Uint16))] /\ 0 \in Nat
    BY <2>1, RegistryStays
  <2>4. QED
    BY <2>1, <2>2, <2>3, GoOnInOrder
<1>2. CASE UNCHANGED vars
  BY <1>2 DEF vars, OrderInv, SessionTypes, InOrder, TopicHeld, ResponseExact, RepliesMatch,
     Busy, Current
<1>3. QED
  BY <1>1, <1>2, SendInOrder, BreakInOrder, ReadHeaderInOrder, RespondInOrder,
     CreateInOrder, HandlersInOrder, TopicInOrder DEF Next, Step

\* OrderInv holds initially.
LEMMA InitInOrder == Init => OrderInv
BY DEF Init, OrderInv, SessionTypes, InOrder, TopicHeld, ResponseExact, RepliesMatch, Busy, PCs

\* The invariant holds in every state.
THEOREM OrderInvariance == Spec => []OrderInv
BY InitInOrder, NextInOrder, PTL DEF Spec

\* The variables keep their types: in particular a session never handles a
\* request it has not read, and a response is there exactly when one is about
\* to be written.
THEOREM TypeCorrect == Spec => []TypeOK
<1>1. OrderInv => TypeOK
  <2> SUFFICES ASSUME OrderInv PROVE TypeOK
    OBVIOUS
  <2>1. \A s \in Sessions : taken[s] \in 0..Len(requests[s])
    BY DEF OrderInv, SessionTypes, InOrder
  <2>2. \A s \in Sessions : \A i \in 1..Len(replies[s]) : replies[s][i] \in Response
    BY DEF OrderInv, SessionTypes
  <2>3. \A n \in TopicNames : \A i \in 1..Len(topics_[n]) :
           \A j \in 1..Len(topics_[n][i]) : topics_[n][i][j] \in Uint16
    <3> SUFFICES ASSUME NEW n \in TopicNames, NEW i \in 1..Len(topics_[n])
                 PROVE  topics_[n][i] \in Seq(Uint16)
      OBVIOUS
    <3>1. topics_[n] \in Seq(Seq(Uint16))
      BY DEF OrderInv, SessionTypes
    <3>2. QED
      BY <3>1
  <2>4. \A n \in TopicNames : \A i \in 1..Len(removed[n]) : removed[n][i] \in Uint16
    BY DEF OrderInv, SessionTypes
  <2>5. QED
    BY <2>1, <2>2, <2>3, <2>4 DEF OrderInv, SessionTypes, ResponseExact, TopicHeld, Current, TypeOK
<1>2. QED
  BY <1>1, OrderInvariance, PTL

\* For any sessions and requests, also requests sent ahead, refused ones and
\* broken connections: the responses of a connection come in the order of its
\* requests, one for each request read, and name the operation they answer.
THEOREM ResponsesInOrder == Spec => []AnsweredInOrder
<1>1. OrderInv => AnsweredInOrder
  <2> SUFFICES ASSUME OrderInv, NEW s \in Sessions
               PROVE  /\ pc[s] # "broken" =>
                           taken[s] - Len(replies[s]) =
                              IF pc[s] \in {"header", "closed"} THEN 0 ELSE 1
                      /\ \A i \in 1..Len(replies[s]) :
                           replies[s][i].opcode = IF requests[s][i].magic
                                                  THEN requests[s][i].opcode ELSE "PUSH"
    BY DEF AnsweredInOrder
  <2>1. pc[s] \in PCs /\ taken[s] \in Nat /\ Len(replies[s]) \in Nat
    BY DEF OrderInv, SessionTypes
  <2>2. QED
    BY <2>1 DEF OrderInv, InOrder, Busy, RepliesMatch, Answers, PCs
<1>2. QED
  BY <1>1, OrderInvariance, PTL

-----------------------------------------------------------------------------
(* Occurrences of a message in a sequence *)

\* There are finitely many.
LEMMA CountNat ==
    ASSUME NEW q \in Seq(Uint16), NEW m
    PROVE  IsFiniteSet({i \in 1..Len(q) : q[i] = m}) /\ Count(m, q) \in Nat
<1>1. IsFiniteSet(1..Len(q)) /\ {i \in 1..Len(q) : q[i] = m} \in SUBSET (1..Len(q))
  BY FS_Interval
<1>2. IsFiniteSet({i \in 1..Len(q) : q[i] = m})
  BY <1>1, FS_Subset
<1>3. QED
  BY <1>2, FS_CardinalityType DEF Count

\* An empty queue has none.
LEMMA CountEmpty == \A m : Count(m, <<>>) = 0
<1> SUFFICES ASSUME NEW m PROVE Count(m, <<>>) = 0
  OBVIOUS
<1>1. {i \in 1..Len(<<>>) : <<>>[i] = m} = {}
  <2>1. Len(<<>>) = 0 /\ 1..0 = {}
    OBVIOUS
  <2>2. QED
    BY <2>1
<1>2. QED
  BY <1>1, FS_EmptySet DEF Count

\* A message that enters a queue adds one to its own.
LEMMA CountAppend ==
    ASSUME NEW q \in Seq(Uint16), NEW x \in Uint16, NEW m
    PROVE  Count(m, Append(q, x)) = IF x = m THEN Count(m, q) + 1 ELSE Count(m, q)
<1> DEFINE S == {i \in 1..Len(q) : q[i] = m}
           r == Append(q, x)
<1>1. /\ Len(r) = Len(q) + 1 /\ r[Len(q) + 1] = x
      /\ \A i \in 1..Len(q) : r[i] = q[i]
      /\ Len(q) \in Nat
  OBVIOUS
<1>2. {i \in 1..Len(r) : r[i] = m} = IF x = m THEN S \cup {Len(q) + 1} ELSE S
  <2> HIDE DEF r
  <2>1. ASSUME NEW i \in 1..Len(r)
        PROVE  i \in 1..Len(q) \/ i = Len(q) + 1
    BY <1>1
  <2>2. ASSUME NEW i
        PROVE  i \in 1..Len(q) \/ i = Len(q) + 1 => i \in 1..Len(r)
    BY <1>1
  <2>3. Len(q) + 1 \notin 1..Len(q)
    BY <1>1
  <2>4. QED
    BY <1>1, <2>1, <2>2, <2>3
<1>3. Len(q) + 1 \notin S
  BY <1>1
<1>4. IsFiniteSet(S)
  BY CountNat
<1>5. Cardinality(S \cup {Len(q) + 1}) = Cardinality(S) + 1
  BY <1>3, <1>4, FS_AddElement
<1>6. QED
  BY <1>2, <1>5 DEF Count

\* Without its first message a queue has at most that one less.
LEMMA CountTail ==
    ASSUME NEW q \in Seq(Uint16), q # <<>>, NEW m
    PROVE  Count(m, q) <= Count(m, Tail(q)) + IF Head(q) = m THEN 1 ELSE 0
<1> DEFINE S == {i \in 1..Len(q) : q[i] = m}
           r == Tail(q)
           T == {i \in 1..Len(r) : r[i] = m}
           f == [i \in S \ {1} |-> i - 1]
<1>1. /\ r \in Seq(Uint16) /\ Len(q) \in Nat /\ Len(r) = Len(q) - 1 /\ Head(q) = q[1]
      /\ \A i \in 1..Len(r) : r[i] = q[i + 1]
  OBVIOUS
<1>2. IsFiniteSet(S) /\ IsFiniteSet(T) /\ Cardinality(S) \in Nat /\ Cardinality(T) \in Nat
  BY <1>1, CountNat DEF Count
<1>3. f \in Injection(S \ {1}, T)
  <2> HIDE DEF r
  <2>1. ASSUME NEW i \in S \ {1}
        PROVE  i \in Int /\ i - 1 \in T
    <3>1. i - 1 \in 1..Len(r) /\ (i - 1) + 1 = i
      BY <1>1
    <3>2. QED
      BY <1>1, <3>1
  <2>2. f \in [S \ {1} -> T]
    BY <2>1
  <2>3. \A a, b \in S \ {1} : f[a] = f[b] => a = b
    <3> SUFFICES ASSUME NEW a \in S \ {1}, NEW b \in S \ {1}, f[a] = f[b] PROVE a = b
      OBVIOUS
    <3>1. f[a] = a - 1 /\ f[b] = b - 1
      OBVIOUS
    <3>2. QED
      BY <2>1, <3>1
  <2>4. QED
    BY <2>2, <2>3 DEF Injection, IsInjective
<1>4. Cardinality(S \ {1}) <= Cardinality(T)
  <2> HIDE DEF S, T, f
  <2>1. QED
    BY <1>2, <1>3, FS_Injection
<1>5. Cardinality(S \ {1}) = IF 1 \in S THEN Cardinality(S) - 1 ELSE Cardinality(S)
  BY <1>2, FS_RemoveElement
<1>6. 1 \in S => Head(q) = m
  BY <1>1
<1>7. QED
  <2> HIDE DEF S, T
  <2>1. Cardinality(S) <= Cardinality(T) + IF Head(q) = m THEN 1 ELSE 0
    BY <1>2, <1>4, <1>5, <1>6
  <2>2. QED
    BY <2>1 DEF Count, S, T

-----------------------------------------------------------------------------
(* Acknowledged pushes *)

\* The queue of the topic linked last.
LEMMA LastQueue ==
    ASSUME NEW t \in Seq(Seq(Uint16))
    PROVE  (IF t = <<>> THEN <<>> ELSE t[Len(t)]) \in Seq(Uint16)
<1>1. CASE t = <<>>
  BY <1>1
<1>2. CASE t # <<>>
  <2>1. Len(t) \in 1..Len(t)
    BY <1>2
  <2>2. QED
    BY <1>2, <2>1
<1>3. QED
  BY <1>1, <1>2

\* Types of the queues a step is about.
LEMMA QueueTypes ==
    ASSUME OrderInv, OrderInv', NEW n \in TopicNames
    PROVE  /\ Reached(n) \in Seq(Uint16) /\ removed[n] \in Seq(Uint16)
           /\ Reached(n)' \in Seq(Uint16) /\ removed'[n] \in Seq(Uint16)
<1>1. topics_[n] \in Seq(Seq(Uint16)) /\ topics_'[n] \in Seq(Seq(Uint16))
  BY DEF OrderInv, SessionTypes
<1>2. Reached(n) \in Seq(Uint16) /\ Reached(n)' \in Seq(Uint16)
  BY <1>1, LastQueue DEF Reached
<1>3. QED
  BY <1>2 DEF OrderInv, SessionTypes

\* A step of session s makes no other session's request one that has pushed.
LEMMA DoneOfOthers ==
    ASSUME NEW s \in Sessions, NEW n, NEW m, OthersStay(s), NEW a \in Done(n, m)', a[1] # s
    PROVE  a \in Done(n, m)
<1>1. a \in Sessions \X Nat /\ a[1] \in Sessions \ {s} /\ Pushed(a[1], a[2], n, m)'
  BY DEF Done
<1>2. Pushed(a[1], a[2], n, m)
  BY <1>1 DEF Pushed, OthersStay
<1>3. QED
  BY <1>1, <1>2 DEF Done

\* Topics are only added.
LEMMA OneTopicBefore ==
    ASSUME OrderInv, OrderInv', LinkedStay, NEW n \in TopicNames, OneTopic(n)'
    PROVE  OneTopic(n)
<1>1. Len(topics_[n]) \in Nat /\ Len(topics_'[n]) \in Nat
  BY DEF OrderInv, SessionTypes
<1>2. Len(topics_[n]) <= Len(topics_'[n]) /\ Len(topics_'[n]) <= 1
  BY DEF LinkedStay, OneTopic
<1>3. QED
  BY <1>1, <1>2 DEF OneTopic

\* No request becomes one that has pushed, and where there is one topic no
\* message leaves both its queue and the record of removals.
LEMMA KeptStep ==
    ASSUME OrderInv, OrderInv', KeptInv, LinkedStay,
           \A n \in TopicNames, m \in Uint16 : Done(n, m)' \subseteq Done(n, m),
           \A n \in TopicNames, m \in Uint16 :
              OneTopic(n)' => Count(m, Reached(n)) + Count(m, removed[n])
                                 <= Count(m, Reached(n)') + Count(m, removed'[n])
    PROVE  KeptInv'
<1> SUFFICES ASSUME NEW n \in TopicNames, NEW m \in Uint16
             PROVE  /\ IsFiniteSet(Done(n, m)')
                    /\ OneTopic(n)' => Cardinality(Done(n, m)')
                                          <= Count(m, Reached(n)') + Count(m, removed'[n])
  BY DEF KeptInv, Count
<1>1. IsFiniteSet(Done(n, m)) /\ Done(n, m)' \in SUBSET Done(n, m)
  BY DEF KeptInv
<1>2. IsFiniteSet(Done(n, m)') /\ Cardinality(Done(n, m)') <= Cardinality(Done(n, m))
  BY <1>1, FS_Subset
<1>3. Cardinality(Done(n, m)) \in Nat /\ Cardinality(Done(n, m)') \in Nat
  BY <1>1, <1>2, FS_CardinalityType
<1>4. /\ Count(m, Reached(n)) \in Nat /\ Count(m, removed[n]) \in Nat
      /\ Count(m, Reached(n)') \in Nat /\ Count(m, removed'[n]) \in Nat
  BY QueueTypes, CountNat
<1>5. ASSUME OneTopic(n)'
      PROVE  Cardinality(Done(n, m)') <= Count(m, Reached(n)') + Count(m, removed'[n])
  <2>1. Cardinality(Done(n, m)) <= Count(m, Reached(n)) + Count(m, removed[n])
    BY <1>5, OneTopicBefore DEF KeptInv
  <2>2. Count(m, Reached(n)) + Count(m, removed[n])
           <= Count(m, Reached(n)') + Count(m, removed'[n])
    BY <1>5
  <2>3. QED
    BY <1>2, <1>3, <1>4, <2>1, <2>2
<1>6. QED
  BY <1>2, <1>5

\* A step that changes no queue of a name with one topic.
LEMMA KeptAside ==
    ASSUME OrderInv, OrderInv', KeptInv, LinkedStay, NEW s \in Sessions, OthersStay(s),
           \A i \in Nat, n \in TopicNames, m \in Uint16 :
              Pushed(s, i, n, m)' => Pushed(s, i, n, m),
           UNCHANGED removed,
           \A n \in TopicNames : OneTopic(n)' => Reached(n)' = Reached(n)
    PROVE  KeptInv'
<1>1. ASSUME NEW n \in TopicNames, NEW m \in Uint16, NEW a \in Done(n, m)'
      PROVE  a \in Done(n, m)
  <2>1. CASE a[1] # s
    BY <2>1, DoneOfOthers
  <2>2. CASE a[1] = s
    BY <2>2 DEF Done
  <2>3. QED
    BY <2>1, <2>2
<1>2. ASSUME NEW n \in TopicNames, NEW m \in Uint16, OneTopic(n)'
      PROVE  Count(m, Reached(n)) + Count(m, removed[n])
                <= Count(m, Reached(n)') + Count(m, removed'[n])
  <2>1. Count(m, Reached(n)) \in Nat /\ Count(m, removed[n]) \in Nat
    BY QueueTypes, CountNat
  <2>2. Reached(n)' = Reached(n) /\ removed'[n] = removed[n]
    BY <1>2
  <2>3. QED
    BY <2>1, <2>2
<1>3. QED
  BY <1>1, <1>2, KeptStep

\* The connection and the loop that reads it.
LEMMA LoopKeeps ==
    ASSUME OrderInv, OrderInv', KeptInv, NEW s \in Sessions,
           Send(s) \/ Break(s) \/ ReadHeader(s) \/ ReadBody(s) \/ Respond(s)
    PROVE  KeptInv'
<1>1. UNCHANGED <<topics_, removed, undefined>>
  BY DEF Send, Break, ReadHeader, ReadBody, Respond
<1>2. /\ requests[s] \in Seq(AllHeaders) /\ replies[s] \in Seq(Response) /\ taken[s] \in Nat
      /\ Len(replies[s]) <= taken[s] /\ taken[s] <= Len(requests[s])
      /\ Len(replies[s]) \in Nat /\ Len(requests[s]) \in Nat
  BY DEF OrderInv, SessionTypes, InOrder
<1>3. OthersStay(s)
  BY DEF Send, Break, ReadHeader, ReadBody, Respond, Answer, OrderInv, SessionTypes, OthersStay
<1>4. ASSUME NEW i \in Nat, NEW n \in TopicNames, NEW m \in Uint16, Pushed(s, i, n, m)'
      PROVE  Pushed(s, i, n, m)
  <2>1. CASE Send(s)
    <3>1. PICK h \in Headers[s] : requests' = [requests EXCEPT ![s] = Append(@, h)]
      BY <2>1 DEF Send
    <3>2. requests'[s] = Append(requests[s], h)
      BY <3>1 DEF OrderInv, SessionTypes
    <3>3. UNCHANGED <<pc, taken, response, replies>>
      BY <2>1 DEF Send
    <3>4. \A j \in 1..Len(requests[s]) : requests'[s][j] = requests[s][j]
      BY <1>2, <3>2
    <3>5. i \in 1..taken[s] /\ i \in 1..Len(requests[s])
      BY <1>2, <1>4, <3>3 DEF Pushed
    <3>6. QED
      BY <1>4, <3>3, <3>4, <3>5 DEF Pushed
  <2>2. CASE Break(s)
    <3>1. pc'[s] = "broken" /\ UNCHANGED <<requests, taken, replies>>
      BY <2>2 DEF Break, OrderInv, SessionTypes
    <3>2. QED
      BY <1>4, <3>1 DEF Pushed
  <2>3. CASE ReadHeader(s)
    <3>1. pc[s] = "header" /\ UNCHANGED <<requests, replies>> /\ pc'[s] # "respond"
      BY <2>3 DEF ReadHeader, Answer, OrderInv, SessionTypes
    <3>2. taken[s] = Len(replies[s])
      BY <3>1 DEF OrderInv, InOrder
    <3>3. i <= Len(replies[s]) /\ i \in 1..taken[s]
      BY <1>2, <1>4, <3>1, <3>2 DEF Pushed
    <3>4. QED
      BY <1>4, <3>1, <3>3 DEF Pushed
  <2>4. CASE ReadBody(s)
    <3>1. pc'[s] = "handle" /\ UNCHANGED <<requests, taken, replies>>
      BY <2>4 DEF ReadBody, OrderInv, SessionTypes
    <3>2. QED
      BY <1>4, <3>1 DEF Pushed
  <2>5. CASE Respond(s)
    <3>1. /\ pc[s] \in {"respond", "hangup"} /\ UNCHANGED <<requests, taken>>
          /\ pc'[s] # "respond" /\ replies'[s] = Append(replies[s], response[s])
      BY <2>5 DEF Respond, OrderInv, SessionTypes
    <3>2. taken[s] = Len(replies[s]) + 1 /\ response[s] \in Response
      BY <3>1 DEF OrderInv, InOrder, Busy, ResponseExact
    <3>3. /\ Len(replies'[s]) = Len(replies[s]) + 1 /\ replies'[s][Len(replies[s]) + 1] = response[s]
          /\ \A j \in 1..Len(replies[s]) : replies'[s][j] = replies[s][j]
      BY <1>2, <3>1, <3>2
    <3>4. i \in 1..taken[s] /\ replies'[s][i].error_code = "OK"
      BY <1>4, <3>1 DEF Pushed
    <3>5. CASE i = taken[s]
      <4>1. response[s].error_code = "OK" /\ pc[s] = "respond"
        BY <3>1, <3>2, <3>3, <3>4, <3>5 DEF OrderInv, ResponseExact
      <4>2. QED
        BY <1>4, <3>1, <3>5, <4>1 DEF Pushed
    <3>6. CASE i # taken[s]
      <4>1. i \in 1..Len(replies[s]) /\ i <= Len(replies[s])
        BY <1>2, <3>2, <3>4, <3>6
      <4>2. QED
        BY <1>4, <3>1, <3>3, <3>4, <4>1 DEF Pushed
    <3>7. QED
      BY <3>5, <3>6
  <2>6. QED
    BY <2>1, <2>2, <2>3, <2>4, <2>5
<1>5. \A n \in TopicNames : Reached(n)' = Reached(n)
  BY <1>1 DEF Reached
<1>6. QED
  BY <1>1, <1>3, <1>4, <1>5, RegistryStays, KeptAside

\* A handler that answers without an acknowledged push, goes on with its
\* request or does something undefined.
LEMMA NothingPushed ==
    ASSUME OrderInv, NEW s \in Sessions, UNCHANGED <<requests, taken, replies>>,
           topic' = topic \/ \E o : topic' = [topic EXCEPT ![s] = o],
           \/ \E opcode, code, message :
                 /\ Answer(s, opcode, code, message, "respond")
                 /\ code # "OK" \/ Current(s).opcode # "PUSH"
           \/ \E point : /\ pc' = [pc EXCEPT ![s] = point] /\ point # "respond"
                         /\ UNCHANGED response
           \/ UNCHANGED <<pc, response>>
    PROVE  /\ OthersStay(s)
           /\ \A i \in Nat, n \in TopicNames, m \in Uint16 :
                 Pushed(s, i, n, m)' => Pushed(s, i, n, m)
<1>1. OthersStay(s)
  BY DEF Answer, OrderInv, SessionTypes, OthersStay
<1>2. ASSUME NEW i \in Nat, NEW n \in TopicNames, NEW m \in Uint16, Pushed(s, i, n, m)'
      PROVE  Pushed(s, i, n, m)
  <2>1. ASSUME NEW opcode, NEW code, NEW message,
               Answer(s, opcode, code, message, "respond"),
               code # "OK" \/ Current(s).opcode # "PUSH"
        PROVE  Pushed(s, i, n, m)
    <3>1. response'[s].error_code = code
      BY <2>1 DEF Answer, OrderInv, SessionTypes
    <3>2. QED
      BY <1>2, <2>1, <3>1 DEF Pushed, Current
  <2>2. ASSUME NEW point, pc' = [pc EXCEPT ![s] = point], point # "respond", UNCHANGED response
        PROVE  Pushed(s, i, n, m)
    <3>1. pc'[s] # "respond"
      BY <2>2 DEF OrderInv, SessionTypes
    <3>2. QED
      BY <1>2, <3>1 DEF Pushed
  <2>3. CASE UNCHANGED <<pc, response>>
    BY <1>2, <2>3 DEF Pushed
  <2>4. QED
    BY <2>1, <2>2, <2>3
<1>3. QED
  BY <1>1, <1>2

\* What becomes of the session in a step of a handler that calls no topic yet.
LEMMA HandlerMoves ==
    ASSUME OrderInv, NEW s \in Sessions,
           \/ HandlePush(s) \/ HandlePull(s) \/ HandleDelete(s) \/ HandleUnknown(s)
           \/ Emplace(s) \/ Link(s) \/ Race(s)
    PROVE  /\ UNCHANGED <<requests, taken, replies, removed>>
           /\ topic' = topic \/ \E o : topic' = [topic EXCEPT ![s] = o]
           /\ \/ \E code : code # "OK" /\ Answer(s, Current(s).opcode, code, 1, "respond")
              \/ \E point : /\ pc' = [pc EXCEPT ![s] = point] /\ point # "respond"
                            /\ UNCHANGED response
              \/ UNCHANGED <<pc, response>>
<1>1. UNCHANGED <<requests, taken, replies, removed>>
  BY DEF HandlePush, HandlePull, HandleDelete, HandleUnknown, Emplace, Link, Race
<1>2. \/ \E code : code # "OK" /\ Refuse(s, code) /\ UNCHANGED topic
      \/ \E o, partition, point : point # "respond" /\ CallTopic(s, o, partition, point)
      \/ \E how : GoUndefined(how) /\ UNCHANGED topic
      \/ \E point : point # "respond" /\ GoOn(s, point)
  <2>1. ASSUME NEW o, PushTo(s, o)
        PROVE  \/ \E partition : CallTopic(s, o, partition, "push")
               \/ \E how : GoUndefined(how) /\ UNCHANGED topic
    BY <2>1 DEF PushTo
  <2>2. CASE HandlePush(s)
    BY <2>1, <2>2 DEF HandlePush
  <2>3. CASE Emplace(s) \/ Link(s)
    BY <2>1, <2>3 DEF Emplace, Link
  <2>4. CASE HandlePull(s)
    BY <2>4 DEF HandlePull, NameRefused
  <2>5. CASE HandleDelete(s)
    BY <2>5 DEF HandleDelete, NameRefused
  <2>6. CASE HandleUnknown(s) \/ Race(s)
    BY <2>6 DEF HandleUnknown, Race
  <2>7. QED
    BY <2>2, <2>3, <2>4, <2>5, <2>6
<1>3. CASE \E code : code # "OK" /\ Refuse(s, code) /\ UNCHANGED topic
  BY <1>1, <1>3 DEF Refuse
<1>4. CASE \E o, partition, point : point # "respond" /\ CallTopic(s, o, partition, point)
  BY <1>1, <1>4 DEF CallTopic, GoUndefined
<1>5. CASE \E how : GoUndefined(how) /\ UNCHANGED topic
  BY <1>1, <1>5 DEF GoUndefined
<1>6. CASE \E point : point # "respond" /\ GoOn(s, point)
  BY <1>1, <1>6 DEF GoOn
<1>7. QED
  BY <1>2, <1>3, <1>4, <1>5, <1>6

\* emplace links the node: the name had none, or has more than one now.
LEMMA LinkAdds ==
    ASSUME OrderInv, NEW s \in Sessions, Link(s)
    PROVE  /\ LinkedStay
           /\ \A k \in TopicNames : OneTopic(k)' => Reached(k)' = Reached(k)
           /\ Nodes(s) = <<>> => \A k \in TopicNames : OneTopic(k)' \/ topics_'[k] = topics_[k]
<1>1. PICK n \in TopicNames : n = Current(s).topic_name
  BY HandlerKnows DEF Link
<1>2. /\ topics_[n] \in Seq(Seq(Uint16)) /\ topics_'[n] = Append(topics_[n], <<>>)
      /\ \A k \in TopicNames \ {n} : topics_'[k] = topics_[k]
  BY <1>1 DEF Link, OrderInv, SessionTypes
<1>3. /\ Len(topics_[n]) \in Nat /\ Len(topics_'[n]) = Len(topics_[n]) + 1
      /\ topics_'[n][Len(topics_[n]) + 1] = <<>>
  <2>1. <<>> \in Seq(Uint16)
    OBVIOUS
  <2>2. QED
    BY <1>2, <2>1
<1>4. LinkedStay
  <2>1. \A k \in TopicNames : Len(topics_[k]) \in Nat
    BY DEF OrderInv, SessionTypes
  <2>2. Len(topics_[n]) <= Len(topics_'[n])
    BY <1>3
  <2>3. QED
    BY <1>2, <2>1, <2>2 DEF LinkedStay
<1>5. Len(topics_[n]) = 0 <=> topics_[n] = <<>>
  BY <1>2
<1>6. topics_'[n] # <<>>
  <2>1. Len(<<>>) = 0
    OBVIOUS
  <2>2. QED
    BY <1>3, <2>1
<1>7. OneTopic(n)' => Reached(n)' = Reached(n)
  <2> SUFFICES ASSUME OneTopic(n)' PROVE Reached(n)' = Reached(n)
    OBVIOUS
  <2>1. Len(topics_[n]) = 0
    BY <1>3 DEF OneTopic
  <2>2. Reached(n) = <<>>
    BY <1>5, <2>1 DEF Reached
  <2>3. Reached(n)' = <<>>
    BY <1>3, <1>6, <2>1 DEF Reached
  <2>4. QED
    BY <2>2, <2>3
<1>8. Nodes(s) = <<>> => OneTopic(n)'
  BY <1>1, <1>3, <1>5 DEF Nodes, OneTopic
<1>9. QED
  BY <1>2, <1>4, <1>7, <1>8 DEF Reached

\* The handlers, up to the call of the topic: where there is one topic it was
\* there before, or is empty and nothing has been pushed to the name.
LEMMA HandlersKeep ==
    ASSUME OrderInv, OrderInv', KeptInv, NEW s \in Sessions,
           \/ HandlePush(s) \/ HandlePull(s) \/ HandleDelete(s) \/ HandleUnknown(s)
           \/ Emplace(s) \/ Link(s) \/ Race(s)
    PROVE  KeptInv'
<1>1. LinkedStay /\ \A k \in TopicNames : OneTopic(k)' => Reached(k)' = Reached(k)
  <2>1. CASE UNCHANGED topics_
    BY <2>1, RegistryStays DEF Reached
  <2>2. CASE Link(s)
    BY <2>2, LinkAdds
  <2>3. QED
    BY <2>1, <2>2 DEF HandlePush, HandlePull, HandleDelete, HandleUnknown, Emplace, Race
<1>2. /\ UNCHANGED removed /\ OthersStay(s)
      /\ \A i \in Nat, t \in TopicNames, m \in Uint16 :
            Pushed(s, i, t, m)' => Pushed(s, i, t, m)
  BY HandlerMoves, NothingPushed
<1>3. QED
  BY <1>1, <1>2, KeptAside

\* At most one topic, and one of them.
LEMMA OneNode ==
    ASSUME NEW S, NEW t \in Seq(S), NEW o \in 1..Len(t), Len(t) <= 1
    PROVE  o = 1 /\ Len(t) = 1 /\ t # <<>>
<1>1. o = 1 /\ Len(t) = 1
  <2>1. \A l \in Nat : l <= 1 /\ o \in 1..l => o = 1 /\ l = 1
    OBVIOUS
  <2>2. Len(t) \in Nat
    OBVIOUS
  <2>3. QED
    BY <2>1, <2>2
<1>2. t # <<>>
  OBVIOUS
<1>3. QED
  BY <1>1, <1>2

\* Where there is one topic of the name, the one a handler has called is the one
\* that later requests reach.
LEMMA TopicReached ==
    ASSUME OrderInv, NEW s \in Sessions, pc[s] \in {"push", "read", "remove"},
           OneTopic(Current(s).topic_name)
    PROVE  /\ topic[s] = 1 /\ Len(topics_[Current(s).topic_name]) = 1
           /\ Reached(Current(s).topic_name) = topics_[Current(s).topic_name][topic[s]]
<1> DEFINE n == Current(s).topic_name
<1>1. n \in TopicNames /\ topics_[n] \in Seq(Seq(Uint16))
  BY HandlerKnows DEF OrderInv, SessionTypes
<1>2. topic[s] \in 1..Len(topics_[n]) /\ Len(topics_[n]) <= 1
  BY <1>1, TopicKnown DEF OneTopic
<1>3. topic[s] = 1 /\ Len(topics_[n]) = 1 /\ topics_[n] # <<>>
  BY <1>1, <1>2, OneNode
<1>4. QED
  BY <1>3 DEF Reached

\* Its contents change.
LEMMA ReachedChange ==
    ASSUME OrderInv, OrderInv', NEW s \in Sessions, pc[s] \in {"push", "read", "remove"},
           NEW n \in TopicNames, n = Current(s).topic_name, NEW q \in Seq(Uint16),
           topics_' = [topics_ EXCEPT ![n][topic[s]] = q]
    PROVE  /\ LinkedStay
           /\ OneTopic(n)' => Reached(n) = topics_[n][topic[s]] /\ Reached(n)' = q
           /\ \A k \in TopicNames \ {n} : Reached(k)' = Reached(k)
           /\ \A k \in TopicNames : OneTopic(k)' <=> OneTopic(k)
<1>1. PICK o \in 1..Len(topics_[n]) : topic[s] = o
  BY TopicKnown
<1>2. /\ topics_' \in [TopicNames -> Seq(Seq(Uint16))] /\ LinkedStay
      /\ Len(topics_'[n]) = Len(topics_[n]) /\ topics_'[n][o] = q
      /\ \A k \in TopicNames \ {n} : topics_'[k] = topics_[k]
  <2>1. topics_' = [topics_ EXCEPT ![n][o] = q]
    BY <1>1
  <2>2. QED
    BY <2>1, ContentsChange, Zenon
<1>3. \A k \in TopicNames : OneTopic(k)' <=> OneTopic(k)
  BY <1>2 DEF OneTopic
<1>4. ASSUME OneTopic(n)'
      PROVE  Reached(n) = topics_[n][topic[s]] /\ Reached(n)' = q
  <2>1. topic[s] = 1 /\ Len(topics_[n]) = 1 /\ Reached(n) = topics_[n][topic[s]]
    BY <1>3, <1>4, TopicReached
  <2>2. topics_'[n] # <<>>
    <3>1. Len(<<>>) = 0
      OBVIOUS
    <3>2. QED
      BY <1>2, <2>1, <3>1
  <2>3. Reached(n)' = q
    BY <1>1, <1>2, <2>1, <2>2 DEF Reached
  <2>4. QED
    BY <2>1, <2>3
<1>5. QED
  BY <1>2, <1>3, <1>4 DEF Reached

\* push puts the message into the queue before the response says so.
LEMMA PushKeeps ==
    ASSUME OrderInv, OrderInv', KeptInv, NEW s \in Sessions, Push(s)
    PROVE  KeptInv'
<1> DEFINE h == Current(s)
           a0 == <<s, taken[s]>>
<1>1. /\ pc[s] = "push" /\ Answered(s, "PUSH", "OK", 0)
      /\ UNCHANGED <<requests, taken, replies, removed>>
  BY DEF Push
<1>2. PICK t \in TopicNames : t = h.topic_name
  BY <1>1, HandlerKnows
<1> DEFINE q == topics_[t][topic[s]]
<1>3. h.message \in Uint16 /\ q \in Seq(Uint16)
  BY <1>1, <1>2, HandlerKnows, TopicKnown DEF OrderInv, SessionTypes
<1>4. topics_' = [topics_ EXCEPT ![t][topic[s]] = Append(q, h.message)]
  BY <1>2 DEF Push
<1>5. /\ LinkedStay
      /\ OneTopic(t)' => Reached(t) = q /\ Reached(t)' = Append(q, h.message)
      /\ \A n \in TopicNames \ {t} : Reached(n)' = Reached(n)
  <2>1. PICK c \in Seq(Uint16) : c = Append(q, h.message)
    <3> HIDE DEF q, h
    <3>1. Append(q, h.message) \in Seq(Uint16)
      BY <1>3
    <3>2. QED
      BY <3>1, Zenon
  <2>2. topics_' = [topics_ EXCEPT ![t][topic[s]] = c]
    BY <1>4, <2>1
  <2>3. /\ LinkedStay
        /\ OneTopic(t)' => Reached(t) = q /\ Reached(t)' = c
        /\ \A n \in TopicNames \ {t} : Reached(n)' = Reached(n)
    BY <1>1, <1>2, <2>2, ReachedChange
  <2>4. QED
    BY <2>1, <2>3
<1> HIDE DEF q
<1>6. OthersStay(s)
  BY <1>1 DEF Answered, Answer, OrderInv, SessionTypes, OthersStay
<1>7. ASSUME NEW n \in TopicNames, NEW m \in Uint16
      PROVE  /\ IsFiniteSet(Done(n, m)')
             /\ OneTopic(n)' => Cardinality(Done(n, m)')
                                   <= Count(m, Reached(n)') + Count(m, removed'[n])
  <2> DEFINE mine == n = t /\ m = h.message
  <2>1. ASSUME NEW a \in Done(n, m)'
        PROVE  a \in Done(n, m) \/ (mine /\ a = a0)
    <3>1. CASE a[1] # s
      BY <1>6, <3>1, DoneOfOthers
    <3>2. CASE a[1] = s
      <4>1. a \in Sessions \X Nat /\ Pushed(s, a[2], n, m)'
        BY <3>2 DEF Done
      <4>2. CASE a[2] = taken[s]
        <5>1. a = a0
          BY <3>2, <4>1, <4>2
        <5>2. mine
          BY <1>1, <1>2, <4>1, <4>2 DEF Pushed, Current
        <5>3. QED
          BY <5>1, <5>2
      <4>3. CASE a[2] # taken[s]
        <5>1. Pushed(s, a[2], n, m)
          BY <1>1, <4>1, <4>3 DEF Pushed
        <5>2. QED
          BY <3>2, <4>1, <5>1 DEF Done
      <4>4. QED
        BY <4>2, <4>3
    <3>3. QED
      BY <3>1, <3>2
  <2>2. /\ IsFiniteSet(Done(n, m))
        /\ OneTopic(n)' => Cardinality(Done(n, m))
                              <= Count(m, Reached(n)) + Count(m, removed[n])
    BY <1>5, OneTopicBefore DEF KeptInv
  <2>3. Reached(n) \in Seq(Uint16) /\ removed[n] \in Seq(Uint16) /\ removed'[n] = removed[n]
    BY <1>1, QueueTypes
  <2>4. Count(m, Reached(n)) \in Nat /\ Count(m, removed[n]) \in Nat
    BY <2>3, CountNat
  <2>5. Cardinality(Done(n, m)) \in Nat
    BY <2>2, FS_CardinalityType
  <2>6. CASE mine
    <3>1. /\ IsFiniteSet(Done(n, m) \cup {a0})
          /\ Cardinality(Done(n, m) \cup {a0}) <= Cardinality(Done(n, m)) + 1
      <4> HIDE DEF a0
      <4>1. /\ IsFiniteSet(Done(n, m) \cup {a0})
            /\ Cardinality(Done(n, m) \cup {a0}) =
                 IF a0 \in Done(n, m) THEN Cardinality(Done(n, m)) ELSE Cardinality(Done(n, m)) + 1
        BY <2>2, FS_AddElement
      <4>2. QED
        BY <2>5, <4>1
    <3>2. Done(n, m)' \in SUBSET (Done(n, m) \cup {a0})
      BY <2>1
    <3>3. /\ IsFiniteSet(Done(n, m)')
          /\ Cardinality(Done(n, m)') <= Cardinality(Done(n, m) \cup {a0})
      BY <3>1, <3>2, FS_Subset
    <3>4. Cardinality(Done(n, m)') \in Nat /\ Cardinality(Done(n, m) \cup {a0}) \in Nat
      BY <3>1, <3>3, FS_CardinalityType
    <3>5. OneTopic(n)' => Reached(n)' = Append(Reached(n), m)
      BY <1>3, <1>5, <2>6
    <3>6. OneTopic(n)' => Count(m, Reached(n)') = Count(m, Reached(n)) + 1
      <4>1. Count(m, Append(Reached(n), m)) = Count(m, Reached(n)) + 1
        BY <2>3, CountAppend
      <4>2. QED
        BY <3>5, <4>1
    <3>7. QED
      BY <2>2, <2>3, <2>4, <2>5, <3>1, <3>3, <3>4, <3>6
  <2>7. CASE ~mine
    <3>1. Done(n, m)' \in SUBSET Done(n, m)
      BY <2>1, <2>7
    <3>2. IsFiniteSet(Done(n, m)') /\ Cardinality(Done(n, m)') <= Cardinality(Done(n, m))
      BY <2>2, <3>1, FS_Subset
    <3>3. Cardinality(Done(n, m)') \in Nat
      BY <3>2, FS_CardinalityType
    <3>4. ASSUME OneTopic(n)'
          PROVE  Count(m, Reached(n)') = Count(m, Reached(n))
      <4>1. CASE n = t
        <5>1. Reached(n)' = Append(Reached(n), h.message) /\ h.message # m
          BY <1>5, <2>7, <3>4, <4>1
        <5>2. QED
          BY <1>3, <2>3, <5>1, CountAppend
      <4>2. CASE n # t
        BY <1>5, <4>2
      <4>3. QED
        BY <4>1, <4>2
    <3>5. QED
      BY <2>2, <2>3, <2>4, <2>5, <3>2, <3>3, <3>4
  <2>8. QED
    BY <2>6, <2>7
<1>8. QED
  BY <1>7 DEF KeptInv, Count

\* read changes nothing; what remove takes out of the queue is recorded.
LEMMA ReadRemoveKeep ==
    ASSUME OrderInv, OrderInv', KeptInv, NEW s \in Sessions, Read(s) \/ Remove(s)
    PROVE  KeptInv'
<1>1. /\ pc[s] \in {"read", "remove"} /\ Current(s).opcode # "PUSH"
      /\ UNCHANGED <<requests, taken, replies>>
  BY DEF Read, Remove, OrderInv, InOrder
<1>2. PICK t \in TopicNames : t = Current(s).topic_name
  BY <1>1, HandlerKnows
<1> DEFINE q == topics_[t][topic[s]]
<1>3. q \in Seq(Uint16) /\ Nodes(s)[topic[s]] = q
  BY <1>1, <1>2, HandlerKnows, TopicKnown DEF Nodes, OrderInv, SessionTypes
<1>4. /\ topic' = topic \/ \E o : topic' = [topic EXCEPT ![s] = o]
      /\ (\E opcode, code, message : Answer(s, opcode, code, message, "respond"))
            \/ UNCHANGED <<pc, response>>
  BY DEF Read, Remove, GoUndefined, Answered
<1>5. /\ OthersStay(s)
      /\ \A i \in Nat, n \in TopicNames, m \in Uint16 :
            Pushed(s, i, n, m)' => Pushed(s, i, n, m)
  BY <1>1, <1>4, NothingPushed
<1>6. CASE UNCHANGED <<topics_, removed>>
  <2>1. \A n \in TopicNames : Reached(n)' = Reached(n)
    BY <1>6 DEF Reached
  <2>2. QED
    BY <1>5, <1>6, <2>1, RegistryStays, KeptAside
<1>7. CASE ~UNCHANGED <<topics_, removed>>
  <2>1. /\ q # <<>>
        /\ topics_' = [topics_ EXCEPT ![t][topic[s]] = Tail(q)]
        /\ removed' = [removed EXCEPT ![t] = Append(removed[t], Head(q))]
    BY <1>3, <1>2, <1>7 DEF Read, Remove
  <2>2. ASSUME NEW n \in TopicNames, NEW m \in Uint16, NEW a \in Done(n, m)'
        PROVE  a \in Done(n, m)
    <3>1. CASE a[1] # s
      BY <1>5, <3>1, DoneOfOthers
    <3>2. CASE a[1] = s
      BY <1>5, <3>2 DEF Done
    <3>3. QED
      BY <3>1, <3>2
  <2>3. /\ LinkedStay
        /\ OneTopic(t)' => Reached(t) = q /\ Reached(t)' = Tail(q)
        /\ \A n \in TopicNames \ {t} : Reached(n)' = Reached(n)
    <3>1. Tail(q) \in Seq(Uint16)
      BY <1>3, <2>1
    <3>2. QED
      BY <1>1, <1>2, <2>1, <3>1, ReachedChange
  <2>4. ASSUME NEW n \in TopicNames, NEW m \in Uint16, OneTopic(n)'
        PROVE  Count(m, Reached(n)) + Count(m, removed[n])
                  <= Count(m, Reached(n)') + Count(m, removed'[n])
    <3>1. /\ Reached(n) \in Seq(Uint16) /\ removed[n] \in Seq(Uint16)
          /\ Reached(n)' \in Seq(Uint16) /\ removed'[n] \in Seq(Uint16)
      BY QueueTypes
    <3>2. /\ Count(m, Reached(n)) \in Nat /\ Count(m, removed[n]) \in Nat
          /\ Count(m, Reached(n)') \in Nat /\ Count(m, removed'[n]) \in Nat
      BY <3>1, CountNat
    <3>3. CASE n = t
      <4>1. Reached(n)' = Tail(Reached(n)) /\ removed'[n] = Append(removed[n], Head(Reached(n)))
        BY <2>1, <2>3, <2>4, <3>3 DEF OrderInv, SessionTypes
      <4>2. Reached(n) # <<>> /\ Head(Reached(n)) \in Uint16
        BY <2>1, <2>3, <2>4, <3>1, <3>3
      <4>3. Count(m, Reached(n)) <= Count(m, Reached(n)') + IF Head(Reached(n)) = m THEN 1 ELSE 0
        BY <3>1, <4>1, <4>2, CountTail
      <4>4. Count(m, removed'[n]) = IF Head(Reached(n)) = m THEN Count(m, removed[n]) + 1
                                    ELSE Count(m, removed[n])
        BY <3>1, <4>1, <4>2, CountAppend
      <4>5. QED
        BY <3>2, <4>3, <4>4
    <3>4. CASE n # t
      <4>1. Reached(n)' = Reached(n) /\ removed'[n] = removed[n]
        BY <2>1, <2>3, <3>4 DEF OrderInv, SessionTypes
      <4>2. QED
        BY <3>2, <4>1
    <3>5. QED
      BY <3>3, <3>4
  <2>5. QED
    BY <2>2, <2>3, <2>4, KeptStep
<1>8. QED
  BY <1>6, <1>7

\* Every step keeps what was pushed.
LEMMA NextKeeps ==
    ASSUME OrderInv, OrderInv', KeptInv, [Next]_vars
    PROVE  KeptInv'
<1>1. CASE UNCHANGED vars
  <2>1. \A n, m : Done(n, m)' = Done(n, m)
    BY <1>1 DEF vars, Done, Pushed
  <2>2. QED
    BY <1>1, <2>1 DEF vars, KeptInv, Count, Reached, OneTopic
<1>2. CASE Next
  <2>1. PICK s \in Sessions : Send(s) \/ Break(s) \/ Step(s)
    BY <1>2 DEF Next
  <2>2. QED
    BY <2>1, LoopKeeps, HandlersKeep, PushKeeps, ReadRemoveKeep DEF Step
<1>3. QED
  BY <1>1, <1>2

\* Nothing has been pushed initially.
LEMMA InitKeeps == Init => KeptInv
<1> SUFFICES ASSUME Init PROVE KeptInv
  OBVIOUS
<1>1. \A n, m : Done(n, m) = {}
  <2> SUFFICES ASSUME NEW n, NEW m, NEW a \in Done(n, m) PROVE FALSE
    OBVIOUS
  <2>1. a[1] \in Sessions /\ a[2] \in 1..0
    BY DEF Done, Pushed, Init
  <2>2. QED
    BY <2>1
<1>2. \A n \in TopicNames : Reached(n) = <<>> /\ removed[n] = <<>>
  BY DEF Init, Reached
<1>3. \A n \in TopicNames, m \in Uint16 : Count(m, Reached(n)) = 0 /\ Count(m, removed[n]) = 0
  BY <1>2, CountEmpty
<1>4. IsFiniteSet({}) /\ Cardinality({}) <= 0 + 0
  BY FS_EmptySet
<1>5. QED
  BY <1>1, <1>3, <1>4 DEF KeptInv

\* For any sessions, requests, threads, interleavings and broken connections, and
\* any name under which get_or_create_topic has linked one topic: a message whose
\* PUSH was answered OK is in the queue that later requests to its topic find, or
\* a DELETE has taken it out; as many times as it was acknowledged.
THEOREM AckedPushesAreKept == Spec => []AckedPushesKept
<1>1. OrderInv /\ KeptInv => AckedPushesKept
  <2> SUFFICES ASSUME OrderInv, KeptInv, NEW n \in TopicNames, NEW k \in AllHeaders,
                      OneTopic(n)
               PROVE  LET m == k.message
                      IN  Cardinality({a \in Acked("PUSH", n) : requests[a[1]][a[2]].message = m})
                            <= Count(m, Reached(n)) + Count(m, removed[n])
    BY DEF AckedPushesKept
  <2> DEFINE m == k.message
             A == {a \in Acked("PUSH", n) : requests[a[1]][a[2]].message = m}
  <2>1. m \in Uint16
    BY HeaderFields
  <2>2. A \in SUBSET Done(n, m)
    <3> SUFFICES ASSUME NEW a \in A PROVE a \in Done(n, m)
      OBVIOUS
    <3>1. /\ a \in Sessions \X (1..MaxRequests) /\ a[2] <= Len(replies[a[1]])
          /\ replies[a[1]][a[2]].error_code = "OK"
          /\ requests[a[1]][a[2]].opcode = "PUSH" /\ requests[a[1]][a[2]].topic_name = n
          /\ requests[a[1]][a[2]].message = m
      BY DEF Acked
    <3>2. a[1] \in Sessions /\ a[2] \in Nat /\ a[2] >= 1 /\ a \in Sessions \X Nat
      BY <3>1
    <3>3. a[2] \in 1..taken[a[1]]
      BY <3>1, <3>2 DEF OrderInv, SessionTypes, InOrder
    <3>4. QED
      BY <3>1, <3>2, <3>3 DEF Done, Pushed
  <2>3. /\ IsFiniteSet(Done(n, m))
        /\ Cardinality(Done(n, m)) <= Count(m, Reached(n)) + Count(m, removed[n])
    BY <2>1 DEF KeptInv
  <2>4. IsFiniteSet(A) /\ Cardinality(A) <= Cardinality(Done(n, m))
    <3> HIDE DEF A, m
    <3>1. QED
      BY <2>2, <2>3, FS_Subset
  <2>5. Cardinality(A) \in Nat /\ Cardinality(Done(n, m)) \in Nat
    BY <2>3, <2>4, FS_CardinalityType
  <2>6. Reached(n) \in Seq(Uint16) /\ removed[n] \in Seq(Uint16)
    BY LastQueue DEF Reached, OrderInv, SessionTypes
  <2>7. Count(m, Reached(n)) \in Nat /\ Count(m, removed[n]) \in Nat
    BY <2>6, CountNat
  <2>8. QED
    BY <2>3, <2>4, <2>5, <2>7
<1>2. OrderInv /\ OrderInv' /\ KeptInv /\ [Next]_vars => KeptInv'
  BY NextKeeps
<1>3. QED
  BY <1>1, <1>2, InitInOrder, NextInOrder, InitKeeps, PTL DEF Spec

-----------------------------------------------------------------------------
(* One thread *)

\* The one thread runs s: no other session is inside get_or_create_topic.
LEMMA OneThread ==
    ASSUME ThreadCount = 1, NEW s \in Sessions, Runs(s)
    PROVE  InRegistry \subseteq {s}
<1> DEFINE R == InRegistry \ {s}
<1>1. R \in SUBSET Sessions
  BY DEF InRegistry
<1>2. IsFiniteSet(R)
  <2> HIDE DEF R
  <2>1. QED
    BY <1>1, SessionAssumption, FS_Subset
<1>3. Cardinality(R) \in Nat /\ Cardinality(R) < 1
  BY <1>2, FS_CardinalityType DEF Runs
<1>4. R = {}
  BY <1>2, <1>3, FS_EmptySet
<1>5. QED
  BY <1>4

\* A step of the session that has the thread.
LEMMA SingleStep ==
    ASSUME NEW s \in Sessions, InRegistry \subseteq {s}, OthersStay(s),
           undefined' = "no" /\ pc'[s] \in {"emplace", "link"} => Nodes(s)' = <<>>,
           \A n \in TopicNames : OneTopic(n)'
    PROVE  SingleInv'
<1>1. ASSUME NEW u \in InRegistry'
      PROVE  u = s /\ pc'[s] \in {"emplace", "link"}
  BY <1>1 DEF InRegistry, OthersStay
<1>2. QED
  BY <1>1 DEF SingleInv

\* A session goes on to create a topic only where none is linked.
LEMMA CreatesUnlinked ==
    ASSUME OrderInv, NEW s \in Sessions, pc'[s] \in {"emplace", "link"}, undefined' = "no",
           undefined = "no",
           \/ HandlePush(s) \/ HandlePull(s) \/ HandleDelete(s) \/ HandleUnknown(s)
           \/ Emplace(s) \/ Link(s) \/ Race(s)
    PROVE  Nodes(s)' = <<>>
<1>1. pc \in [Sessions -> PCs]
  BY DEF OrderInv, SessionTypes
<1>2. ASSUME NEW o, PushTo(s, o)
      PROVE  FALSE
  BY <1>1, <1>2 DEF PushTo, CallTopic, GoUndefined
<1>3. (HandlePush(s) \/ Emplace(s)) /\ Nodes(s) = <<>>
  <2>1. ~Link(s) /\ ~Race(s)
    BY <1>2 DEF Link, Race, GoUndefined
  <2>2. ~HandlePull(s) /\ ~HandleDelete(s) /\ ~HandleUnknown(s)
    BY <1>1 DEF HandlePull, HandleDelete, HandleUnknown, NameRefused, Refuse, Answer,
       CallTopic, GoUndefined
  <2>3. CASE HandlePush(s)
    BY <1>1, <1>2, <2>3 DEF HandlePush, Refuse, Answer
  <2>4. CASE Emplace(s)
    BY <1>2, <2>4 DEF Emplace
  <2>5. QED
    BY <2>1, <2>2, <2>3, <2>4
<1>4. UNCHANGED <<requests, taken, topics_>>
  BY <1>3 DEF HandlePush, Emplace
<1>5. QED
  BY <1>3, <1>4 DEF Nodes, Current

\* A client sends a request: the sessions inside get_or_create_topic go on with
\* theirs.
LEMMA SendSingle ==
    ASSUME OrderInv, SingleInv, NEW s \in Sessions, Send(s)
    PROVE  SingleInv'
<1>1. UNCHANGED <<pc, taken, topics_, undefined>> /\ InRegistry' = InRegistry
  BY DEF Send, InRegistry
<1>2. PICK h \in AllHeaders : requests' = [requests EXCEPT ![s] = Append(@, h)]
  BY HeaderOfSession DEF Send
<1>3. ASSUME NEW u \in InRegistry
      PROVE  Nodes(u)' = Nodes(u)
  <2>1. u \in Sessions /\ taken[u] \in 1..Len(requests[u]) /\ requests[u] \in Seq(AllHeaders)
    BY CurrentRequest DEF InRegistry, Busy, OrderInv, SessionTypes
  <2>2. requests'[u][taken[u]] = requests[u][taken[u]]
    BY <1>2, <2>1 DEF OrderInv, SessionTypes
  <2>3. QED
    BY <1>1, <2>2 DEF Nodes, Current
<1>4. QED
  BY <1>1, <1>3 DEF SingleInv, OneTopic

\* The one thread runs s.
LEMMA StepSingle ==
    ASSUME OrderInv, OrderInv', SingleInv, undefined = "no",
           NEW s \in Sessions, InRegistry \subseteq {s}, Break(s) \/ Step(s)
    PROVE  SingleInv'
<1>1. CASE Break(s) \/ ReadHeader(s) \/ ReadBody(s) \/ Respond(s)
  <2>1. OthersStay(s) /\ pc'[s] \notin {"emplace", "link"} /\ UNCHANGED topics_
    BY <1>1 DEF Break, ReadHeader, ReadBody, Respond, Answer, OrderInv, SessionTypes, OthersStay
  <2>2. QED
    BY <2>1, SingleStep DEF SingleInv, OneTopic
<1>2. CASE \/ HandlePush(s) \/ HandlePull(s) \/ HandleDelete(s) \/ HandleUnknown(s)
           \/ Emplace(s) \/ Link(s) \/ Race(s)
  <2>1. OthersStay(s)
    BY <1>2, HandlerMoves, NothingPushed
  <2>2. \A k \in TopicNames : OneTopic(k)'
    <3>1. CASE UNCHANGED topics_
      BY <3>1 DEF SingleInv, OneTopic
    <3>2. CASE Link(s)
      <4>1. Nodes(s) = <<>>
        BY <3>2 DEF Link, InRegistry, SingleInv
      <4>2. QED
        BY <3>2, <4>1, LinkAdds DEF SingleInv, OneTopic
    <3>3. QED
      BY <1>2, <3>1, <3>2 DEF HandlePush, HandlePull, HandleDelete, HandleUnknown, Emplace, Race
  <2>3. undefined' = "no" /\ pc'[s] \in {"emplace", "link"} => Nodes(s)' = <<>>
    BY <1>2, CreatesUnlinked
  <2>4. QED
    BY <2>1, <2>2, <2>3, SingleStep
<1>3. CASE Push(s) \/ Read(s) \/ Remove(s)
  <2>1. /\ pc[s] \in {"push", "read", "remove"}
        /\ UNCHANGED <<requests, taken, replies>>
        /\ topic' = topic \/ \E o : topic' = [topic EXCEPT ![s] = o]
        /\ (\E opcode, code, message : Answer(s, opcode, code, message, "respond"))
              \/ UNCHANGED <<pc, response>>
    BY <1>3 DEF Push, Read, Remove, GoUndefined, Answered
  <2>2. OthersStay(s) /\ pc'[s] \notin {"emplace", "link"}
    BY <2>1 DEF Answer, OrderInv, SessionTypes, OthersStay
  <2>3. PICK t \in TopicNames : t = Current(s).topic_name
    BY <2>1, HandlerKnows
  <2> DEFINE q == topics_[t][topic[s]]
  <2>4. q \in Seq(Uint16) /\ Current(s).message \in Uint16 /\ Nodes(s)[topic[s]] = q
    BY <2>1, <2>3, HandlerKnows, TopicKnown DEF Nodes, OrderInv, SessionTypes
  <2>5. UNCHANGED topics_ \/ \E c \in Seq(Uint16) : topics_' = [topics_ EXCEPT ![t][topic[s]] = c]
    <3>1. CASE Push(s)
      <4>1. topics_' = [topics_ EXCEPT ![t][topic[s]] = Append(q, Current(s).message)]
        BY <2>3, <3>1 DEF Push
      <4>2. Append(q, Current(s).message) \in Seq(Uint16)
        BY <2>4
      <4>3. QED
        BY <4>1, <4>2
    <3>2. CASE Read(s)
      BY <3>2 DEF Read
    <3>3. CASE Remove(s)
      <4>1. \/ UNCHANGED topics_
            \/ q # <<>> /\ topics_' = [topics_ EXCEPT ![t][topic[s]] = Tail(q)]
        BY <2>3, <2>4, <3>3 DEF Remove
      <4>2. q # <<>> => Tail(q) \in Seq(Uint16)
        BY <2>4
      <4>3. QED
        BY <4>1, <4>2
    <3>4. QED
      BY <1>3, <3>1, <3>2, <3>3
  <2>6. \A k \in TopicNames : OneTopic(k)'
    BY <2>1, <2>3, <2>5, ReachedChange DEF SingleInv, OneTopic
  <2>7. QED
    BY <2>2, <2>6, SingleStep
<1>4. QED
  BY <1>1, <1>2, <1>3 DEF Step

\* When one thread runs the sessions, get_or_create_topic never links two topics
\* under one name, for any sessions and requests: every name is one that
\* AckedPushesKept speaks of.
THEOREM OneThreadOneTopic ==
    ASSUME ThreadCount = 1
    PROVE  Spec => [](\A n \in TopicNames : OneTopic(n))
<1>1. Init => SingleInv
  <2> SUFFICES ASSUME Init PROVE SingleInv
    OBVIOUS
  <2>1. InRegistry = {}
    BY DEF Init, InRegistry
  <2>2. Len(<<>>) <= 1
    OBVIOUS
  <2>3. QED
    BY <2>1, <2>2 DEF SingleInv, OneTopic, Init
<1>2. OrderInv /\ OrderInv' /\ SingleInv /\ [Next]_vars => SingleInv'
  <2> SUFFICES ASSUME OrderInv, OrderInv', SingleInv, [Next]_vars PROVE SingleInv'
    OBVIOUS
  <2>1. CASE UNCHANGED vars
    BY <2>1 DEF vars, SingleInv, InRegistry, Nodes, Current, OneTopic
  <2>2. CASE Next
    <3>1. PICK s \in Sessions : Send(s) \/ (Runs(s) /\ (Break(s) \/ Step(s)))
      BY <2>2 DEF Next
    <3>2. undefined = "no"
      BY <2>2 DEF Next
    <3>3. CASE Send(s)
      BY <3>3, SendSingle
    <3>4. CASE Runs(s) /\ (Break(s) \/ Step(s))
      BY <3>2, <3>4, OneThread, StepSingle
    <3>5. QED
      BY <3>1, <3>3, <3>4
  <2>3. QED
    BY <2>1, <2>2
<1>3. SingleInv => \A n \in TopicNames : OneTopic(n)
  BY DEF SingleInv
<1>4. QED
  BY <1>1, <1>2, <1>3, InitInOrder, NextInOrder, PTL DEF Spec

=============================================================================
