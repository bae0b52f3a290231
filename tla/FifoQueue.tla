------------------------------ MODULE FifoQueue ------------------------------
(***************************************************************************)
(* What message_queue_t promises: queues of messages that can be moved,    *)
(* swapped and destroyed, and an iterator that goes on naming the same     *)
(* messages whatever happens to the others.                                *)
(***************************************************************************)
EXTENDS Sequences

CONSTANTS Queues,   \* queue objects
          Data,     \* message contents
          NoQueue

VARIABLES alive,    \* the constructed queues
          content,  \* content[q]: the messages of q, oldest first
          cursor    \* the iterator: the queue its message is in, and the
                    \* messages from there to the end

vars == <<alive, content, cursor>>

End == [queue |-> NoQueue, rest |-> <<>>]

\* The iterator at the front of a queue that holds s.
AtFront(q, s) == IF s = <<>> THEN End ELSE [queue |-> q, rest |-> s]

\* The iterator follows its message from queue p to queue q.
Follow(c, p, q) == IF c.queue = p THEN [c EXCEPT !.queue = q] ELSE c

Init ==
    /\ alive = {}
    /\ content = [q \in Queues |-> <<>>]
    /\ cursor = End

Construct(q) ==
    /\ q \notin alive
    /\ alive' = alive \cup {q}
    /\ UNCHANGED <<content, cursor>>

Push(q, d) ==
    /\ q \in alive
    /\ content' = [content EXCEPT ![q] = Append(@, d)]
    /\ cursor' = IF cursor.queue = q THEN [cursor EXCEPT !.rest = Append(@, d)] ELSE cursor
    /\ UNCHANGED alive

\* The oldest message goes, if there is one; an iterator must not be at it.
Pop(q) ==
    /\ q \in alive
    /\ content' = [content EXCEPT ![q] = IF @ = <<>> THEN @ ELSE Tail(@)]
    /\ cursor' = IF cursor.queue = q /\ cursor.rest = content[q] THEN End ELSE cursor
    /\ UNCHANGED alive

\* q is constructed from p, which becomes empty.
MoveConstruct(q, p) ==
    /\ q \notin alive /\ p \in alive
    /\ alive' = alive \cup {q}
    /\ content' = [content EXCEPT ![q] = content[p], ![p] = <<>>]
    /\ cursor' = Follow(cursor, p, q)

\* q = std::move(p) exchanges the two.
MoveAssign(q, p) ==
    /\ q \in alive /\ p \in alive
    /\ content' = [content EXCEPT ![q] = content[p], ![p] = content[q]]
    /\ cursor' = CASE cursor.queue = p -> [cursor EXCEPT !.queue = q]
                   [] cursor.queue = q -> [cursor EXCEPT !.queue = p]
                   [] OTHER -> cursor
    /\ UNCHANGED alive

Destroy(q) ==
    /\ q \in alive
    /\ alive' = alive \ {q}
    /\ content' = [content EXCEPT ![q] = <<>>]
    /\ cursor' = IF cursor.queue = q THEN End ELSE cursor

\* begin(), front(), back() and the result of push(): the oldest message.
Begin(q) ==
    /\ q \in alive
    /\ cursor' = AtFront(q, content[q])
    /\ UNCHANGED <<alive, content>>

Advance ==
    /\ cursor # End
    /\ cursor' = AtFront(cursor.queue, Tail(cursor.rest))
    /\ UNCHANGED <<alive, content>>

Next ==
    \/ \E q \in Queues :
          \/ Construct(q) \/ Pop(q) \/ Destroy(q) \/ Begin(q)
          \/ \E d \in Data : Push(q, d)
          \/ \E p \in Queues : MoveConstruct(q, p) \/ MoveAssign(q, p)
    \/ Advance

Spec == Init /\ [][Next]_vars
=============================================================================
