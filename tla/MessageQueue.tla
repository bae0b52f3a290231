----------------------------- MODULE MessageQueue -----------------------------
(***************************************************************************)
(* message_queue_t (src/messages/message-queue.h): a singly linked list of *)
(* message_t cells (src/messages/message.h) allocated with malloc, and an  *)
(* iterator into it.                                                       *)
(*                                                                         *)
(* A cell that has been freed keeps its bytes until malloc returns it      *)
(* again, so a use after free shows up as a cell outside allocated.        *)
(***************************************************************************)
EXTENDS Naturals, Sequences, FiniteSets, FiniteSetsExt, Functions

CONSTANTS Queues,   \* queue objects
          Cells,    \* addresses malloc can return; its bound
          Data,     \* message contents
          NULL, NoQueue

ASSUME NullAssumption == NULL \notin Cells /\ NoQueue \notin Queues
ASSUME HeapAssumption == IsFiniteSet(Cells)

VARIABLES alive,     \* the constructed queues
          size_, head_, tail_,
          allocated, \* cells between malloc and free
          next_, data_,
          it         \* message_ of an iterator a caller keeps

vars == <<alive, size_, head_, tail_, allocated, next_, data_, it>>

TypeOK ==
    /\ alive \subseteq Queues
    /\ size_ \in [Queues -> Nat]
    /\ head_ \in [Queues -> Cells \cup {NULL}]
    /\ tail_ \in [Queues -> Cells \cup {NULL}]
    /\ allocated \subseteq Cells
    /\ next_ \in [Cells -> Cells \cup {NULL}]
    /\ data_ \in [Cells -> Data \cup {NULL}]
    /\ it \in Cells \cup {NULL}

Init ==
    /\ alive = {}
    /\ size_ = [q \in Queues |-> 0]
    /\ head_ = [q \in Queues |-> NULL]
    /\ tail_ = [q \in Queues |-> NULL]
    /\ allocated = {}
    /\ next_ = [c \in Cells |-> NULL]
    /\ data_ = [c \in Cells |-> NULL]
    /\ it = NULL

-----------------------------------------------------------------------------
(* Walking the list *)

\* The cell i links after cell c.
CellAfter(c, i) ==
    LET at[k \in Nat] == IF k = 0 THEN c
                         ELSE IF at[k - 1] = NULL THEN NULL ELSE next_[at[k - 1]]
    IN  at[i]

\* The cells from c to the end of its list (all of Cells, and more, would be
\* a cycle).
CellsFrom(c) ==
    LET ends == {n \in 0..Cardinality(Cells) : CellAfter(c, n) = NULL}
        len  == IF ends = {} THEN Cardinality(Cells) + 1 ELSE Min(ends)
    IN  [i \in 1..len |-> CellAfter(c, i - 1)]

\* The messages from cell c on.
DataFrom(c) == [i \in DOMAIN CellsFrom(c) |-> data_[CellsFrom(c)[i]]]

-----------------------------------------------------------------------------
(* Operations *)

\* create_message at cell c, one that malloc may return; construct_at copies
\* the content and clears next_ (Push sets it).
CreateMessage(c, msg) ==
    /\ c \notin allocated
    /\ allocated' = allocated \cup {c}
    /\ data_' = [data_ EXCEPT ![c] = msg]

\* destroy_message on every cell of freed.  A caller gives up an iterator at
\* a message that goes.
DestroyMessages(freed) ==
    /\ allocated' = allocated \ freed
    /\ it' = IF it \in freed THEN NULL ELSE it

Construct(q) ==
    /\ q \notin alive
    /\ alive' = alive \cup {q}
    /\ size_' = [size_ EXCEPT ![q] = 0]
    /\ head_' = [head_ EXCEPT ![q] = NULL]
    /\ tail_' = [tail_ EXCEPT ![q] = NULL]
    /\ UNCHANGED <<allocated, next_, data_, it>>

MoveConstructKeepsOther(q, other) ==
    /\ q \notin alive /\ other \in alive
    /\ alive' = alive \cup {q}
    /\ size_' = [size_ EXCEPT ![q] = size_[other]]
    /\ head_' = [head_ EXCEPT ![q] = head_[other]]
    /\ tail_' = [tail_ EXCEPT ![q] = tail_[other]]
    /\ UNCHANGED <<allocated, next_, data_, it>>

MoveConstruct(q, other) ==
    /\ q \notin alive /\ other \in alive
    /\ alive' = alive \cup {q}
    /\ size_' = [size_ EXCEPT ![q] = size_[other], ![other] = 0]
    /\ head_' = [head_ EXCEPT ![q] = head_[other], ![other] = NULL]
    /\ tail_' = [tail_ EXCEPT ![q] = tail_[other], ![other] = NULL]
    /\ UNCHANGED <<allocated, next_, data_, it>>

\* std::swap of the three members; other may be q itself.
MoveAssign(q, other) ==
    /\ q \in alive /\ other \in alive
    /\ size_' = [size_ EXCEPT ![q] = size_[other], ![other] = size_[q]]
    /\ head_' = [head_ EXCEPT ![q] = head_[other], ![other] = head_[q]]
    /\ tail_' = [tail_ EXCEPT ![q] = tail_[other], ![other] = tail_[q]]
    /\ UNCHANGED <<alive, allocated, next_, data_, it>>

\* The destructor frees the cells it walks over.  The members keep their
\* values in the dead object.
Destroy(q) ==
    /\ q \in alive
    /\ alive' = alive \ {q}
    /\ DestroyMessages(Range(CellsFrom(head_[q])))
    /\ UNCHANGED <<size_, head_, tail_, next_, data_>>

PushAtFront(q, msg) ==
    /\ q \in alive
    /\ \E c \in Cells :
          /\ CreateMessage(c, msg)
          /\ next_' = [next_ EXCEPT ![c] = head_[q]]
          /\ head_' = [head_ EXCEPT ![q] = c]
          /\ tail_' = IF tail_[q] = NULL THEN [tail_ EXCEPT ![q] = c] ELSE tail_
    /\ size_' = [size_ EXCEPT ![q] = @ + 1]
    /\ UNCHANGED <<alive, it>>

Push(q, msg) ==
    /\ q \in alive
    /\ \E c \in Cells :
          /\ CreateMessage(c, msg)
          /\ tail_' = [tail_ EXCEPT ![q] = c]
          /\ \/ /\ tail_[q] = NULL
                /\ head_' = [head_ EXCEPT ![q] = c]
                /\ next_' = [next_ EXCEPT ![c] = NULL]
             \/ /\ tail_[q] # NULL
                /\ next_' = [next_ EXCEPT ![c] = NULL, ![tail_[q]] = c]
                /\ UNCHANGED head_
    /\ size_' = [size_ EXCEPT ![q] = @ + 1]
    /\ UNCHANGED <<alive, it>>

PopKeepsTail(q) ==
    /\ q \in alive
    /\ head_[q] # NULL
    /\ head_' = [head_ EXCEPT ![q] = next_[head_[q]]]
    /\ size_' = [size_ EXCEPT ![q] = @ - 1]
    /\ DestroyMessages({head_[q]})
    /\ UNCHANGED <<alive, tail_, next_, data_>>

Pop(q) ==
    /\ q \in alive
    /\ \/ /\ head_[q] = NULL
          /\ UNCHANGED <<size_, head_, tail_, allocated, it>>
       \/ LET new == next_[head_[q]]
          IN  /\ head_[q] # NULL
              /\ head_' = [head_ EXCEPT ![q] = new]
              /\ tail_' = IF new = NULL THEN [tail_ EXCEPT ![q] = NULL] ELSE tail_
              /\ size_' = [size_ EXCEPT ![q] = @ - 1]
              /\ DestroyMessages({head_[q]})
    /\ UNCHANGED <<alive, next_, data_>>

\* begin(), front() and back(), and push's result: all of them give head_.
Begin(q) ==
    /\ q \in alive
    /\ it' = head_[q]
    /\ UNCHANGED <<alive, size_, head_, tail_, allocated, next_, data_>>

\* iterator_t::operator++
Advance ==
    /\ it # NULL
    /\ it' = next_[it]
    /\ UNCHANGED <<alive, size_, head_, tail_, allocated, next_, data_>>

Next ==
    \/ \E q \in Queues :
          \/ Construct(q) \/ Pop(q) \/ Destroy(q) \/ Begin(q)
          \/ \E msg \in Data : Push(q, msg)
          \/ \E other \in Queues : MoveConstruct(q, other) \/ MoveAssign(q, other)
    \/ Advance

Spec == Init /\ [][Next]_vars

-----------------------------------------------------------------------------
(* Properties *)

\* size_ counts the cells between head_ and the end, and tail_ is the last
\* of them: size(), empty() and the test of tail_ in push agree with the list.
ListExact ==
    \A q \in alive :
        LET cells == CellsFrom(head_[q])
        IN  /\ size_[q] = Len(cells)
            /\ tail_[q] = IF cells = <<>> THEN NULL ELSE cells[Len(cells)]

\* Every cell in use belongs to exactly one queue, and the queues and the
\* iterator reach no freed cell: nothing is leaked, freed twice or used after
\* it was freed.
HeapExact ==
    /\ allocated = UNION {Range(CellsFrom(head_[q])) : q \in alive}
    /\ \A p, q \in alive :
          p # q => Range(CellsFrom(head_[p])) \cap Range(CellsFrom(head_[q])) = {}
    /\ it \in allocated \cup {NULL}

\* The messages of every queue, oldest first.
Content == [q \in Queues |-> IF q \in alive THEN DataFrom(head_[q]) ELSE <<>>]

\* The queue the iterator is in, and the messages from there to the end.
Cursor ==
    [queue |-> IF it = NULL THEN NoQueue
               ELSE CHOOSE q \in alive : it \in Range(CellsFrom(head_[q])),
     rest  |-> DataFrom(it)]

\* The linked list implements the abstract queues.
Fifo == INSTANCE FifoQueue WITH content <- Content, cursor <- Cursor

\* Every behaviour of the list is one of the abstract queues: messages come
\* out in the order they went in, whatever is moved, swapped or destroyed, and
\* an iterator goes on naming the same messages.
Refinement == Fifo!Spec
=============================================================================
