CONSTANTS
    Queues = {q1, q2}
    Cells = {c1, c2, c3}
    Data = {a, b}
    NULL = NULL
    NoQueue = NoQueue
SPECIFICATION Spec
INVARIANTS ListExact HeapExact
PROPERTIES Refinement
