CONSTANTS
    Threads = {t1, t2}
    Fibers = {s1, s2}
    Pushers = {s1}
    Pullers = {s1, s2}
    Deleters = {s1, s2}
    Data = {a}
    N = 1
    TopicHash = 3
    AnyDelete = FALSE
    MaxPush = 2
    INVALID = INVALID
    None = None
SPECIFICATION Spec
INVARIANTS NoNullFront
