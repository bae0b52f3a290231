CONSTANTS
    Threads = {t1, t2}
    Fibers = {s1, s2}
    Pushers = {s1, s2}
    Pullers = {s2}
    Deleters = {s1, s2}
    Data = {a, b}
    N = 1
    TopicHash = 3
    AnyDelete = TRUE
    MaxPush = 2
    INVALID = INVALID
    None = None
SPECIFICATION Spec
INVARIANTS PartitionExclusion WallMatchesQueue RemovalsMatch
CHECK_DEADLOCK FALSE
