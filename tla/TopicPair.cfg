CONSTANTS
    Threads = {t1, t2}
    Fibers = {s1, s2}
    Pushers = {s1}
    Pullers = {s2}
    Deleters = {s2}
    Data = {a, b}
    N = 2
    TopicHash = 3
    AnyDelete = FALSE
    MaxPush = 2
    INVALID = INVALID
    None = None
SPECIFICATION FairSpec
INVARIANTS TypeOK PartitionExclusion WallExclusion WallMatchesQueue NoNullFront
PROPERTIES DeliveredBeforeRemoved EveryRequestAnswered
