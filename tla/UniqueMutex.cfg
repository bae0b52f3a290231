CONSTANTS
    Threads = {t1, t2}
    Fibers = {f1, f2, f3, f4}
SPECIFICATION FairSpec
INVARIANTS MutualExclusion NoLostWakeup WaitersExact SingleFrame
PROPERTIES NoBarging EveryWaiterServed
