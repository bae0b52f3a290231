CONSTANTS
    Threads = {t1, t2}
    Fibers = {r1, r2, r3, w1}
    Readers = {r1, r2, r3}
    Writers = {w1}
    AwaitUnder = {"reading", "writing"}
SPECIFICATION FairSpec
INVARIANTS TypeOK Exclusion CountersExact NoLostWakeup SingleFrame
PROPERTIES EveryWriterServed UnlockReturns EveryReaderServed
