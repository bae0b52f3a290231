CONSTANTS
    Threads = {t1, t2}
    Fibers = {r1, r2, w1, w2}
    Readers = {r1, r2}
    Writers = {w1, w2}
    AwaitUnder = {"writing"}
SPECIFICATION Spec
INVARIANTS Exclusion
