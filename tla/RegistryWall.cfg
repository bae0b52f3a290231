CONSTANTS
    Threads = {t1, t2}
    Names = {a}
    Topics = {o1, o2, o3}
    MaxStore = 3
    MaxCrash = 0
    Hole = Hole
    NoTopic = NoTopic
    NoName = NoName
SPECIFICATION Spec
INVARIANTS WallKeepsStored
CHECK_DEADLOCK FALSE
