CONSTANTS
    Sessions = {"plain"}
    Headers <- PlainHeaders
    ThreadCount = 1
    MaxRequests = 3
    None = None
SPECIFICATION Spec
INVARIANTS AckedDeletesRemoved
CHECK_DEADLOCK FALSE
