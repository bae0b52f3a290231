CONSTANTS
    Sessions = {"any", "plain"}
    Headers <- MixedHeaders
    ThreadCount = 2
    MaxRequests = 3
    None = None
SPECIFICATION FairSpec
INVARIANTS TypeOK AnsweredInOrder AckedPushesKept
PROPERTIES EveryRequestAnswered
CHECK_DEADLOCK FALSE
