CONSTANTS
    Threads = {t1, t2}
    Connections = {c1, c2}
    AcceptLoop = AcceptLoop
    Close = Close
    Fibers = {c1, c2, AcceptLoop, Close}
    MaxFaults = 1
    None = None
    Any = c1
    CommandLines <- Lines
    Atoi <- MCAtoi
    Length <- MCLength
    BrokerHosts = {"127.0.0.1"}
    BrokerPort = 8080
SPECIFICATION FairSpec
INVARIANTS RunsOnLiveServer CleanShutdown SingleFrame
PROPERTIES ShutdownCompletes EveryClientEnds
CHECK_DEADLOCK FALSE
