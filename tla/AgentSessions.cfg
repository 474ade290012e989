SPECIFICATION FairSpec
CONSTANTS
    t1 = t1
    t2 = t2
    Threads <- MCThreads
    MaxRequests = 3
    MayAsk <- MCMayAsk
    Sessions = {1, 2, 3}
    NoSession = 0
    Sweepers = {1}
    MaxServers = 2
INVARIANTS TypeOK CountIsHolders OneServer SessionsKeepTheirServer LeasesAreUsed DeletedThreadsEnd
PROPERTIES ImplementsSharedServer EveryTurnEnds CrashEndsSessions
CHECK_DEADLOCK FALSE
