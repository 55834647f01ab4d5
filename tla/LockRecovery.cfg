SPECIFICATION FairSpec
CONSTANTS
    c1 = c1
    c2 = c2
    c3 = c3
    Clients <- TwoClients
    NonBlocking <- OnlyFirst
    Scoped <- OnlySecond
    NoOwner = NoOwner
    Torn = Torn
    Stale = 0
    Timeout = 0
    MaxStall = 1
    MaxCrashes = 1
    ReaperLeft = TRUE
INVARIANT NothingLeftBehind
PROPERTY EveryCallEnds
CHECK_DEADLOCK FALSE
