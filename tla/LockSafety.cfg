SPECIFICATION Spec
CONSTANTS
    c1 = c1
    c2 = c2
    c3 = c3
    Clients <- TwoClients
    NonBlocking <- OnlyFirst
    Scoped <- OnlySecond
    NoOwner = NoOwner
    Torn = Torn
    Stale = 1
    Timeout = 1
    MaxStall = 1
    MaxCrashes = 1
    ReaperLeft = FALSE
INVARIANTS IInv LeaseExclusion LeaseBacked ReaperExclusion
PROPERTIES ImplementsLease
CHECK_DEADLOCK FALSE
