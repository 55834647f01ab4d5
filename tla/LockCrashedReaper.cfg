SPECIFICATION Spec
CONSTANTS
    c1 = c1
    c2 = c2
    c3 = c3
    Clients <- ThreeClients
    NonBlocking <- ThreeClients
    Scoped <- Nobody
    NoOwner = NoOwner
    Torn = Torn
    Stale = 0
    Timeout = 0
    MaxStall = 0
    MaxCrashes = 1
    ReaperLeft = TRUE
SYMMETRY Symmetry
INVARIANT LeaseExclusion
CHECK_DEADLOCK FALSE
