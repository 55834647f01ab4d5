SPECIFICATION LockSpec
CONSTANTS
    r1 = r1  r2 = r2  r3 = r3
    Runs <- ThreeRuns
    Stale = 2
    MaxHold = 2
    MaxLeftovers = 1
    MaxFailures = 1
INVARIANTS LockInv SerializedUntilLeftover
CHECK_DEADLOCK FALSE
