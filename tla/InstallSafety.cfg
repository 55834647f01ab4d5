SPECIFICATION Spec
CONSTANTS
    r1 = r1  r2 = r2  u1 = u1  u2 = u2
    created = created  partial = partial  none = none
    tgz1 = tgz1  tgz2 = tgz2  pkgJson = pkgJson
    dotConfig = dotConfig  rootConfig = rootConfig  package = package
    Runs <- TwoRuns
    Stale = 0
    MaxHold = 0
    MaxLeftovers = 1
    MaxFailures = 1
    Versions <- TwoVersions
    UserTexts <- TwoTexts
    Created = created
    Partial = partial
    None = none
    Paths <- SixPaths
    Copies <- Plan
    PkgJson = pkgJson
    Configs <- ConfigOrder
    NewConfig = dotConfig
    Package = package
    Standalone <- OnlySecondVersion
    Jobs <- Pairs
    StartVersions <- OnlyFirstVersion
    UserFiles <- UserPlaces
    EditablePaths <- EditPlaces
    MaxEdits = 1
INVARIANTS LifecycleInv LockReleased UserTextKept
PROPERTIES StampIsComplete
SYMMETRY Symmetry
CHECK_DEADLOCK FALSE
