SPECIFICATION DoctorSpec
CONSTANTS
    r1 = r1  r2 = r2  good = good  bad = bad
    created = created  partial = partial  none = none
    tgz1 = tgz1  tgz2 = tgz2  pkgJson = pkgJson
    dotConfig = dotConfig  rootConfig = rootConfig  package = package
    Runs <- TwoRuns
    Stale = 0
    MaxHold = 0
    MaxLeftovers = 0
    MaxFailures = 1
    Versions <- TwoVersions
    UserTexts <- TwoTexts
    Created = created
    Partial = partial
    None = none
    Paths <- SixPaths
    Copies <- Plan
    PkgJson = pkgJson
    Configs <- ConfigOrder
    NewConfig = dotConfig
    Package = package
    Standalone <- TwoVersions
    Jobs <- Pairs
    StartVersions <- OnlyFirstVersion
    UserFiles <- UserPlaces
    EditablePaths <- Nowhere
    MaxEdits = 0
    Malformed <- OnlyBad
    Node <- Stable4
    MinNode <- Stable4
    PowerShells <- PowerShell7
    Windows = FALSE
    OpenCodes <- InstalledOpenCodes
    MinOpenCode <- Candidate2
    Modes <- TwoModes
    BundleSums <- Verified
INVARIANTS DoctorInv HealthyWasIntact FinishedIsHealthy
CHECK_DEADLOCK FALSE
