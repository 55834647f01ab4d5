SPECIFICATION Spec
CONSTANTS
    MaxBuilds = 2
    MaxMishaps = 2
    Argvs <- CommandLines
    Homes <- AnyHome
    Listings <- TarballListed
    MaxTrouble = 2
    MaxRuns = 2
    MaxFailures = 1
INVARIANTS BundleInv AirGapHonest ChecksummedIsWhole ExitZeroIsTrue RefusedUntouched
    NoTempLeft ForceRepairs VerifiedInstalls
CHECK_DEADLOCK FALSE
