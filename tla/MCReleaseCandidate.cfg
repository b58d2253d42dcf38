\* Two runs; other processes write twice, at any time.
SPECIFICATION CandidateSpec
CONSTANTS
    Gone = Gone
    Torn = Torn
    Foreign = Foreign
    Unseen = Unseen
    Other = Other
    Contents <- MCContents
    Extras <- MCExtras
    Package <- MCPackage
    PackageOf <- MCPackageOf
    Requested = "requested"
    Starts <- MCStarts
    Archives <- MCArchives
    Reviewed <- MCReviewed
    Root <- MCRoot
    Lock <- MCLock
    Declares <- MCDeclares
    Valid <- MCValid
    MaxWrites = 2
    MaxRuns = 2
CHECK_DEADLOCK FALSE
INVARIANTS
    ManifestIsOneRelease
    VerifiedDirectoryExisted
    SealedIsParsed
    PublishedIsParsed
    SbomsAreLockBound
    UndisturbedPreparationPasses
