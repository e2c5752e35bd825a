\* What must happen in the end: one upload at a time, transient failures.
SPECIFICATION FairSpec
CONSTANTS
    Requests = {r1}
    IdemKeys = {k1}
    NoKey = NoKey
    MaxTime = 4
    MaxSkew = 0
    MaxUUID = 4
    MaxCrashes = 1
    Faults = {"fail", "lost", "crash"}
    MaxUpload = 1
    LastArrival = 0
    Grace = 3
    TTL = 1
    Batch = 2
    PageSize = 1
    Poisoned = {2}
    MaxScan = 1
PROPERTIES
    OrphansReclaimed
    DeletedPurged
    StuckClaimExpires
    ImplementsFileStore

