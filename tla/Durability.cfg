\* Uploads, plain or under one key, against deletes, sweeps, failed calls and a crash.
SPECIFICATION Spec
CONSTANTS
    Requests = {r1, r2}
    IdemKeys = {k1}
    NoKey = NoKey
    MaxTime = 4
    MaxSkew = 0
    MaxUUID = 4
    MaxCrashes = 1
    Faults = {"fail", "lost", "crash"}
    MaxUpload = 1
    LastArrival = 0
    Grace = 3
    TTL = 0
    Batch = 2
    PageSize = 1
    Poisoned = {}
    MaxScan = 1
SYMMETRY Symmetry
INVARIANTS
    LiveRowHasObject
    DurabilityInv
    OneAnswerPerKey
    ClaimExclusive
PROPERTY
    PurgedRowHasNoObject
    
    ImplementsFileStore
