\* One upload, its deletion, sweeps and a read, with failing calls and decaying bytes.
SPECIFICATION DownloadSpec
CONSTANTS
    Requests = {r1}
    IdemKeys = {}
    NoKey = NoKey
    MaxTime = 5
    MaxSkew = 1
    MaxUUID = 2
    MaxCrashes = 1
    Faults = {"fail", "crash"}
    MaxUpload = 1
    LastArrival = 1
    Grace = 4
    TTL = 0
    Batch = 1
    PageSize = 1
    Poisoned = {}
    MaxScan = 1
INVARIANTS
    LiveFileIsServed
    DeleteIsNotAnError
    StreamIsVerified
PROPERTY
    PurgedIsNotOpened
