\* The grace period exceeds the longest upload, yet not the collector's wait
\* between its two reads as well.
SPECIFICATION Spec
CONSTANTS
    Requests = {r1}
    IdemKeys = {}
    NoKey = NoKey
    MaxTime = 4
    MaxSkew = 0
    MaxUUID = 2
    MaxCrashes = 0
    Faults = {}
    MaxUpload = 1
    LastArrival = 1
    Grace = 2
    TTL = 0
    Batch = 1
    PageSize = 1
    Poisoned = {}
    MaxScan = 1
INVARIANT LiveRowHasObject
