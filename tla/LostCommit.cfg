\* The commit is applied but its answer is lost.
SPECIFICATION Spec
CONSTANTS
    Requests = {r1}
    IdemKeys = {}
    NoKey = NoKey
    MaxTime = 4
    MaxSkew = 0
    MaxUUID = 2
    MaxCrashes = 0
    Faults = {"lostCommit"}
    MaxUpload = 1
    LastArrival = 1
    Grace = 2
    TTL = 0
    Batch = 1
    PageSize = 1
    Poisoned = {}
    MaxScan = 0
INVARIANT LiveRowHasObject
