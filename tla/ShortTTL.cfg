\* The upload takes longer than the idempotency TTL.
SPECIFICATION Spec
CONSTANTS
    Requests = {r1, r2}
    IdemKeys = {k1}
    NoKey = NoKey
    MaxTime = 4
    MaxSkew = 0
    MaxUUID = 4
    MaxCrashes = 0
    Faults = {}
    MaxUpload = 3
    LastArrival = 4
    Grace = 4
    TTL = 1
    Batch = 1
    PageSize = 2
    Poisoned = {}
    MaxScan = 0
INVARIANT AtMostOneFilePerKey
