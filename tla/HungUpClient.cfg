\* The client hangs up during the upload.
SPECIFICATION Spec
CONSTANTS
    Requests = {r1}
    IdemKeys = {k1}
    NoKey = NoKey
    MaxTime = 4
    MaxSkew = 0
    MaxUUID = 2
    MaxCrashes = 0
    Faults = {"cancel"}
    MaxUpload = 3
    LastArrival = 4
    Grace = 4
    TTL = 4
    Batch = 1
    PageSize = 2
    Poisoned = {}
    MaxScan = 0
INVARIANT FailedUploadReleasesClaim
