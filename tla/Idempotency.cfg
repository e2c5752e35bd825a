\* Retries under one idempotency key, every kind of failure, keys expiring.
SPECIFICATION Spec
CONSTANTS
    Requests = {r1, r2}
    IdemKeys = {k1}
    NoKey = NoKey
    MaxTime = 2
    MaxSkew = 0
    MaxUUID = 4
    MaxCrashes = 0
    Faults = {"fail", "lost", "lostCommit", "cancel"}
    MaxUpload = 1
    LastArrival = 2
    Grace = 4
    TTL = 1
    Batch = 1
    PageSize = 4
    Poisoned = {}
    MaxScan = 0
SYMMETRY Symmetry
INVARIANTS
    TypeOK
    ClaimExclusive
    AtMostOneFilePerKey
    IdempotencyInv
PROPERTY
    CompletedKeyStable
