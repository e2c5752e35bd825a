\* A walk over up to four files, in pages of one to three, with every interleaving.
SPECIFICATION FairSpec
CONSTANTS
    MaxID = 4
    Tags = {t1, t2}
    NoTag = NoTag
    Wanted = t1
    DefaultLimit = 2
    MaxLimit = 3
    Limits <- MCLimits
INVARIANTS
    TypeOK
    WalkComplete
    PagesDescend
PROPERTY
    WalkEnds
CHECK_DEADLOCK FALSE
