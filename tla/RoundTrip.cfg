\* An upload of every small length, and every small range of the file it makes.
SPECIFICATION TripSpec
CONSTANTS
    MaxLength = 7
    MaxCap = 6
    SniffLen = 3
    Chunk = 2
    MaxInt64 = 8
    MaxNumber = 9
    Lengths <- MCLengths
    Caps <- MCCaps
    Numbers <- MCNumbers
    Sizes <- MCLengths
INVARIANTS
    TypeOK
    CapEnforced
    FittingBodyNotRefused
    ChecksumCoversObject
    PartialBodyIsNamed
    AnswerFollowsHeader
    BackendsAgree
    ServedAsSent
CHECK_DEADLOCK FALSE
