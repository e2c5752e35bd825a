\* Headers with signs in their numbers, and numbers beyond int64.
SPECIFICATION TripSpec
CONSTANTS
    MaxLength = 7
    MaxCap = 6
    SniffLen = 3
    Chunk = 2
    MaxInt64 = 8
    MaxNumber = 9
    Lengths <- MCLengths
    Caps <- MCCaps
    Numbers <- MCNumbers
    Sizes <- MCLengths
INVARIANT
    OutcomeAsDocumented
CHECK_DEADLOCK FALSE
