SPECIFICATION FairSpec
\* Time is bounded and a client turns its pages once.
CHECK_DEADLOCK FALSE
CONSTANTS
    r1 = r1
    r2 = r2
    r3 = r3
    Rows <- MCRows
    Matching <- MCMatching
    Limits <- MCLimits
    Offsets <- MCOffsets
    Durations <- MCDurations
    defaultPageLimit = 1
    maxPageLimit = 2
    defaultStatsDuration = 1
    Skew = 2
    Now = 3
    MaxTime = 4
    MaxWrites = 1
    MaxFailures = 1
INVARIANTS
    TypeOK
    PagedWhole
    ShortPageIsLast
PROPERTIES
    PagingEnds
