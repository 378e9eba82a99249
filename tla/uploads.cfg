CONSTANTS
    r1 = r1
    r2 = r2
    w1 = w1
    w2 = w2
    Req = {r1, r2}
    Worker = {w1, w2}
    Homes <- SameOrNot
    Nobody = Nobody
    Max = 2
    MaxId = 3
    MaxFaults = 1
SPECIFICATION FairSpec
CHECK_DEADLOCK FALSE
INVARIANTS
    FilesKept
    NothingLeftOver
    LimitUnlessOverlap
PROPERTIES
    EveryRequestEnds
