SPECIFICATION Spec
CONSTANTS
    r1 = r1
    r2 = r2
    p1 = p1
    NumParts = 3
    Size <- OversizeLast
    Duration <- ThreeSeconds
    MaxBytes = 3
    AheadSeconds = 5
    Requests <- TwoRequests
    Tasks <- OneTask
    MayThrow = TRUE
    MayClear = TRUE
INVARIANTS
    CacheIsConsistent
    CacheHoldsMostRecent
PROPERTIES
    AnswerIsCachedCopy
