SPECIFICATION ScanSpec
CONSTANTS
    Duration = 10
    Films <- SmallFilms
    Speeches <- SomeSpeech
    FrameInterval = 3
    ScanInterval = 3
    DenseStep = 2
    Padding = 3
    Precision = 1
    MinPositive = 2
    Candidate = 1
    LiveThreshold = 2
    CartoonThreshold = 4
    FalconGate = 3
    VisualInterval = 3
    ReuseWithin = 1
    Unreadable = Unreadable
INVARIANTS
    LongRunIsTagged
    PositiveFrameIsTagged
    SpanEndsOnEvidence
    SwearWordIsTagged
    VisualTopicsAreExact
CHECK_DEADLOCK FALSE
