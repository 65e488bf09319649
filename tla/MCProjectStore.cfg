SPECIFICATION Spec
CONSTANTS
    h1 = h1
    h2 = h2
    h3 = h3
    c1 = c1
    c2 = c2
    k1 = k1
    NoClip = NoClip
    OldSegment = OldSegment
    Handlers <- ThreeHandlers
    Clients <- OneClient
    Clips <- OneClip
    MaxCrashes = 1
CHECK_DEADLOCK FALSE
INVARIANTS
    TypeOK
    ProjectAlwaysReadable
    StoredClipsAreKnown
    ListedClipHasFile
    RevisionNamesContent
PROPERTIES
    UncontestedPutSeesCurrent
    DetectionKeepsReviewed
SYMMETRY Alike
