SPECIFICATION Spec
CONSTANTS
    r1 = r1
    r2 = r2
    NoEntry = NoEntry
    MaxVersion = 2
    Requests <- TwoRequests
    Layout <- NewLayouts
INVARIANTS
    TypeOK
    ManifestHitIsCurrent
    QuietRequestIsCoherent
SYMMETRY Symmetry
