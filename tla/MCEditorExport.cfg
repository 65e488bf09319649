SPECIFICATION Spec
CONSTANTS
    None = None
    pride = pride
    war = war
    short = short
    long = long
    Duration = 5
    Topics <- TwoTopics
    Flags <- SomeFlags
    Interval = 2
    Pad = 2
    GapLimit = 3
    Clips <- TwoClips
    MaxEdits = 2
INVARIANTS
    SuggestionsMatchFlags
    ExportKeepsWhatIsNotCut
    TreatedContentIsGone
CHECK_DEADLOCK FALSE
