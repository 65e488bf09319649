SPECIFICATION Spec
CONSTANTS
    nudity = nudity
    gore = gore
    child = child
    adult = adult
    None = None
    NumScenes = 3
    Ids <- SceneAndFillerIds
    Topics <- TwoTopics
    Profiles <- TwoProfiles
    Fillers <- ThreeSceneFillers
    DefaultKeys <- BothKeys
    Options <- AnyOptions
    Viewers <- AllViewers
    Authored <- TwoAuthored
    Filters <- AllFilters
INVARIANTS
    AvoidedTopicNeverPlays
    FilteredLabelNeverPlays
    SwapShowsOwnFiller
    InnocentScenesPlay
    RuntimesAgree
CHECK_DEADLOCK FALSE
