SPECIFICATION Spec
CONSTANTS
    nudity = nudity
    gore = gore
    child = child
    adult = adult
    None = None
    NumScenes = 3
    Ids <- SceneAndFillerIds
    Topics <- TwoTopics
    Profiles <- TwoProfiles
    Fillers <- ThreeSceneFillers
    DefaultKeys <- BothKeys
    Options <- NoOptions
    Viewers <- AllViewers
    Authored <- OneSwappable
    Filters <- SkipFilters
INVARIANTS
    SwapShowsAnotherAsset
CHECK_DEADLOCK FALSE
