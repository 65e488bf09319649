SPECIFICATION Spec
CONSTANTS
    nudity = nudity
    gore = gore
    child = child
    adult = adult
    None = None
    NumScenes = 3
    Ids <- SceneAndFillerIds
    Topics <- TwoTopics
    Profiles <- TwoProfiles
    Fillers <- ThreeSceneFillers
    DefaultKeys <- BothKeys
    Options <- PartialTopicOptions
    Viewers <- AllViewers
    Authored <- NothingAuthored
    Filters <- NoFilters
INVARIANTS
    AvoidedTopicIsHidden
CHECK_DEADLOCK FALSE
