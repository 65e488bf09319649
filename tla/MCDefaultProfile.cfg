SPECIFICATION Spec
CONSTANTS
    a = a
    b = b
    f = f
    x = x
    None = None
    Ids <- MCIds
    Topics = {}
    Profiles <- MCProfiles
    FILE_HEADER_SIZE = 2
    INDEX_ENTRY_SIZE = 1
    ASSET_BLOCK_HEADER_SIZE = 1
    ManifestSize = 1
    Tolerance = 1
    Packages <- MCPackages
    Users <- MCUsers
    MaxWrites = 2
INVARIANT DefaultProfileIsUsed
CHECK_DEADLOCK FALSE
