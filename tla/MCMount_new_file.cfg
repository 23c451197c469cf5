SPECIFICATION MountSpec
CONSTANTS
    root = root
    docs = docs
    nested = nested
    f = f
    g = g
    a = a
    b = b
    FolderIds = {root, docs}
    Root = root
    FileIds = {f, g}
    Names = {a, b}
    SuffixOf <- Cut
    Vault <- Bare
    None = None
    MaxIno = 2
    MaxBuilt = 1
    MaxOpen = 1
    MaxRefreshes = 0
    MaxMishaps = 0
    Handles = {h1}
    MaxUploads = 3
    MaxEdits = 1
    MaxVersions = 2
    MaxFileMishaps = 0
CHECK_DEADLOCK FALSE
INVARIANT ReleasedIsPublished
