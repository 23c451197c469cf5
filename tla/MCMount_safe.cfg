SPECIFICATION MountSpec
CONSTANTS
    root = root
    docs = docs
    nested = nested
    f = f
    g = g
    a = a
    b = b
    FolderIds = {root, docs}
    Root = root
    FileIds = {f, g}
    Names = {a, b}
    SuffixOf <- Cut
    Vault <- Bare
    None = None
    MaxIno = 3
    MaxBuilt = 2
    MaxOpen = 1
    MaxRefreshes = 1
    MaxMishaps = 1
    Handles = {h1, h2}
    MaxUploads = 4
    MaxEdits = 1
    MaxVersions = 2
    MaxFileMishaps = 1
CHECK_DEADLOCK FALSE
INVARIANTS DeletedStays LocalReachesVault ReadsLatest KeptReadable
CONSTRAINT Unhurried
SYMMETRY Alike
