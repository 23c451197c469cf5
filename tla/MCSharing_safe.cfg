SPECIFICATION SharingSpec
CONSTANTS
\* two dialogs, five contents, two versions kept
    Editors = {e1, e2}
    Contents = {1, 2, 3, 4, 5}
    MaxVersions = 2
    MaxOps = 4
    MaxFailures = 1
\* one tab, two recipients, an item in a subfolder
    Tabs = {t1}
    Recipients = {r1, r2}
    Items = {i1}
    Deep = {i1}
    Rotates = TRUE
    MaxShares = 2
    MaxKeys = 1
    MaxShareMishaps = 1
\* two shared folders and a shared file
    FileShares = {"note"}
    Roots = {"home", "other"}
    Subfolders = {"docs", "deep", "art"}
    Above <- Tree
    WithFiles = {"deep", "home"}
    MaxBuffers = 5
    MaxReads = 1
\* two players, two names, blocks and chunks of a few bytes
    Players = {p1, p2}
    Names = {n1, n2}
    Versions = {1, 2, 3}
    Ctr = {1, 2}
    SizeOf <- Sizes
    Block = 2
    Chunk = 4
    CacheSize = 1
    MaxMediaMishaps = 2
INVARIANTS
    VersionsReadable
    VersionsKept
    Covered
    HoldersListed
    PathMatches
    RangesRight
SYMMETRY Alike
CONSTRAINT Undisturbed
\* dialogs and players may all be closed for good
CHECK_DEADLOCK FALSE
