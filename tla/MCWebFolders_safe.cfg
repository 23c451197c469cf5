SPECIFICATION Spec
CONSTANTS
    t1 = t1
    t2 = t2
    root = root
    a = a
    b = b
    x = x
    n1 = n1
    n2 = n2
    Tabs <- OneTab
    Folders <- RootAndTwo
    Root = root
    Files <- OneFile
    Names <- TwoNames
    MaxDepth = 4
    Careful = TRUE
    MaxSeq = 2
    MaxFailures = 1
    MaxLostAnswers = 0
    MaxCloses = 1
INVARIANTS
    NumbersNotAhead
    NothingLost
    ShownIsSaved
PROPERTIES
    OnlyDeletesUnlist
SYMMETRY TreeSymmetry
CHECK_DEADLOCK FALSE
