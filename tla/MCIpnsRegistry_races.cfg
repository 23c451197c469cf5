SPECIFICATION Spec
CONSTANTS
    n1 = n1
    n2 = n2
    r1 = r1
    r2 = r2
    NoRow = NoRow
    Names <- OneName
    Roots <- OneName
    Requests <- TwoReqs
    KeyPolicy = "any"
    MaxFailures = 2
    MaxPub = 2
    MaxTicks = 1
    MaxEpoch = 2
    MaxOutages = 1
    MaxCrashes = 1
    MaxDbErrors = 1
INVARIANTS
    DatabaseNotOvertaken
    AckedResolvable
PROPERTIES
    ImplementsRegister
CONSTRAINT Eventful
SYMMETRY RequestSymmetry
CHECK_DEADLOCK FALSE
