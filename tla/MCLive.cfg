SPECIFICATION LiveSpec
CONSTANTS
    n1 = n1
    n2 = n2
    NoRow = NoRow
    Names = {n1, n2}
    Roots <- NoRoots
    Requests = {r1}
    KeyPolicy = "first"
    MaxFailures = 2
    MaxPub = 1
    MaxTicks = 2
    MaxEpoch = 3
    MaxOutages = 1
    MaxCrashes = 1
    MaxDbErrors = 1
    Nobody = Nobody
    Asked = {q1}
    Devices = {d1, d2}
    Calls = {c1, c2}
    MaxPending = 2
    Hooks = {h1}
    Device = d1
    MaxFails = 1
PROPERTIES
    DueRowsServed
    EpochNeverDowngraded
    WaitingEnds
CHECK_DEADLOCK FALSE
