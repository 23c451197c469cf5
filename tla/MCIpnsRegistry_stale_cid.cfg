SPECIFICATION Spec
CONSTANTS
    n1 = n1
    n2 = n2
    r1 = r1
    r2 = r2
    NoRow = NoRow
    Names <- OneName
    Roots <- NoRoots
    Requests <- OneReq
    KeyPolicy = "first"
    MaxFailures = 2
    MaxPub = 2
    MaxTicks = 1
    MaxEpoch = 1
    MaxOutages = 0
    MaxCrashes = 0
    MaxDbErrors = 0
INVARIANTS
    ScheduleNotOvertaken

CHECK_DEADLOCK FALSE
