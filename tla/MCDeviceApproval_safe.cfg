SPECIFICATION Spec
CONSTANTS
    q1 = q1
    q2 = q2
    d1 = d1
    d2 = d2
    d3 = d3
    c1 = c1
    c2 = c2
    h1 = h1
    Nobody = Nobody
    Requests <- TwoRequests
    Devices <- AllDevices
    Calls <- TwoCalls
    MaxPending = 1
    Hooks <- OneHook
    DeviceOf <- OnD1
    MaxFails = 1
INVARIANTS
    OneDecision
    RowMatchesDecision
    FactorNeedsApproval
CONSTRAINT RetryOrRivals
SYMMETRY CallSymmetry
CHECK_DEADLOCK FALSE
