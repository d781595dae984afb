SPECIFICATION Spec
CONSTANTS
    u1 = u1
    u2 = u2
    u3 = u3
    p1 = p1
    p2 = p2
    p3 = p3
    None = None
    Users <- Two
    Procs <- TwoProcs
    Proc <- Apart2
    SlotQty = 2
    IdQty = 2
    InIds <- OneId
    OutIds <- NoIds
    InQty = 1
    OutQty = 0
    OutCaps <- NoCaps
    Requests <- Record0
    Overlap = TRUE
    Patient = FALSE
    Repeat = TRUE
    InCallback = TRUE
    Deaths <- ButBoth
    MaxDeaths = 1
INVARIANT TypeOK
INVARIANT DeviceExclusive
CHECK_DEADLOCK FALSE
