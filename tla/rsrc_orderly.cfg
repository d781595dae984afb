SPECIFICATION FairSpec
CONSTANTS
    u1 = u1
    u2 = u2
    u3 = u3
    p1 = p1
    p2 = p2
    p3 = p3
    None = None
    Users <- Three
    Procs <- TwoProcs
    Proc <- OneOfTwo
    SlotQty = 3
    IdQty = 3
    InIds <- OneId
    OutIds <- OneId
    InQty = 1
    OutQty = 1
    OutCaps <- Normal1
    Requests <- Paired
    Overlap = FALSE
    Patient = TRUE
    Repeat = FALSE
    InCallback = FALSE
    Deaths <- Holding
    MaxDeaths = 1
INVARIANT ListSound
INVARIANT HandlerHasEntry
INVARIANT DevicesAsTold
INVARIANT DevicesRecoverable
CHECK_DEADLOCK FALSE
PROPERTY HeadServed
PROPERTY LockReleased
