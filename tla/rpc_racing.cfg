SPECIFICATION Spec
CONSTANTS
    s1 = s1
    s2 = s2
    SyncCallers = {s1, s2}
    AsyncCallers = {}
    CallBudget <- OneEach
    MaxSync = 1
    MaxAsync = 1
    TxQSize = 1
    RxQSize = 1
    UidMod = 4
    UidStart = 2
    MaxFail = 1
    MaxLoss = 0
    MaxEvents = 1
    MaxStops = 1
    MayOom = TRUE
    TimersApart = FALSE
    MayDeinit = TRUE
SYMMETRY SyncAlike
INVARIANT UidsTellApart
INVARIANT TxWakeups
INVARIANT WokenFindsResponse
INVARIANT SyncSlotsOwned
CHECK_DEADLOCK FALSE
