SPECIFICATION Spec
CONSTANTS
    s1 = s1
    s2 = s2
    SyncCallers = {s1, s2}
    AsyncCallers = {}
    CallBudget <- OneEach
    MaxSync = 2
    MaxAsync = 1
    TxQSize = 2
    RxQSize = 3
    UidMod = 4
    UidStart = 0
    MaxFail = 0
    MaxLoss = 0
    MaxEvents = 0
    MaxStops = 0
    MayOom = FALSE
    TimersApart = TRUE
    MayDeinit = FALSE
INVARIANT OwnResponse
CHECK_DEADLOCK FALSE
