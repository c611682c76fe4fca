SPECIFICATION FairSpec
CONSTANTS
    s1 = s1
    a1 = a1
    SyncCallers = {s1}
    AsyncCallers = {a1}
    CallBudget <- TwoSync
    MaxSync = 1
    MaxAsync = 1
    TxQSize = 1
    RxQSize = 1
    UidMod = 4
    UidStart = 2
    MaxFail = 1
    MaxLoss = 0
    MaxEvents = 0
    MaxStops = 0
    MayOom = FALSE
    TimersApart = TRUE
    MayDeinit = FALSE
PROPERTY AsyncAcknowledged
CHECK_DEADLOCK FALSE
