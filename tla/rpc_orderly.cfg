SPECIFICATION FairSpec
CONSTANTS
    s1 = s1
    a1 = a1
    SyncCallers = {s1}
    AsyncCallers = {a1}
    CallBudget <- TwoSync
    MaxSync = 1
    MaxAsync = 1
    TxQSize = 2
    RxQSize = 1
    UidMod = 4
    UidStart = 2
    MaxFail = 0
    MaxLoss = 1
    MaxEvents = 0
    MaxStops = 0
    MayOom = FALSE
    TimersApart = TRUE
    MayDeinit = FALSE
INVARIANT TypeOK
 
 
 
 
 
CHECK_DEADLOCK FALSE
