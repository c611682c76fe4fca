SPECIFICATION Spec
CONSTANTS
    t1 = t1
    t2 = t2
    p1 = p1
    p2 = p2
    Threads = {t1, t2}
    Pools = {p1, p2}
    NumBlocks = 2
    MaxMutex = 3
    CreateInUse = FALSE
    NoThread = NoThread
SYMMETRY Symmetry
INVARIANT OneOwner
INVARIANT FreeListIntact
INVARIANT NoBlockLost
