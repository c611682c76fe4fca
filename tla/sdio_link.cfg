SPECIFICATION FairSpec
CONSTANTS
    TxMax = 3
    RxMax = 3
    NumBuffers = 2
    SendQueue = 2
    QueueSize = 1
    MaxRetries = 1
    MaxWrites = 2
INVARIANT NoOverrun
INVARIANT ReadsWhatWasLoaded
INVARIANT BuffersApart
PROPERTY LoadedIsRead
