SPECIFICATION Spec
CONSTANTS
    Writer = writer  Boot = boot  net = net  bt = bt
    Senders = {net}
    SenderPrio <- PrioOf
    PktBudget = 1  MaxMsgs = 2  MsgSizes = {1, 2}
    FragMax = 1  BufSize = 3
    TxQSize = 2  RxQSize = 1  ReqQSize = 1
    MaxDrop = 1  MaxOom = 1  MaxEvents = 1  Tearing = TRUE
INVARIANT TypeOK
INVARIANT WakeupsFindPackets
INVARIANT NoOverrun
INVARIANT OneOwnerOfR
INVARIANT FragmentsLive
INVARIANT RequestsInOrder
INVARIANT SettledMeansArrived
