SPECIFICATION FairSpec
CONSTANTS
    MaxMessages = 3
    MaxFragments = 3
    MaxRecv = 2
    QueueSize = 2
    MaxLosses = 2
    MaxCloses = 1
INVARIANT SemCountsMessages
INVARIANT LossSpoilsOne
INVARIANT InOrder
PROPERTY Arrives
CHECK_DEADLOCK FALSE
