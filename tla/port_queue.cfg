SPECIFICATION FairSpec
CONSTANTS
    s1 = s1
    s2 = s2
    r1 = r1
    x = x
    y = y
    Senders = {s1, s2}
    Receivers = {r1}
    Items = {x, y}
    capacity = 2
    ResetInUse = FALSE
    NoItem = NoItem
    NoThread = NoThread
INVARIANT SemCountsItems
PROPERTY IsFifo
PROPERTY RoomAgain
