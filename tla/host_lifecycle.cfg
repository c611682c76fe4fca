SPECIFICATION FairSpec
CONSTANTS
    QueueSize = 2
    MaxRetry = 3
    ResetEvery = 2
    MayFail = {"event", "bus", "queue", "tasks", "memory"}
    Habits = {}
    MaxReboots = 1
INVARIANT TasksHaveWhatTheyUse
INVARIANT DownIsReleased
PROPERTY CallsReturn
PROPERTY UpBecomesReady
