SPECIFICATION FairSpec
CONSTANTS
    Wakers = {send_task, other_task}
    Faults = TRUE
    MaxAlerts = 2
INVARIANT SleepIsKnown
INVARIANT WakeupsAreTrue
PROPERTY WakeupEnds
