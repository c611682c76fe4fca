SPECIFICATION FairSpec
CONSTANTS
    NumBuffers = 4
    High = 2
    Low = 2
PROPERTY ThrottlingStops
CHECK_DEADLOCK FALSE
