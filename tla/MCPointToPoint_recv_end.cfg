SPECIFICATION FairSpec
CONSTANTS
    N = 2
    Calls <- MutualCalls
    PipeCap = 3
    MaxCalls <- OneEach
    Mortal = {}
PROPERTIES
    RecvNoticesEnd
CHECK_DEADLOCK FALSE
