SPECIFICATION FairSpec
CONSTANTS
    N = 2
    Calls <- MutualCalls
    PipeCap = 3
    MaxCalls <- OneEach
    Mortal = {}
PROPERTIES
    SendAfterFinalize
CHECK_DEADLOCK FALSE
