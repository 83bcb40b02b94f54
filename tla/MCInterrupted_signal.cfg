SPECIFICATION InterruptedSpec
CONSTANTS
    N = 2
    Calls <- MutualCalls
    PipeCap = 1
    MaxCalls <- OneEach
    Mortal = {}
    Interruptible = {1}
INVARIANTS
    RemoteFinishedMeansGone
CHECK_DEADLOCK FALSE
