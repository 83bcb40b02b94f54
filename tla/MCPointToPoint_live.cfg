SPECIFICATION FairSpec
CONSTANTS
    N = 2
    Calls <- MutualCalls
    PipeCap = 1
    MaxCalls <- TwoEach
    Mortal = {0}
PROPERTIES
    ReceivesWhatIsSent
    SendsReturn
    FinalizeReturns
    RecvSeesFinished
CHECK_DEADLOCK FALSE
