SPECIFICATION Spec
CONSTANTS
    N = 2
    Calls <- PairCalls
    PipeCap = 2
    MaxCalls <- ThreeEach
    Mortal = {0}
INVARIANTS
    TypeOK
    Handshake
    AddedMeansMatch
    NoLostMessageWakeup
    FinishedMeansDrained
    ReadersStopLast
    Framing
PROPERTIES
    DeliversInOrder
CHECK_DEADLOCK FALSE
