SPECIFICATION FairSpec
CONSTANTS
    N = 5
    Data <- Bytes
    Scripts <- Programs
    PipeCap = 1
    Mortal = {3}
INVARIANTS
    TypeOK
    GroupSync
    ReadsAligned
    NothingLeftBehind
    DataArrives
    PacketsInOrder
    CallsInStep
    LossesExplained
    DataExact
PROPERTIES
    Synchronises
    CallsReturn
CHECK_DEADLOCK FALSE
