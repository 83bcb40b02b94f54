SPECIFICATION Spec
CONSTANTS
    N = 3
    Calls <- TrioCalls
    PipeCap = 1
    MaxCalls <- ReceiverTwoSendersOne
    Mortal = {}
INVARIANTS
    AddedMeansMatch
PROPERTIES
    DeliversInOrder
CHECK_DEADLOCK FALSE
