SPECIFICATION Spec
CONSTANTS
    N = 3
    Data <- ThreeBytes
    Scripts <- EmptyCalls
    PipeCap = 1
    Mortal = {}
INVARIANTS
    GroupSync
CHECK_DEADLOCK FALSE
