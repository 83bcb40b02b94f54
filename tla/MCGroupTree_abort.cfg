SPECIFICATION Spec
CONSTANTS
    N = 3
    Data <- ThreeBytes
    Scripts <- ThreeBarriers
    PipeCap = 1
    Mortal = {}
INVARIANTS
    NoAbort
CHECK_DEADLOCK FALSE
