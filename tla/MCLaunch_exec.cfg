SPECIFICATION Spec
CONSTANTS
    N = 2
    Files <- StandardFiles
    ForkMayFail = {}
    ExecMayFail = {1}
    Mortal = {}
INVARIANTS
    ExecFailureReported
CHECK_DEADLOCK FALSE
