SPECIFICATION FairSpec
CONSTANTS
    N = 4
    Files <- StandardFiles
    ForkMayFail = {2, 3}
    ExecMayFail = {1}
    Mortal = {0}
INVARIANTS
    TypeOK
    NothingOverwritten
    ClosesOpenOnly
    RightEnds
    NoEarlyEof
    FinalizeReleases
    WaitsForAll
    TablesExact
PROPERTIES
    EofVisible
    JobEnds
CHECK_DEADLOCK FALSE
