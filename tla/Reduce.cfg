SPECIFICATION Spec
CONSTANTS
    Blocks = 3
    WGS = 2
    Uint = 64
    OutCells <- MCOutCells
    Requests <- MCRequests
    MaxLaunches = 3
    Calls <- MCCalls
    ElementSize = 2
    SizeT = 16
    MaxCalls = 3
    MaxFailures = 1
INVARIANTS
    IInv
    ResultCorrect
    ExecutionsDisjoint
    HostGetsOwnResult
    AccessesInBounds
PROPERTIES
    PartialsStable
    CommandsComplete
CHECK_DEADLOCK FALSE
