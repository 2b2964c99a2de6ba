SPECIFICATION KernelSpec
CONSTANTS
    Blocks = 2
    WGS = 2
    Uint = 16
    OutCells = {"out"}
    Requests <- MCWideRequests
    MaxLaunches = 1
INVARIANTS
    ResultCorrect
CHECK_DEADLOCK FALSE
