SPECIFICATION Spec
CONSTANTS
    Blocks = 2
    WGS = 4
    Steps = 2
    Uint = 64
    OutCells = {"out"}
    Requests <- MCRequests
    MaxLaunches = 2
INVARIANTS
    UniformExit
PROPERTIES
    ImplementsKernel
CHECK_DEADLOCK FALSE
