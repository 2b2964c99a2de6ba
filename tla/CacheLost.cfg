SPECIFICATION Spec
CONSTANTS
    Processes = {"p1", "p2"}
    Threads = {"t1", "t2", "t3"}
    Programs <- MCTwoProcesses
    makeKey <- MCmakeKey
    Candidates <- MCCandidates
    Compilable <- MCCompilable
    None = None
INVARIANT AddInserts
CHECK_DEADLOCK FALSE
