SPECIFICATION Spec
CONSTANTS
    Processes = {"p1", "p2"}
    Threads = {"t1", "t2", "t3"}
    Programs <- MCPrograms
    makeKey <- MCmakeKey
    Candidates <- MCCandidates
    Compilable <- MCCompilable
    None = None
INVARIANTS
    TypeOK
    RowsValid
    ObjectsMatch
    Cached
PROPERTY
    ConstructorsEnd
CHECK_DEADLOCK FALSE
