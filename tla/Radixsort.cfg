SPECIFICATION Spec
CONSTANTS
    Configs <- MCConfigs
    BufferBytes <- MCBufferBytes
    ReadWrite <- MCReadWrite
    KeyData <- MCKeyData
    Calls <- MCCalls
    Temporaries <- MCTemporaries
    CHAR_BIT = 6
    keySize = 1
    SizeT = 65536
    Uint = 256
    MaxCalls = 2
    MaxFailures = 1
INVARIANTS
    AssertionsHold
    InBounds
    ExecutionsDisjoint
    SortResult
    PairsSurvive
PROPERTIES
    CommandsComplete
CHECK_DEADLOCK FALSE
