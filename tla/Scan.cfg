SPECIFICATION Spec
CONSTANTS
    reduceWorkGroupSize = 1
    scanWorkGroupSize = 1
    scanWorkScale = 2
    maxBlocks = 4
    BufferBytes <- MCBufferBytes
    Readable <- MCReadable
    Writable <- MCWritable
    Calls <- MCCalls
    ElementSize = 2
    SizeT = 256
    Uint = 16
    MaxCalls = 3
    MaxFailures = 1
INVARIANTS
    AssertionsHold
    InBounds
    ExecutionsDisjoint
    ScanResult
PROPERTIES
    CommandsComplete
CHECK_DEADLOCK FALSE
