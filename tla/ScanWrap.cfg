SPECIFICATION SafeSpec
CONSTANTS
    reduceWorkGroupSize = 1
    scanWorkGroupSize = 1
    scanWorkScale = 2
    maxBlocks = 4
    BufferBytes <- MCBufferBytes
    Readable <- MCReadable
    Writable <- MCWritable
    Calls <- MCWrapCalls
    ElementSize = 2
    SizeT = 256
    Uint = 16
    MaxCalls = 1
    MaxFailures = 0
INVARIANTS
    InBounds
CHECK_DEADLOCK FALSE
