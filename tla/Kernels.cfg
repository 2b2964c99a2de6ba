SPECIFICATION Spec
CONSTANTS
    None = None
    BlockCounts = {2, 4, 6, 8, 10, 12, 14, 16, 18}
    Sizes <- MCSizes
INVARIANTS
    ExclusiveScan
    BlockScanned
    BlockSummed
    HistogramWritten
    OffsetsWritten
    WritesCorrect
    AllWritten
