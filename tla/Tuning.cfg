SPECIFICATION MCSpec
CONSTANTS
    Candidates <- MCCandidates
    Passes = 2
    Results <- MCResults
    Infinite = 9
    Devices <- MCDevices
    Sizes <- MCSizes
INVARIANTS
    ReturnsFirstGood
    FailsOnlyIfAllFail
    BlocksAligned
    CanTune
CHECK_DEADLOCK FALSE
