SPECIFICATION MCSpec
CONSTANTS
    Candidates <- MCCandidates
    Passes = 2
    Results <- MCResults
    Infinite = 9
    Devices <- MCDevices
    Sizes <- MCSizes
INVARIANT ReturnsTuned
CHECK_DEADLOCK FALSE
