CONSTANTS
    MaxChunks = 4
    Env = {"slowReader", "slowFirst", "stalledRefusal"}
CHECK_DEADLOCK FALSE
SPECIFICATION FairSpec
INVARIANTS EndsOnce NobodyForgotten
PROPERTY HoldEnds
