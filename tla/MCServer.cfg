SPECIFICATION ServerSpec
CONSTANTS
    MaxAsked = 2
    OutCap = 1
    Threads = {1, 2}
    Acts <- ServerActs
    HasShift = TRUE
    MaxRuns = 2
CHECK_DEADLOCK FALSE
INVARIANTS SessionsSound DisplaysSound
PROPERTIES ConnectionEnds DisplayFound
