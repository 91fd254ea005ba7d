SPECIFICATION Spec
CONSTANTS
    Steps <- Four
    Plans <- Twice
    Resumed <- Twice
    MaxParallel = 1
    MaxRuns = 2
    MaxTroubles <- OneTrouble
INVARIANTS WholePlan
CHECK_DEADLOCK FALSE
