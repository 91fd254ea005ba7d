SPECIFICATION FairSpec
CONSTANTS
    Steps <- Four
    Plans <- All
    Resumed <- Twice
    MaxParallel = 2
    MaxRuns = 2
    MaxTroubles <- Troubles
INVARIANTS DependenciesFirst BooksClosed
PROPERTIES RowsFrozen RunsEnd
CHECK_DEADLOCK FALSE
