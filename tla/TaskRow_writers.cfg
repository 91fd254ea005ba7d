SPECIFICATION RowFairSpec
CONSTANTS
    Runs = {1, 2}
    Cancellers = {c1}
    Authors = {e1}
    Deleters = {d1}
    Projectors = {p1}
    NoRun = norun
    Prompt = TRUE
    MaxTroubles = 1
    MaxEdited = 1
PROPERTIES RowAgrees RowIsTrue
CHECK_DEADLOCK FALSE
