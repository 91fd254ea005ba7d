SPECIFICATION FairSpec
CONSTANTS
    Creators = {c1, c2}
    Deleters = {d1}
    Recoverers = {r1}
    NoRun = norun
    UniqueIndex = FALSE
    Timeout = 1
    MaxCrashes = 1
INVARIANTS OneActiveRun
PROPERTIES DeletionFences ReservationFreed
CHECK_DEADLOCK FALSE
