SPECIFICATION SessionsSpec
CONSTANTS
    Docs = {d1, d2}
    x = x
    Requests = {c, again, x}
    again = again
    d2 = d2
    Kind <- ClearsAndDelete
    Quota = 1
    MaxGeneration = 1
    MaxCrashes = 1
    SlowTurns = FALSE
    NoDoc = NoDoc
    Clients = {c1, c2}
    Ids = {x1}
    NoId = NoId
    MaxUses = 2
    MaxAge = 1
    MaxFaults = 1
INVARIANTS QuotaHolds HistoryServed SessionsKept
PROPERTY DeadSettles
CHECK_DEADLOCK FALSE
