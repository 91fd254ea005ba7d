SPECIFICATION FairSpec
CONSTANTS
    Workers = {w1}
    Clients = {}
    Recoverers = {r1}
    Publisher = pub
    NoProc = noproc
    LeaseTime = 1
    QueueTime = 1
    GraceTime = 1
    Skew = 1
    MaxBeats = 1
    MaxEmits = 1
    MaxCrashes = 1
    MaxFaults = 1
INVARIANTS RecoveryJustified
PROPERTIES LogRefined RunSettles
CHECK_DEADLOCK FALSE
