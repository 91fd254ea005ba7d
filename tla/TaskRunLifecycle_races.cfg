SPECIFICATION Spec
CONSTANTS
    Workers = {w1, w2}
    Clients = {c1}
    Recoverers = {r1}
    Publisher = pub
    NoProc = noproc
    LeaseTime = 2
    QueueTime = 0
    GraceTime = 1
    Skew = 1
    MaxBeats = 0
    MaxEmits = 0
    MaxCrashes = 0
    MaxFaults = 0
INVARIANTS OneExecution CancelWins OwnTerminalToken
PROPERTIES TerminalFrozen
SYMMETRY Symmetry
CHECK_DEADLOCK FALSE
