SPECIFICATION ServicesSpec
CONSTANTS
    Deliverers = {p1, p2}
    NoOne = noone
    LeaseTime = 3
    Backoff = 2
    Skew = 1
    MaxAttempts = 2
    MaxCrashes = 1
    MaxTouches = 1
    MaxClaims = 4
    w1 = w1
    w2 = w2
    r1 = r1
    alice = alice
    Workers = {w1, w2}
    Runs = {r1}
    RunOf <- MCRunOf
    ActorOf <- MCActorOf
    ProviderLimit = 2
    ActorLimit = 2
    Prompt = 1
    Output = 1
    MaxTokens = 4
    MaxRequests = 2
    MaxRetries = 1
    Tries = 2
    Excess = 1
    MaxFaults = 1
INVARIANTS BudgetHolds SlotPerRequest
PROPERTIES DeliveredOnce Settles CallsReturn
CHECK_DEADLOCK FALSE
