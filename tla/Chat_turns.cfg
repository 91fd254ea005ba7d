SPECIFICATION ChatSpec
CONSTANTS
    MaxConsumers = 2
    QueueSize = 1
    MaxTurns = 2
    MaxEvents = 2
    Turn <- MCTurn
    Child <- MCChild
    Batches <- MCBatches
    Slots = 2
    MaxRounds = 2
    MaxFaults = 2
    Users = {u1, u2}
    Servers = {s1}
    MaxConnections = 3
INVARIANTS InOrder TurnHeld StopHonored ProtocolClosed ConnectionsHeld
PROPERTIES TurnEnds QuestionsHold LoopEnds
CHECK_DEADLOCK FALSE
