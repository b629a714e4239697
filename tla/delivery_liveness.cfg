SPECIFICATION FairSpec
CONSTANTS
    Turns = {t1}
    Workers = {w1, w2}
    Cancellable = {}
    MaxRetries = 2
    MaxGen = 5
    FaultKinds = {"crash", "stall", "redis"}
    MaxFaults = 1
    NoWorker = NoWorker
    NoTurn = NoTurn
INVARIANT SettledTurnIsLogged
PROPERTIES
    EveryTurnEnds
    StreamDrains
