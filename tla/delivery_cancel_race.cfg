SPECIFICATION Spec
CONSTANTS
    Turns = {t1}
    Workers = {w1}
    Cancellable = {t1}
    MaxRetries = 1
    MaxGen = 4
    FaultKinds = {}
    MaxFaults = 0
    NoWorker = NoWorker
    NoTurn = NoTurn
INVARIANT SettledTurnIsLogged
