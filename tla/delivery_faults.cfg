SPECIFICATION Spec
CONSTANTS
    Turns = {t1}
    Workers = {w1}
    Cancellable = {t1}
    MaxRetries = 1
    MaxGen = 4
    FaultKinds = {"crash", "database", "stall", "redis", "relay", "authorization"}
    MaxFaults = 1
    NoWorker = NoWorker
    NoTurn = NoTurn
INVARIANTS
    TypeOK
    AcceptedIsDeliverable
    RunningIsRecoverable
    OneStartPerGeneration
    CompletedByOwner
    LoggedEndIsTrue
PROPERTIES
    ResultStands
    ImplementsLifecycle
\* A relay that has died is only restarted with its worker.
CHECK_DEADLOCK FALSE
