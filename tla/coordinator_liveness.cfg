SPECIFICATION FairSpec
CONSTANTS
    w1 = w1
    w2 = w2
    None = None
    Workers = {w1, w2}
    Turns = {t1, t2}
    Join <- OneJoined
    WaitMode <- WaitForAny
    Quorum <- WaitForOne
    QueueMax = 1
    Slots = 1
    MaxAttempts = 1
    MaxFailures = 0
PROPERTIES
    PendingIsConsumed
    EveryTurnEnds
CHECK_DEADLOCK FALSE
