SPECIFICATION FairSpec
CONSTANTS
    w1 = w1
    w2 = w2
    None = None
    Workers = {w1, w2}
    Turns = {t1, t2}
    Join <- BothJoined
    WaitMode <- WaitForAll
    Quorum <- WaitForOne
    QueueMax = 1
    Slots = 1
    MaxAttempts = 2
    MaxFailures = 1
INVARIANTS
    TypeOK
    DeliveredOnce
    NoResultLost
    SlotsAreCounted
    LostOnlyWhenStopped
    ForegroundWaitIsNeeded
PROPERTIES
    JoinedIsAnswered
CHECK_DEADLOCK FALSE
