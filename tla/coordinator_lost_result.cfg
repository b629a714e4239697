SPECIFICATION Spec
CONSTANTS
    w1 = w1
    w2 = w2
    None = None
    Workers = {w1}
    Turns = {t1}
    Join <- BothJoined
    WaitMode <- WaitForAll
    Quorum <- WaitForOne
    QueueMax = 1
    Slots = 1
    MaxAttempts = 1
    MaxFailures = 0
INVARIANTS
    OneTerminalResult
CHECK_DEADLOCK FALSE
