SPECIFICATION FairSpec
CONSTANTS
    t1 = t1
    t2 = t2
    u1 = u1
    u2 = u2
    a = a
    b = b
    ws = ws
    Turns = {t1, t2}
    Users = {u1, u2}
    Workspace = ws
    UserOf <- TwoUsers
    Operations = {a, b}
    TurnOf <- EachTurn
    Estimate = 1
    FeatureMicro = 1
    Credits = {0, 2}
    Limit <- Limits
    RequestLimit = 2
    ConcurrencyLimit = 1
    MaxPeriod = 0
    MaxDispatchFailures <- Twice
    MaxRecoveries <- FirstOnly
INVARIANTS
    TypeOK
    HoldsAreBacked
    UnitsMatchActive
    ConsumedIsCharged
    OverdrawnByUsageOnly
PROPERTIES
    FirstHoldReturns
CHECK_DEADLOCK FALSE
