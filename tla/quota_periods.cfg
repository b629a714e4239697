SPECIFICATION Spec
CONSTANTS
    t1 = t1
    t2 = t2
    u1 = u1
    u2 = u2
    a = a
    b = b
    ws = ws
    Turns = {t1, t2}
    Users = {u1, u2}
    Workspace = ws
    UserOf <- SameUser
    Operations = {a, b}
    TurnOf <- EachTurn
    Estimate = 1
    FeatureMicro = 1
    Credits = {0, 2}
    Limit <- Limits
    RequestLimit = 2
    ConcurrencyLimit = 2
    MaxPeriod = 1
    MaxDispatchFailures <- Never
    MaxRecoveries <- FirstOnly
INVARIANTS
    HoldsAreBacked
    ChargedToOnePeriod
CHECK_DEADLOCK FALSE
