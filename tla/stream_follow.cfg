SPECIFICATION FairSpec
CONSTANTS
    End = 3
    QueueMax = 2
    SendMax = 4
    MaxDrops = 1
    MaxOutages = 1
    MaxSilent = 1
    MaxDbErrors = 1
INVARIANTS
    TypeOK
    NoSilentGap
    InOrder
PROPERTY EndIsSeen
CHECK_DEADLOCK FALSE
