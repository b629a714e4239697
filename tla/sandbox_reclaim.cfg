SPECIFICATION FairSpec
CONSTANTS
    u1 = u1
    u2 = u2
    s1 = s1
    s2 = s2
    None = None
    Reconciler = Reconciler
    Runtimes = {r1, r2}
    Users = {u1}
    Sessions = {s1}
    Owner <- OneSession
    Priority <- Alone
    Tasks = {w1}
    ReadyTarget = 1
    TotalMax = 1
    HostMax = 1
    MaxVersion = 2
    MaxGen = 1
    FaultKinds = {"crash", "docker"}
    MaxFaults = 1
PROPERTIES
    UnleasedIsReclaimed
    DeadContainersGo
