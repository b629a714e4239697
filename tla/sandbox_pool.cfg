SPECIFICATION Spec
CONSTANTS
    u1 = u1
    u2 = u2
    s1 = s1
    s2 = s2
    None = None
    Reconciler = Reconciler
    Runtimes = {r1, r2}
    Users = {u1, u2}
    Sessions = {s1, s2}
    Owner <- TwoUsers
    Priority <- FirstGoesFirst
    Tasks = {w1}
    ReadyTarget = 1
    TotalMax = 1
    HostMax = 1
    MaxVersion = 1
    MaxGen = 2
    FaultKinds = {"crash", "docker", "kernel", "vanish"}
    MaxFaults = 1
SYMMETRY RuntimeSymmetry
INVARIANTS
    TypeOK
    OneTenant
    HostBudget
    PoolBudget
PROPERTIES
    AcceptedIsActive
    ClaimIsUsable
