SPECIFICATION Spec
CONSTANTS
    a = a
    b = b
    c = c
    d = d
    p1 = p1
    p2 = p2
    p3 = p3
    g1 = g1
    g2 = g2
    NoGpu = NoGpu
    NoProc = NoProc
    NoRole = NoRole
    Free = Free
    Sweeper = Sweeper
    Role = {a, b}
    Gpu = {g1}
    Proc = {p1, p2}
    LoadedMb <- UnitMb
    SumMb <- UnitSum
    Budget <- LiveBudget
    GpuOf <- OneCard
    Implies <- NoRoles
    EvictOn <- NoRoles
    Enabled = {a, b}
    HasIdle = {a, b}
    Pinnable = {}
    Faults = {"extstop"}
PROPERTIES
    GrantedServes
