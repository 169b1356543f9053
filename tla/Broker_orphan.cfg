SPECIFICATION Spec
CONSTANTS
    a = a
    b = b
    c = c
    d = d
    p1 = p1
    p2 = p2
    p3 = p3
    g1 = g1
    g2 = g2
    NoGpu = NoGpu
    NoProc = NoProc
    NoRole = NoRole
    Free = Free
    Sweeper = Sweeper
    Role = {a, b, c}
    Gpu = {g1}
    Proc = {p1, p2}
    LoadedMb <- BrokenMb
    SumMb <- BrokenSum
    Budget <- BrokenBudget
    GpuOf <- BrokenCards
    Implies <- SplitImplies
    EvictOn <- NoRoles
    Enabled = {a, b, c}
    HasIdle = {a, b, c}
    Pinnable = {}
    Faults = {}
INVARIANTS
    TicketsOwned
