SPECIFICATION Spec
CONSTANTS
    a = a
    b = b
    c = c
    d = d
    g1 = g1
    g2 = g2
    NoGpu = NoGpu
    NoRole = NoRole
    Role = {a, b, c, d}
    Gpu = {g1, g2}
    LoadedMb <- SizesMb
    SumMb <- Sums
    Budget <- Budgets
    GpuOf <- Cards
    Implies <- Warms
    EvictOn <- Evicts
    Enabled = {a, b, c, d}
    HasIdle = {}
INVARIANTS
    PlanFits
    RefusalJustified
    EvictionsDue
    LoopAgrees
CHECK_DEADLOCK FALSE
