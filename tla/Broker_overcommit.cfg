SPECIFICATION Spec
CONSTANTS
    a = a
    b = b
    c = c
    d = d
    p1 = p1
    p2 = p2
    p3 = p3
    g1 = g1
    g2 = g2
    NoGpu = NoGpu
    NoProc = NoProc
    NoRole = NoRole
    Free = Free
    Sweeper = Sweeper
    Role = {a, b, c, d}
    Gpu = {g1}
    Proc = {p1, p2}
    LoadedMb <- YamlMb
    SumMb <- YamlSum
    Budget <- SashaBudget
    GpuOf <- OneCard
    Implies <- SplitImplies
    EvictOn <- YamlEvict
    Enabled = {a, b, c, d}
    HasIdle = {a, b, c, d}
    Pinnable = {}
    Faults = {}
SYMMETRY Clients
INVARIANTS
    BudgetRespected
