SPECIFICATION Spec
CONSTANTS
    a = a
    b = b
    c = c
    d = d
    p1 = p1
    p2 = p2
    p3 = p3
    g1 = g1
    g2 = g2
    NoGpu = NoGpu
    NoProc = NoProc
    NoRole = NoRole
    Free = Free
    Sweeper = Sweeper
    Role = {a, b, c, d}
    Gpu = {g1, g2}
    Proc = {p1, p2}
    LoadedMb <- UnitMb
    SumMb <- UnitSum
    Budget <- SplitBudget
    GpuOf <- TwoCards
    Implies <- SplitImplies
    EvictOn <- SplitEvict
    Enabled = {a, b, c, d}
    HasIdle = {b}
    Pinnable = {b}
    Faults = {"restart", "extstop", "startfail", "healthfail", "stopfail"}
SYMMETRY Clients
INVARIANTS
    LedgerTracksDocker
    TicketsOwned
    IdleClockSet
PROPERTIES
    PinnedNotStopped
    Refines
