SPECIFICATION FairSpec
CONSTANTS
    Thread = {t1, t2, t3}
    Role = {embed, rerank}
    NoRole = NoRole
    Free = Free
    IdleLimit = 6
    Period = 2
    MaxLoad = 2
    MaxCompute = 4
INVARIANTS
    TypeOK
    KeptInUse
    OneCopy
    FreedInTime
PROPERTIES
    FreedAtLast
