SPECIFICATION FairSpec
CONSTANTS
    Leases = {1, 6, 18, 30}
    Floor = 1
    Cap = 6
    AcquireTimeout = 60
    Timeout = 2
    Join = 1
    MaxFail = 3
    MaxStray = 1
INVARIANTS
    LeaseKept
PROPERTIES
    GoneForGood
    HandleGoes
    ThreadEnds
