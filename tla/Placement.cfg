SPECIFICATION Spec
CONSTANTS
    x = x
    y = y
    z = z
    a = a
    b = b
    NoCard = NoCard
    Role = {a, b}
    Card = {x, y, z}
    Key <- Keys
    UuidOf <- Uuids
    NamedBy <- Names
    LedgerKeys <- Ledger
    ReservedMb <- Reserved
    TotalMb <- Totals
    Selectors <- Lists
INVARIANTS
    ChargedWherePlaced
    NoAmbiguousPlacement
