SPECIFICATION FairSpec
CONSTANTS
    Sigs = {s1, s2}
    NoLinks = NoLinks
    NRules = 2
    DelLimit = 3
    MaxJumps = 3
    Worlds <- AllWorlds
    Budget = 4
INVARIANTS
    TypeOK
    NoPartialTraffic
    SeamlessSwap
    CleanStop
PROPERTIES
    SelfHeal
    ImplementsTable
