SPECIFICATION FairSpec
CONSTANTS
    r1 = r1
    r2 = r2
    Ifaces = {1, 2}
    Indexes = {1, 2}
    Rates = {r1, r2}
    Configs <- Some
    None = None
    Faults <- FaultKinds
    Budget = 3
INVARIANTS
    TypeOK
    Journalled
    CleanEnd
PROPERTIES
    PreservesCustom
    Converges
