SPECIFICATION FairSpec
CONSTANTS
    Sigs = {s1, s2}
    NoLinks = NoLinks
    Workers = 3
    Capacities = {1, 3}
    Nfqueue = TRUE
    Filter6 = TRUE
    MaxFailures = 2
    FailureCap = 2
    Faults <- FaultKinds
    Budget = 4
INVARIANTS
    TypeOK
    SteersToOwnWorkers
    PhaseTruth
PROPERTIES
    StopEnds
    SelfHeals
