SPECIFICATION Spec
CONSTANTS
    Families = {"v4", "v6"}
    Pairs = {p1}
    Chains = {A, B}
    NoChain = NoChain
    Ttls = {64, 65}
    OwnTtl = 66
    StrayTtl = 63
    LeakMin = 2
    LeakDiv = 2
    WireMin = 2
    Lifetime = 1
    Faulty = TRUE
    MaxPackets <- MCPackets
    MaxChanges <- MCChanges
INVARIANTS
    PassNeedsTraffic
CHECK_DEADLOCK FALSE
