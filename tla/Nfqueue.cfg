SPECIFICATION FairSpec
CONSTANTS
    Byte = 4
    MinHeader = 3
    MaxFlow = 4
    Flows <- MCFlows
    CopyMax = 4
    TtlConf = 1
    Gso = TRUE
    Maxlen = 3
    SocketMax = 2
    Faults = {"system", "send", "recv", "lost", "owned", "device", "stranger"}
    Budget = 2
INVARIANTS TypeOK Accounted NeverDamaged ReadyMeansServed BurstsSurvived
PROPERTIES EveryPacketReleased OrphanEnds
CHECK_DEADLOCK FALSE
