SPECIFICATION Spec
CONSTANTS
    Procs = {p1, p2, p3}
    Nobody = Nobody
    Faults <- FaultKinds
    Budget = 5
SYMMETRY Symmetry
INVARIANTS
    TypeOK
    Exclusive
    StopHolds
    ConfigInForce
CHECK_DEADLOCK FALSE
