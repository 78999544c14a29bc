SPECIFICATION Spec
CONSTANTS
    Procs = {p1, p2, p3}
    Nobody = Nobody
    Faults <- Nothing
    Budget = 4
SYMMETRY Symmetry
INVARIANTS
    StartLifts
CHECK_DEADLOCK FALSE
