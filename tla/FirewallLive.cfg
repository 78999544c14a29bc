SPECIFICATION Spec
CONSTANTS
    Sigs = {s1, s2}
    NoLinks = NoLinks
    NRules = 2
    DelLimit = 3
    MaxJumps = 3
    Worlds <- DeleteFails
    Budget = 3
INVARIANTS
    InactiveBuild
