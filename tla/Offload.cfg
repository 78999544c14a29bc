SPECIFICATION Spec
CONSTANTS
    Values = {v0, v1, null}
    Ours = v1
    Odd = odd
    Absent = absent
    Torn = torn
    Faulty <- AllButUnlink
    Users = {"unowned", "anytime"}
    Budget = 4
INVARIANTS
    TypeOK
    Recoverable
    OwnersChoice
PROPERTIES
    ImplementsLoan
