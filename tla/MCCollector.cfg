SPECIFICATION Spec
CONSTANTS
    Pods = {p1, p2}
    MaxAge = 2
    GCInterval = 2
    Horizon = 8
    MaxStarts = 2
    Torn = Torn
SYMMETRY Symmetry
INVARIANTS
    TypeOK
    NothingLost
    Chronological
    AgeBounded
CHECK_DEADLOCK FALSE
