SPECIFICATION Spec
CONSTANTS
    Keys = {k1, k2}
    Requests = {r1, r2}
    Workers = {u1, u2}
    NoKey = NoKey
    MaxHistoryPerWorkload = 3
    MaxSaves = 4
SYMMETRY Symmetry
INVARIANTS TypeOK KeepsTheLatest
PROPERTY RollbackDescends
