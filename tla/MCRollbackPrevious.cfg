SPECIFICATION Spec
CONSTANTS
    Keys = {k1}
    Requests = {r1, r2, r3}
    Workers = {u1}
    NoKey = NoKey
    MaxHistoryPerWorkload = 5
    MaxSaves = 3
PROPERTY RollbackRestoresPrevious
