SPECIFICATION FairSpec
CONSTANTS
    Keys = {k1}
    Workers = {u1, u2}
    MaxRetries = 1
    Absent = Absent
    NoKey = NoKey
    MaxGen = 2
    MaxPending = 2
    MaxCrashes = 1
INVARIANTS TypeOK OneWorkerPerKey NeverForgotten
PROPERTIES ObservedIsCurrent EverySpecObserved DeletedIsLetGo
