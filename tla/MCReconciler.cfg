SPECIFICATION FairSpec
CONSTANTS
    Workloads = {w1}
    Containers = {c1, c2}
    Specs <- MCSpecs
    HealthVerdicts = {TRUE, FALSE}
    None = None
    MaxPasses = 2
    ErrorThreshold = 1
    SuccessThreshold = 1
    Timeout = 1
    Never = Never
INVARIANTS TypeOK UpdatesAreGated TightBudgetSpared HPASkipHonoured PhaseTellsCircuit
PROPERTY PassTerminates
