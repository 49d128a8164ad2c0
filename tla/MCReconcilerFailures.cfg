SPECIFICATION Spec
CONSTANTS
    Workloads = {w1}
    Containers = {c1}
    Specs <- AlwaysOpenSpecs
    HealthVerdicts = {FALSE}
    None = None
    MaxPasses = 3
    ErrorThreshold = 2
    SuccessThreshold = 1
    Timeout = 1
    Never = Never
INVARIANT RepeatedFailuresOpen
