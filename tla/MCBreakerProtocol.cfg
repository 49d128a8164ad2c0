SPECIFICATION FairSpec
CONSTANTS
    ErrorThresholds = {0, 1}
    SuccessThresholds = {0, 1}
    Timeout = 4
    Never = Never
    MaxCount = 5
INVARIANTS TypeOK OpenMeansIdle ProbesCounted
PROPERTIES OpensOnStreak KeepsContract OpenIsProbed
