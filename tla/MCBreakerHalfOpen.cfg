SPECIFICATION Spec
CONSTANTS
    ErrorThresholds = {2}
    SuccessThresholds = {2}
    Timeout = 2
    Never = Never
    MaxCount = 3
PROPERTIES HalfOpenFailureReopens
