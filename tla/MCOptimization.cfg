SPECIFICATION Spec
CONSTANTS
    Bin = 4
    Dec = 3
    Core = 10
    None = None
    Unparsable = Unparsable
    Good = Good
    MinCount = 1
    IdealCount = 4
    IdealHours = 4
    DayHours = 6
    TicksPerHour = 1
    DefaultSettings <- Defaults
    SampleInterval = 1
    PodNames <- Pods2
    Workload <- App
    Container = c
    Specs <- SpecsWhole
    Templates <- TwoTemplates
    Usages <- TwoUsages
    Horizon = 4
    MaxUpdates = 2
INVARIANTS
    TypeOK
    WithinReadings
PROPERTIES
    LimitedWhenSettled
    NoUnapprovedChange
CHECK_DEADLOCK FALSE
