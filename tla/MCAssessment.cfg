SPECIFICATION Spec
CONSTANTS
    None = None
    Unparsable = Unparsable
    Fails = Fails
    Infinite = Infinite
    Unset = Unset
    Broken = Broken
    Bin = 4
    Dec = 3
    Core = 4
    TicksPerHour = 2
    Boosts <- BoostSteps
    CPUCost = 336
    MemoryCost = 45
    MinSamples = 4
    MovingAverageWindow = 3
    Multiple = 6
    ConsensusThreshold = 2
    KillHistories <- KillHistories2
    Watched <- App
    PolicyCases <- PolicyCases3
    Workloads <- Workloads64
    HealthCases <- HealthCases7
    Today = 10
    Series <- Series10
    Disruptions <- Disruptions3
INVARIANTS
    KillsRemembered PolicyDecides ChoicesAreBest BreachesAreBacked OutliersAreFew
    UnitsDoNotMatter BudgetIsAllowed
