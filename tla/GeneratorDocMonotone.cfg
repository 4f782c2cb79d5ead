CONSTANTS
    Parts <- ValuesPart
    MaxFiles = 3
    MaxSeries = 2
    N = 4
    SeriesCounts <- UpToFour
    Targets <- AllTargets
    RoundsDown <- AnyRounding
    None = None
    Series = 2
    Churned = 1
    Unit = 2
    Lowers <- BelowZero
    Uppers <- NoUpper
    Steps <- SomeSteps
    MaxWaves = 6
    LastEpoch = 2
    MetricName = 10
    ChurnId = 20
    Replica = 30
    TagLists <- Lists
    Empty = 0
    MaxChurned = 3
    MaxEpoch = 1
    Directories <- SomeDirectories
    FlagValues <- SomeFlags
    TargetSeries <- SomeTargets
    Ahead = {"ahead_up"}
    LargeSeries = {"go_goroutines"}
    Huge = 99
SPECIFICATION Spec
INVARIANTS
    DocMonotone
CHECK_DEADLOCK FALSE
