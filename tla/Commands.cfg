CONSTANTS
    Setups <- TriedSetups
    NoTable = NoTable
    Names = {1, 2}
    None = None
    NumPlans = 3
    Datanodes = {a, b}
    HotPartitions <- HotPartitionsTried
    Shares <- SharesTried
    PeriodMin = 2
    PeriodMaxs <- PeriodMaxsTried
    TimeRangeMin = 1
    TimeRangeMaxs <- TimeRangeMaxsTried
    Texts <- TextsTried
    ColumnNames = {"a", "b", "AND"}
    Literals <- LiteralsTried
    Written <- WrittenTried
    Refused = Refused
    Durations <- DurationsTried
    Defaults <- DefaultsTried
    Absent = Absent
    Malformed = Malformed
    Protocols <- AllProtocols
    Batches <- SmallBatches
    MaxTimestamp = 8
    MaxSeries = 3
    MaxSpan = 5
    MaxInterval = 2
    Bases = {"up", "job"}
    Captured <- TwoSeries
    Flags <- TriedFlags
    MaxTicks = 2
    Traffics <- SomeTraffics
    PhysicalCount = 2
    SampleCount = 1
    Jobs = {j1, j2}
    j1 = j1
    j2 = j2
SPECIFICATION Spec
INVARIANTS
    FlagsWin
    EveryTableAccounted
    RightPredicate
    ParsedMeansText
    HotterInBoth
    DeliveredOrReported
    ReceivedPrefix
    EachSampleOnce
    EveryFailureReported
    CapturedWhole
    SchemaInOrder
CHECK_DEADLOCK FALSE
