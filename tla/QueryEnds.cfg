CONSTANTS
    p1 = p1
    p2 = p2
    r1 = r1
    r2 = r2
    dA = dA
    dB = dB
    NoDatanode = NoDatanode
    Datanodes = {dA, dB}
    CounterSize = 16
    Plans = {p1, p2}
    Regions = {r1, r2}
    RegionOf <- SharedRegion
    RegionOrder <- FirstThenSecond
    Settings <- EndingSettings
    MaxTicks = 1
SPECIFICATION FairLoadSpec
PROPERTIES
    LoadEnds
CHECK_DEADLOCK FALSE
