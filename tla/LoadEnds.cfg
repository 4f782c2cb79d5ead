CONSTANTS
    w1 = w1
    w2 = w2
    Workers = {w1, w2}
    SeriesPerWave = 3
    MaxSamples = 2
    Modes <- EndingModes
    Rejections = {}
    MaxWaves = 2
    MaxEpoch = 0
SPECIFICATION FairSpec
PROPERTIES
    Exits
    ContractSpec
CHECK_DEADLOCK FALSE
