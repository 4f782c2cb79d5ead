CONSTANTS
    w1 = w1
    w2 = w2
    Workers = {w1, w2}
    SeriesPerWave = 3
    MaxSamples = 2
    Modes <- AllModes
    Rejections = {1, 5}
    MaxWaves = 2
    MaxEpoch = 2
SPECIFICATION Spec
SYMMETRY WorkerSymmetry
INVARIANTS
    NeverOverReported
    NothingLostQuietly
    RunLogAccounts
    ReportsAddUp
    EpochReported
CHECK_DEADLOCK FALSE
