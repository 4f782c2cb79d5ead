CONSTANTS
    c1 = c1
    c2 = c2
    Configs = {c1, c2}
    SeriesCount <- ThreeAndTwo
    MaxSamples = 2
    Workers = 1
    HasDeadline = TRUE
SPECIFICATION FairSpec
INVARIANTS
    IInv
    OrderedOnce
    GeneratorsQuiescent
    ForwardersGone
PROPERTIES
    ContractSpec
    Completes
CHECK_DEADLOCK FALSE
