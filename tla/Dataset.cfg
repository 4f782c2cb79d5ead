CONSTANTS
    r1 = r1
    r2 = r2
    None = None
    Torn = Torn
    Runs = {r1, r2}
    Datasets <- AllDatasets
SPECIFICATION Spec
INVARIANTS
    VerifiesOncePublished
    AcceptedIsWhole
    SeriesCounted
    EditsDetected
PROPERTIES
    AcceptedForGood
CHECK_DEADLOCK FALSE
