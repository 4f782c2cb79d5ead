CONSTANTS
    Durations = {1, 3, 4}
    Defaults <- PeriodDefaults
    Absent = Absent
    Malformed = Malformed
SPECIFICATION ConfigSpec
INVARIANTS
    DocFlagsTakePrecedence
CHECK_DEADLOCK FALSE
