SPECIFICATION Spec
CONSTANTS
    Period = 120
    Starts = {8, 56, 59, 118}
    Naps = {0, 1, 2, 5}
INVARIANTS
    TypeOK
    WaitsForTicks
PROPERTIES
    TimeIsExact
    EndsWithinTheMinute
CHECK_DEADLOCK FALSE
