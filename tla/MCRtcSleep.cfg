SPECIFICATION Spec
CONSTANTS
    Period = 120
    Starts = {8, 56, 59, 118}
    Naps = {0, 1, 2, 5}
PROPERTY SleepReturns
CHECK_DEADLOCK FALSE
