SPECIFICATION Spec
CONSTANTS
    IntegerBuffer = 32
    MaxBuffer = 2147483647
    Calls <- MCCalls
INVARIANT StaysInFormat
CHECK_DEADLOCK FALSE
