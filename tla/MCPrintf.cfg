SPECIFICATION Spec
CONSTANTS
    IntegerBuffer = 32
    MaxBuffer = 2147483647
    Calls <- MCCalls
INVARIANTS
    PrintsTheMeaning
    ArrayHoldsThePrefix
    CutsAreSeen
CHECK_DEADLOCK FALSE
