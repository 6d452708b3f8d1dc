SPECIFICATION Spec
CONSTANTS
    Devices = {0, 1, 12}
    Faults = {0, 6, 13, 14}
    MaxBytes = 3
INVARIANTS
    TypeOK
    NeverResets
    BytesInOrder
    NothingInService
PROPERTIES
    DevicesAbove32
    KeysServed
CHECK_DEADLOCK FALSE
