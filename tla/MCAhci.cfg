SPECIFICATION Spec
CONSTANTS
    Ports = 2
    MaxPorts = 2
    SpinLimit = 2
    Garbage = {0, 1, 255}
    Bases = {0, 1043576, 1048576}
    Word = 1048576
    None = None
INVARIANTS
    TypeOK
    FetchesTheRead
    SuccessHasTheSector
    OnlyDisksTouched
    MemoryApart
PROPERTIES
    BasesChangeWhenOff
    IssuesWhenReady
    NoLateTransfer
    InitEnds
CHECK_DEADLOCK FALSE
