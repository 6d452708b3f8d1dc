SPECIFICATION Spec
CONSTANTS
    Buses = 2
    Devices = 2
    Functions = 2
    Spaces <- MCSpaces
    Firmwares <- MCFirmwares
    Block = 4
    MaxHeaders = 4
    Archives <- MCArchives
    Wanted <- MCWanted
    Loaders <- MCLoaders
    Usual <- MCUsual
    NameSize = 64
    Roomy <- MCRoomy
    NULL = NULL
INVARIANTS
    TypeOK
    StopsForCause
    DriverHasMemory
    ScanIsComplete
    HeadersAreMembers
PROPERTIES
    BootEnds
    RamfsReturns
CHECK_DEADLOCK FALSE
