SPECIFICATION Spec
CONSTANTS
    HdrSize = 1
    AddrMax = 8
    MemMap <- MCMemMap
    Sizes = {0, 1, 2}
    Data = {d1, d2}
    Junk = junk
SYMMETRY MCSymmetry
INVARIANTS
    TypeOK
    HeapWellFormed
PROPERTIES
    NeverRecycled
    AllocatorContract
CHECK_DEADLOCK FALSE
