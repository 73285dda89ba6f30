CONSTANTS
    Meta = 4
    REMAIN = 4
    MAX_SIZE = 24
    Requests = {0, 4, 7, 12, 18, 25}
    Unsigned = FALSE
    HeapLimit = 48
SPECIFICATION Spec
INVARIANTS
    Tiling
    OwnedIntact
PROPERTIES
    ImplementsAllocator
