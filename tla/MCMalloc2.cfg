CONSTANTS
    Meta = 2
    MAX_SIZE = 6
    Requests = {0, 1, 3, 6, 7}
    HeapLimit = 21
SPECIFICATION Spec
INVARIANTS
    InUseIsOwned
PROPERTIES
    ImplementsAllocator
