SPECIFICATION Spec
CONSTANTS
    HeapSize = 9
    StartingCapacity = 1
INVARIANT
    NodesFillSlabs
PROPERTY AllocatesLikeAllocator
