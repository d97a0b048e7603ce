SPECIFICATION MemorySpec
CONSTANTS
    N = 5
    Addr <- MCAddr
    TWO_GB = 6
    PAGE_SIZE = 16
    NODE = 2
    MemoryMap <- MCMemoryMap
INVARIANTS FramesAscend DataKept FreeListsSound
PROPERTY ImplementsFrameAllocator
CHECK_DEADLOCK FALSE
