SPECIFICATION HeapSpec
CONSTANTS
    Bits = 10
    Byte = 2
    Word = 4
    PAGE_SIZE = 131
    PerPage = 16
    Request <- MCRequest
    Pages = 5
    MaxChunks = 3
INVARIANTS ChunksDisjoint 
PROPERTIES FirstFit MarksExactly
CHECK_DEADLOCK FALSE
