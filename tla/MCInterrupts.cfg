SPECIFICATION Spec
CONSTANTS
    Lines = {14}
    Exceptions = {1, 14}
    Codes = {10}
    cr2 = 170
    HighByte = 0
    MaxKeys = 2
    U64_MAX_LENGTH_DEC = 3
    U32_MAX_LENGTH_HEX = 2
INVARIANTS ContextKept OneInterruptAtATime ExceptionReported
 
CHECK_DEADLOCK FALSE
