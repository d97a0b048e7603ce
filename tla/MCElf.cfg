SPECIFICATION Spec
CONSTANTS
    PAGE_SIZE = 4
    Program <- MCProgram
    VPages = 4
    StackPages = 2
INVARIANTS SegmentsAloneLoaded ContextComplete
CHECK_DEADLOCK FALSE
