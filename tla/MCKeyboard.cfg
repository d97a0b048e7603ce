SPECIFICATION Spec
CONSTANTS
    Letter = {"m"}
    Shifted <- MCShifted
    Halting = "m"
    Capacity = 1
    Word = 32
    MaxTyped = 3
    MaxBehind = 2
    MaxBuffer = 3
INVARIANTS RecordingIsTyped ReadReturnsLine
PROPERTIES HeapNotReentered ReadReturns
CHECK_DEADLOCK FALSE
