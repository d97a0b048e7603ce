SPECIFICATION DriverSpec
CONSTANTS
    QSize = 3
    Lba = {l1, l2}
    Data = {d1, d2}
    Devices = 2
    Functions = 2
    Machine <- MCMachine
INVARIANTS CompletionSeenOnce QueuesExistWhenUsed FailureReportedLate FirstControllerTaken
PROPERTIES ImplementsBlockDevice InitEnds
CHECK_DEADLOCK FALSE
