SPECIFICATION Spec
CONSTANTS
    E = 11
    D = 2
    High = 16
    PageEntries = 32
    Volume <- MCVolume
    Name = {"a", "b", "c"}
    MaxCrash = 2
    MaxFail = 1
INVARIANTS CrashConsistent MountsTheVolume  CreatedFilesOpen 
CHECK_DEADLOCK FALSE
