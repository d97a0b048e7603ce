SPECIFICATION Spec
CONSTANTS
    V = 6
    K = 3
    MaxPages = 2
INVARIANTS AddressesAccountedFor ListWellFormed 
CHECK_DEADLOCK FALSE
