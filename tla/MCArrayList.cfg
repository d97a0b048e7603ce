SPECIFICATION Spec
CONSTANTS
    Value = {"a", "b"}
    Junk = "junk"
    MaxSize = 9
INVARIANT HalfFull
PROPERTY ImplementsList
