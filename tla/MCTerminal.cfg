SPECIFICATION Spec
CONSTANTS
    W = 2
    H = 2
    Letter = {a, b}
    MaxLine = 4
INVARIANTS CursorOnScreen LineShown
SYMMETRY Symmetry
