SPECIFICATION Spec
CONSTANTS
    x = x
    y = y
    Names = {x, y}
    Contents = {"c"}
    MaxFiles = 3
    MaxDepth = 3
INVARIANTS
    TreeWellFormed
    PathsUnique
SYMMETRY Symmetry
