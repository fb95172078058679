SPECIFICATION Spec
CONSTANTS
    Limit = 11
    First = 2
    Blocks = {0, 1, 2, 5, 9, 12}
INVARIANT CopyFits
PROPERTY GrowthEnds
