\* Deleting an absent key that is larger than the last key compared with.
CONSTANTS
    Key = {1, 2, 3}
    MaxLength = 4
    Misses <- LeftAndRight
    OutOfMemory = FALSE
    MaxRank = 6
SPECIFICATION Spec
VIEW ShapeView
INVARIANT
    RanksCount
