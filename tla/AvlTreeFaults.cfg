\* Failed insertions and deletions of absent keys of either kind.
CONSTANTS
    Key = {1, 2, 3}
    MaxLength = 4
    Misses <- LeftAndRight
    OutOfMemory = TRUE
    MaxRank = 4
SPECIFICATION Spec
VIEW ShapeView
INVARIANTS
    WalksInOrder
PROPERTY
    BagSpec
