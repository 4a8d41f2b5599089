\* Trees of up to twelve nodes, the size at which a deletion may rotate at two
\* levels, over three keys, equal keys included.
CONSTANTS
    Key = {1, 2, 3}
    MaxLength = 12
    Misses <- Left
    OutOfMemory = FALSE
    MaxRank = 20
SPECIFICATION Spec
VIEW ShapeView
INVARIANTS
    TypeOK
    Balanced
    Linked
    Ordered
    RanksCount
    WalksInOrder
    QueriesAgree
    Spans
PROPERTY
    BagSpec
