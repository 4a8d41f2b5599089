\* Three threads and one slot, which is used again and again (slots share
\* nothing but the mutex); lists of up to two lines, which four overfill.
CONSTANTS
    Id = {0}
    Thread = {t1, t2, t3}
    KeepCounts = {0, 1, 2}
    NullNames = TRUE
    MaxLines = 4
SPECIFICATION Spec
SYMMETRY Symmetry
INVARIANTS
    TypeOK
    KeptAreLast
    UndefinedOnlyThere
    OpenersApart
