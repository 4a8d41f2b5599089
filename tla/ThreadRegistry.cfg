\* pthread_t values are recycled, as glibc does: three threads beside Main,
\* three handles.
CONSTANTS
    Thread = {main, a, b, c}
    Main = main
    Handle = {h1, h2, h3}
    Recycle = TRUE
    MaxRenames = 1
    NULL = NULL
SPECIFICATION Spec
SYMMETRY Symmetry
INVARIANTS
    TypeOK
    UniqueIds
    RunningRegistered
    JoinFindsRecord
    SelfOwnOrGone
    DanglingOnlyThere
PROPERTY
    NoResurrection
