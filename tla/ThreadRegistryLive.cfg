\* One handle for each thread: no pthread_t value is ever used twice.
CONSTANTS
    Thread = {main, a, b}
    Main = main
    Handle = {h1, h2, h3}
    Recycle = FALSE
    MaxRenames = 0
    NULL = NULL
SPECIFICATION FairSpec
INVARIANTS
    NoStaleRecord
PROPERTIES
    CallsReturn
    JoinCompletes
