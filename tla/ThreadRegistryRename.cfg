\* Recycled pthread_t values: thread_rename reaches another thread's record.
CONSTANTS
    Thread = {main, a, b, c}
    Main = main
    Handle = {h1, h2, h3}
    Recycle = TRUE
    MaxRenames = 1
    NULL = NULL
SPECIFICATION Spec
SYMMETRY Symmetry
INVARIANT
    RenamesCurrent
