\* Four bytes in chunks of up to two, ended with either kind of last chunk.
SPECIFICATION FairSpec
CONSTANTS
    N = 4
    MaxChunk = 2
    Endings = {"null", "empty"}
    MaxEnds = 2
    MaxRead = 2
    BufLen = 8
    MaxGive = 8
INVARIANTS TypeOK Conserved Synchronised
PROPERTIES PipeSpec AllArrives
