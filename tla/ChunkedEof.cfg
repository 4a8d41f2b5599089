SPECIFICATION FairSpec
CONSTANTS
    N = 1
    MaxChunk = 2
    Endings = {"empty"}
    MaxEnds = 1
    MaxRead = 3
    BufLen = 4
    MaxGive = 1
PROPERTY EofReported
