SPECIFICATION FairSpec
CONSTANTS
    N = 2
    MaxChunk = 1
    Endings = {"null"}
    MaxEnds = 1
    MaxRead = 3
    BufLen = 20
    MaxGive = 20
PROPERTY BodyDelivered
