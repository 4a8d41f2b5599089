\* Request line and two header lines; arrays that grow by two.
CONSTANTS
    Requests <- MCRequests
    Responses <- MCResponses
    Bodies <- MCBodies
    Defaults <- MCDefaults
    Settings <- MCSettings
    Params <- MCParams
    LowerOf <- MCLowerOf
    MAX_HEADERS = 3
    Grow = 2
    MaxCalls = 3
    MaxRefs = 2
SPECIFICATION Spec
INVARIANTS
    TypeOK
    KeysListed
    LeaksOnlyThere
    RequestAgrees
PROPERTIES
    FailedParseKeeps
    ParamsDecode
CHECK_DEADLOCK FALSE
