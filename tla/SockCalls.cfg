\* Two addresses, one of each family; one signal for each call.  Four
\* descriptors are one more than the two threads need if nothing leaks.
CONSTANTS
    Caller = {"a", "b"}
    Plan <- MCPlan
    Fd = {0, 1, 2, 3}
    Addresses <- MCAddresses
    Builds = {"getaddrinfo", "fallback"}
    MaxSignals = 1
    Nobody = Nobody
SPECIFICATION FairSpec
INVARIANTS
    HoldsItsOwn
    ReturnsConnected
    GivesUpOnlyThen
PROPERTY
    CallsReturn
