SPECIFICATION Spec
CONSTANTS
    Jobs = {j1}
    MaxChunks = 2
    MaxRetries = 1
    MaxErrors = 0
    NumThreads = 2
    MinWindow = 1
    CopyLimit = 1
    MaxPut = 1
    MaxParts = 2
    PageSize = 1
    MaxFaults = 2
INVARIANTS
    HashesHonest
    NoLiveAbort
    RetriedAtExit
    SuccessMeansContent
    LeftoversClean
PROPERTY
    Ends
