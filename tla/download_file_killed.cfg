SPECIFICATION FairSpec
CONSTANTS
    Data = {a, b}
    Torn = Torn
    MaxChunks = 2
    DiffThreshold = 2
    MaxWorkers = 2
    Lag = 0
    MaxTime = 2
    LastEdit = 2
    MaxEdits = 0
    MaxMishaps = 1
INVARIANT
    InterruptedIsRedone
