SPECIFICATION FairSpec
CONSTANTS
    Data = {a, b}
    Torn = Torn
    MaxChunks = 3
    DiffThreshold = 2
    MaxWorkers = 2
    Lag = 0
    MaxTime = 2
    LastEdit = 2
    MaxEdits = 1
    MaxMishaps = 1
INVARIANTS
    TypeOK
    ReportedCurrent
PROPERTY
    Converges
