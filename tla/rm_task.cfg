SPECIFICATION MCSpec
CONSTANTS
    ChildCount = 3
    BatchSize = 2
    MaxRetries = 1
    MaxUnknown = 1
    MaxThreads = 2
    StartWindow = 64
    Floor = 1
INVARIANTS
    OnlyTarget
    CountsHonest
    ExitsTrue
PROPERTY
    Finishes
