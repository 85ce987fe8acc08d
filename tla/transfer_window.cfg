SPECIFICATION MCSpec
CONSTANTS
    FileCount = 5
    MaxThreads = 3
    S3ToS3 = TRUE
    S3Start = 2
    Floor = 2
    RampInterval = 2
INVARIANTS
    TypeOK
    InFlightExact
PROPERTIES
    Finishes
    ImplementsBounded
