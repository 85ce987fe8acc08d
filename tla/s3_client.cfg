SPECIFICATION ClientSpec
CONSTANTS
    MaxLen = 2
    MaxFile = 3
    MaxWrites = 1
    MaxRetries = 2
    Int64Max = 7
    MaxPut = 2
INVARIANTS
    RangeIsExact
    ReportsAreTrue
    DeletesAreConfirmed
    UploadIsThePrefix
    TransientIsRetried
