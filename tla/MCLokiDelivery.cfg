SPECIFICATION FairSpec
CONSTANTS
    a = a
    b = b
    Writers = {a, b}
    Capacity = 1
    BatchSize = 2
    MaxRetained = 3
    MaxRecords = 2
    MaxClock = 1
CHECK_DEADLOCK FALSE
INVARIANTS
    DepthIsUnderWay
    EveryRecordAccounted
    LokiLogIsOrdered
PROPERTIES
    RecordsSettle
