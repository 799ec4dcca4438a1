SPECIFICATION RetrySpec
CONSTANTS
    Passages = {1, 2}
    Delay = 1
    Interval = 1
    MaxRetries = 2
    Horizon = 3
    PassTimeout = 1
    BatchLimit = 2
    MaxTime = 7
    MaxRestarts = 1
    None = None
CHECK_DEADLOCK FALSE
INVARIANTS
    LookupsAreBounded
    RetriedBeforeExpiry
