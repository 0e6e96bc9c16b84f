SPECIFICATION Spec
CONSTANTS
    Reqs = {a, b}
    MaxActive = 2
    ShedInflight = 2
    HighWater = 1
    MaxItems = 1
    MaxBatch = 1
CHECK_DEADLOCK FALSE
INVARIANT FlushFailureReported
