SPECIFICATION LiveSpec
CONSTANTS
    Reqs = {a, b, c}
    MaxActive = 2
    ShedInflight = 2
    HighWater = 1
    MaxItems = 1
    MaxBatch = 1
CHECK_DEADLOCK FALSE
INVARIANT AllowIsDurable
 
PROPERTY EventuallyOver
