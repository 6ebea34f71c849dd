SPECIFICATION FairSpec
CONSTANTS
    Calls = {g1, g2}
    CircuitEnabled = TRUE
    BulkheadEnabled = TRUE
    MinRequests = 1
    ThresholdNum = 1
    ThresholdDen = 2
    HalfOpenMaxRequests = 2
    MaxConcurrent = 1
    Cancellable = FALSE
    MaxAttempts = 0
    WindowCap = 1
PROPERTY HalfOpenResolves
