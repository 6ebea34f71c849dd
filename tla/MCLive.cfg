SPECIFICATION MCFairSpec
CONSTANTS
    Callers = {c1}
    Maintainers = {m1}
    Authorizers = {}
    NoHolder = NoHolder
    Rotations = {TRUE}
    MaxToken = 3
    MaxFaults = 1
    Calls = {g1, g2}
    CircuitEnabled = TRUE
    MinRequests = 1
    ThresholdNum = 1
    ThresholdDen = 2
    HalfOpenMaxRequests = 1
    MaxConcurrent = 1
    Cancellable = TRUE
    MaxAttempts = 1
    WindowCap = 1
PROPERTIES
    ExpiryResolved
    ImplementsBulkhead
    CallsReturn
    RecoversAfterHeal
