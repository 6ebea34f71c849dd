SPECIFICATION MCSpec
CONSTANTS
    c1 = c1
    c2 = c2
    c3 = c3
    Calls = {c1, c2, c3}
    CircuitEnabled = TRUE
    BulkheadEnabled = TRUE
    MinRequests = 2
    ThresholdNum = 1
    ThresholdDen = 2
    HalfOpenMaxRequests = 2
    MaxConcurrent = 2
    Cancellable = TRUE
    MaxAttempts = 1
    WindowCap = 2
    Clients = {"r1", "r2"}
    Capacity = 1
    Grain = 2
    Skew = 1
    MaxCost = 2
    MaxTime = 5
    Requests = {"q1"}
    Rows <- FourRows
    SharedPoolFallback = TRUE
    MaxChanges = 2
SYMMETRY CallSymmetry
INVARIANTS
    SlotsMatchHolders
    EpisodeProbesBounded
    OnlyFaultsTrip
    WindowBounded
    DebtBounded
    OneRecord
    TriedInTurn
CHECK_DEADLOCK FALSE
