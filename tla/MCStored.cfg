SPECIFICATION MCSpec
CONSTANTS
    Messages = {"q", "call"}
    Tools = {"t"}
    Stuck = {"call"}
    k1 = k1
    k2 = k2
    Keys = {k1, k2}
    Snapshots <- Rounds
    Writers = {w1, w2}
    MaxSnapshots = 3
    MaxFailures = 1
    MaxDeletes = 1
    ImageWriters = {w1, w2}
    Users = {"owner", "admin"}
    Requests = {w1, w2}
    Pods = {"p1", "p2"}
    MaxAttempts = 2
    MaxFaults = 2
    Links = {"s1", "s2"}
    None = None
    MaxSaid = 5
INVARIANTS
    OnlyLaterBlocksLost
    ItemsPaired
    TenantsApart
    DuplicatesHeal
    DanglingOnlyFromOverlap
    RefsResolve
    RowAndObjectAgree
    LinksRevocable
    OneLinkAtATime
PROPERTIES
    MergesKeepContent
SYMMETRY Symmetry
CHECK_DEADLOCK FALSE
