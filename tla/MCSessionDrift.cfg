SPECIFICATION Spec
CONSTANTS
    Messages = {"q", "call"}
    Tools = {"t"}
    Stuck = {"call"}
    k1 = k1
    k2 = k2
    Keys = {k1, k2}
    Snapshots <- Rounds
    Writers = {w1, w2}
    MaxSnapshots = 3
    MaxFailures = 0
    MaxDeletes = 0
PROPERTY EstablishedIdStays
SYMMETRY Symmetry
CHECK_DEADLOCK FALSE
