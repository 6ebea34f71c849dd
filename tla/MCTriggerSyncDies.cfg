SPECIFICATION FairSpec
CONSTANTS
    Pods = {p1, p2}
    MaxChanges = 1
    MaxFaults = 0
PROPERTIES
    EveryPodFollows
CHECK_DEADLOCK FALSE
