SPECIFICATION MCFairSpec
CONSTANTS
    Runs = {r1, r2, r3}
    Free = Free
    TTL = 3
    MaxRenewFailures = 3
    MaxFaults = 4
    Requests = {u1, s1}
    Streams = {s1}
    Pods = {p1, p2}
    Words = {w1, w2}
    Vocabulary = {w1, w2}
    Checked = {"q1"}
    MaxSyncFaults = 1
    MaxHitFaults = 1
    MaxChanges = 2
    MaxHits = 4
    MaxRebuilds = 2
INVARIANTS OneRunUnlessRenewalsFail DrainedMeansHandlersLeft RefusedOnlyPastDeadline
    CursorCovered HitsConserved
PROPERTIES KeyComesFree ShutdownEnds FollowsWhileAlive HitsArrive
    WordsTakeEffect
CHECK_DEADLOCK FALSE
