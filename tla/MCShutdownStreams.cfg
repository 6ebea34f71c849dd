SPECIFICATION SDSpec
CONSTANTS
    Requests = {u1, s1}
    Streams = {s1}
INVARIANTS
    StreamsDrained
CHECK_DEADLOCK FALSE
