SPECIFICATION Spec
CONSTANTS
    MaxSaid = 5
INVARIANTS
    AnswerKept
CHECK_DEADLOCK FALSE
