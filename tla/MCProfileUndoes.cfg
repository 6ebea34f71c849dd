SPECIFICATION Spec
CONSTANTS
    Users = {u1}
    Actors = {a1, a2}
    None = None
PROPERTIES
    DecisionStands
CHECK_DEADLOCK FALSE
