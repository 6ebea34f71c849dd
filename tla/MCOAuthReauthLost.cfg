SPECIFICATION Spec
CONSTANTS
    Callers = {c1}
    Maintainers = {}
    Authorizers = {a1}
    NoHolder = NoHolder
    Rotations = {TRUE, FALSE}
    MaxToken = 3
    MaxFaults = 0
PROPERTIES
    ReauthNotOverwritten
