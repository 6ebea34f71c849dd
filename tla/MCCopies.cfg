SPECIFICATION MCSpec
CONSTANTS
    Callers = {c1, c2}
    Maintainers = {}
    Authorizers = {a1}
    NoHolder = NoHolder
    Rotations = {TRUE, FALSE}
    MaxToken = 3
    MaxFaults = 1
    Users = {u1, u2}
    Actors = {c1, c2}
    Keys = {k1, k2, k3}
    None = None
    Quota = 1
    CacheKeys = {"models", "endpoints"}
    Flights = {c1, c2}
    RowWriters = {c1, c2}
    People = {u1, u2}
    Handlers = {c1, c2}
    Nobody = None
    Pods = {u1, u2}
    Specs = {"hourly", "daily"}
    MaxUpdates = 3
    MaxLost = 1
    MaxBoots = 1
    MaxWrites = 2
SYMMETRY Symmetry
INVARIANTS
    CacheNeverAhead
    OneRefresher
    OnlyLossCostsGrant
    QuotaOverrunBounded
    CacheFollowsRow
    EntriesCurrent
    SettledFollowsRow
PROPERTIES
    RevocationSticks
    CredentialNeverRegresses
CHECK_DEADLOCK FALSE
