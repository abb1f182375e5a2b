SPECIFICATION RegistrySpec
CONSTANTS
    r1 = r1
    r2 = r2
    r3 = r3
    k1 = k1
    k2 = k2
    h1 = h1
    h2 = h2
    Requests = {r1, r2, r3}
    Keys = {k1, k2}
    Hashes = {h1, h2}
    NoRequest = NoRequest
    PendingTTL = 1
    CompleteTTL = 2
    MaxEntries = 1
    MaxTime = 3
SYMMETRY Symmetric
CHECK_DEADLOCK FALSE
INVARIANTS
    ReplaysAreIdentical
    OverlapIsEarned
    NoStrandedReservation
PROPERTIES
    RecordedIsStable
