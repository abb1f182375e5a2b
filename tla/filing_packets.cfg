SPECIFICATION FilingSpec
CONSTANTS
    t1 = t1
    t2 = t2
    g1 = g1
    g2 = g2
    Threads = {t1, t2}
    MaxRevisions = 2
    MaxRequests = 2
    MAX_PENDING_REQUESTS = 2
    Generations = {g1, g2}
    MaxBuilds = 1
SYMMETRY Symmetric
CHECK_DEADLOCK FALSE
INVARIANTS
    LedgerIsSound
    ClearedByTheLatest
    PointerHasItsPacket
