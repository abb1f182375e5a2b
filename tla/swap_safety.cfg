SPECIFICATION SwapSpec
CONSTANTS
    r1 = r1
    r2 = r2
    c1 = c1
    c2 = c2
    x1 = x1
    x2 = x2
    Requests = {r1, r2}
    NoRequest = NoRequest
    Calls = {c1, c2}
    NoCall = NoCall
    Releases = {x1, x2}
    NoRelease = NoRelease
    RelOf <- MCRelOf
    MaxLive = 1
    MaxRows = 2
SYMMETRY Symmetric
CHECK_DEADLOCK FALSE
INVARIANTS
    RightAdapter
    BeliefsAreTrue
    NothingRetained
    GeneratedOnce
