SPECIFICATION AgentFairSpec
CONSTANTS
    r1 = r1
    r2 = r2
    x1 = x1
    Requests = {r1}
    NoRequest = NoRequest
    Calls = {r1}
    NoCall = NoCall
    Releases = {x1}
    NoRelease = NoRelease
    RelOf <- MCRelOf
    MaxLive = 2
    MaxRows = 2
CHECK_DEADLOCK FALSE
INVARIANTS
    CanceledIsWithheld
    CancelIsNeverLost
    TableIsTruthful
PROPERTIES
    RunsEnd
