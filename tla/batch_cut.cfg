SPECIFICATION BatchSpec
CONSTANTS
    Types = {"batch_inference"}
    Matters = {"m1"}
    Keys <- MCKeys
    NoKey = NoKey
    Workers = {"w1"}
    NoWorker = NoWorker
    MinLease = 1
    MaxLease = 1
    BeatLease = 1
    FullProgress = 1
    MaxJobs = 2
    MaxAttempts = 1
    MaxTime = 0
    Batches = {"b1"}
    Items = {"i1", "i2", "i3", "i4"}
    Sigs = {1, 2}
    SigOf <- MCSigOf
    Matter = "m1"
CHECK_DEADLOCK FALSE
INVARIANTS
    ItemsMatchJobs
    PayloadIsTheGroup
