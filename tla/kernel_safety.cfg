SPECIFICATION KernelSpec
CONSTANTS
    w1 = w1
    w2 = w2
    Types = {"local_ocr"}
    Matters = {"m1"}
    Keys = {"k1"}
    NoKey = "none"
    Workers = {w1, w2}
    NoWorker = NoWorker
    MinLease = 1
    MaxLease = 2
    BeatLease = 1
    FullProgress = 1
    MaxJobs = 2
    MaxAttempts = 2
    MaxTime = 3
SYMMETRY Symmetric
CHECK_DEADLOCK FALSE
INVARIANTS
    TypeOK
    LeaseIffHeld
    RowsAreAccountable
    ReclaimNeedsRecovery
    CancelPrevails
PROPERTIES
    ImplementsLifecycle
