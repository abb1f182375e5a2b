SPECIFICATION OcrFairSpec
CONSTANTS
    w1 = w1
    w2 = w2
    w3 = w3
    Types = {"local_ocr"}
    Matters = {"m1"}
    Keys = {}
    NoKey = "none"
    Workers = {w1, w2}
    NoWorker = NoWorker
    MinLease = 1
    MaxLease = 1
    BeatLease = 1
    FullProgress = 0
    MaxJobs = 1
    MaxAttempts = 2
    MaxTime = 1
    Pages = {1}
    ClaimLease = 1
    ListLimit = 1
    MaxErrors = 2
CHECK_DEADLOCK FALSE
PROPERTIES
    ThreadsEndAndSettle
