SPECIFICATION PackSpec
CONSTANTS
    j1 = j1
    p1 = p1
    p2 = p2
    a1 = a1
    a2 = a2
    Jobs = {j1}
    NoJob = NoJob
    Packs = {p1, p2}
    NoPack = NoPack
    SeqOf <- MCSeqOf
    Apps = {a1, a2}
    NoApp = NoApp
    Total = 2
SYMMETRY Symmetric
INVARIANTS
    StateMatchesFiles
    UploadIsAPrefix
PROPERTIES
    ImplementsStore
    CancelHolds
