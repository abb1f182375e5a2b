SPECIFICATION UpdatesSpec
CONSTANTS
    Values = {"b1", "b2", "b3"}
    NoValue = NoValue
    Torn = Torn
    DirectorySync = TRUE
    SequenceOf <- MCSequenceOf
CHECK_DEADLOCK FALSE
INVARIANTS
    InstallsAreAccounted
PROPERTIES
    ImplementsRegister
