SPECIFICATION DeliberationSpec
CONSTANTS
    Readers = {d1}
    MaxRounds = 2
    ToolLimit = 1
    CallLimit = 1
CHECK_DEADLOCK FALSE
INVARIANTS
    RunsOnceToRest
    CompletedIsVerified
    NoCallAfterCancel
PROPERTIES
    FollowsTheTable
