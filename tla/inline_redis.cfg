SPECIFICATION Spec
CONSTANTS
    Rows = 1
    NoFrame = NoFrame
    NoRecord = NoRecord
    Store = "redis"
    StoreFails = TRUE
    SourceFails = FALSE
    MaxAttempts = 2
    Beats = {b1}
    Syncs = {s1}
    Final = Final
    Shutdown = Shutdown
CHECK_DEADLOCK FALSE
INVARIANTS FinishedIsTrue FinalCountsTrue
PROPERTIES Ephemeral
