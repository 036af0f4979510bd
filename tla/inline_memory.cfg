SPECIFICATION Spec
CONSTANTS
    Rows = 3
    NoFrame = NoFrame
    NoRecord = NoRecord
    Store = "memory"
    StoreFails = FALSE
    SourceFails = TRUE
    MaxAttempts = 1
    Beats = {b1}
    Syncs = {s1, s2}
    Final = Final
    Shutdown = Shutdown
CHECK_DEADLOCK FALSE
INVARIANTS EndedIsSettled
PROPERTIES ProgressMonotone LifecycleSpec
