SPECIFICATION Spec
CONSTANTS
    Rows = 1
    NoFrame = NoFrame
    NoRecord = NoRecord
    Workers = {w1, w2}
    NoWorker = NoWorker
    Outcomes = {"signed", "error"}
    MaxAttempts = 2
    MaxStalls = 1
    HookAttempts = 2
    MaxFaults = 1
CHECK_DEADLOCK FALSE
INVARIANTS VerdictsTrue NotifiedIsReadable AckedIsSettled
PROPERTIES Reported
