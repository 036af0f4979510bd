SPECIFICATION Spec
CONSTANTS
    Posts = {p1, p2}
    Spellings = {default, named}
    MaxRetries = 1
    MaxAttempts = 2
    MaxCrashes = 1
CHECK_DEADLOCK FALSE
INVARIANTS AnswersTrue InFlightIsDriven
PROPERTIES SelfHeals
