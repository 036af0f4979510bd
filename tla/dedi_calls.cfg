SPECIFICATION CallsSpec
CONSTANTS
    Clients = {get, post}
    Retryable = {get}
    Threshold = 2
    RetryLimit = 1
    MaxStuck = 1
INVARIANTS OpenIsEarned SendsBounded
PROPERTIES Recovers Served
