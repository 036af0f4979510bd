SPECIFICATION IssuanceSpec
CONSTANTS
    Claims <- Names
    Requests <- AllRequests
    MaxWindow = 8
    Horizon = 8
    MaxRevocations = 2
CHECK_DEADLOCK FALSE
INVARIANTS VerdictsTrue RevocationReaches ShownIsProved
