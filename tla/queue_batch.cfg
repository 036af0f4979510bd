SPECIFICATION Spec
CONSTANTS
    i1 = i1
    i2 = i2
    i3 = i3
    c1 = c1
    c2 = c2
    Items = {i1, i2}
    Credentials = {c1, c2}
    CredentialOf <- Separate
    Hashed = {i1, i2}
    Runs = {r1}
    NoItem = NoItem
    MaxPublishAttempts = 5
    MaxCrashes = 0
CHECK_DEADLOCK FALSE
INVARIANTS OnlyWantedRevoked
