SPECIFICATION Spec
CONSTANTS
    i1 = i1
    i2 = i2
    i3 = i3
    c1 = c1
    c2 = c2
    Items = {i1, i3}
    Credentials = {c1, c2}
    CredentialOf <- Separate
    Hashed = {i1}
    Runs = {r1, r2}
    NoItem = NoItem
    MaxPublishAttempts = 3
    MaxCrashes = 1
CHECK_DEADLOCK FALSE
INVARIANTS PublishedIsLive AttemptsBounded
 
