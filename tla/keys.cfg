SPECIFICATION Spec
CONSTANTS
    Servers = {s1}
    Requests = {r1, r2}
    Host <- OneServer
    LastKey = 1
    Provided <- FirstKeyAlone
    MaxLate = 1
INVARIANTS RevokedRejected StoredIsServed
PROPERTIES NothingLost
SYMMETRY SlotSymmetry
