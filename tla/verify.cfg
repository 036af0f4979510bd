SPECIFICATION Spec
CONSTANTS
    Credentials <- Presented
    Registries = {"off", "own", "other", "nameless"}
    Flaws = {"none", "outer", "form", "context", "signature", "claims"}
INVARIANTS ValidIsEarned RevokedRejected KeyRejected RejectionsTrue
