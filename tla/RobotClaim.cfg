\* Two workers: each may be holder, successor, or crashed between the other's sessions.
CONSTANTS
    Workers = {w1, w2}
    Backends = {"file", "postgres"}
SPECIFICATION FairSpec
INVARIANTS
    OneController
PROPERTIES
    QuietCloseIsLimp
    ClaimComesBack
