CONSTANTS
    Servos = {s1, s2}
    Poses = {0, 1, 2, 3}
    Lower = 1
    Upper = 3
    Velocity = 1
    DtCap = 1
    LossTimeout = 1
    ParkTolerance = 0
    Drift = 1
    Lag = 1
    Stall = 2
    None = None
SPECIFICATION Spec
INVARIANTS
    OneLateFrame
PROPERTIES
    NoJump
    ParkedBeforeLimp
    LossReleases
