\* Two legs at most, one of them out of the limits in one route and passed over in another.
\* The joint may be outside its limits by one.  Settling lasts longer than feedback may be
\* stale, and the timeout lets a late arm settle.
CONSTANTS
    Low = 0
    High = 2
    Grace = 1
    Turn = 5
    Turns <- NoTurns
    Drift = 1
    Routes <- SomeRoutes
    Speed = 1
    Tolerance = 0
    SettleTime = 2
    Timeout = 4
    TrackLimit = 1
    TrackingGrace = 1
    StaleTime = 1
    LongestTick = 2
SPECIFICATION FairSpec
INVARIANTS
    StoppedWhereItIs
    SettledOnFreshFeedback
PROPERTIES
    FramesNeedFeedback
    FirstFrameIsNear
    CallEnds
\* A call returns: an ended one has no next step.
CHECK_DEADLOCK FALSE
