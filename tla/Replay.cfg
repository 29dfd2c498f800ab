SPECIFICATION Spec
CONSTANTS
    Low = 0
    High = 2
    Offset = 1
    Poses <- MCPoses
    Drift = 1
    Requests <- MCRequests
    MaxStep = 3
    StartTolerance = 0
    TrackLimit = 1
    MaxMissed = 1
    Period = 2
    Beat = 3
    HoldsOn = {"completion", "failure"}
    LongestTick = 3
    Oversleep = 1
INVARIANTS
    ReportMatchesMotors
    SentAsApproved
    NoCatchUp
PROPERTIES
    StartsWhereRecorded
CHECK_DEADLOCK FALSE
