SPECIFICATION Spec
CONSTANTS
    Kinds = {"run", "session"}
    Recorders = {"memory"}
    Period = 2
    MaxDuration = 7
    MaxSteps = 3
    EstopOnFailure = FALSE
    Rollouts = 2
    LongestStep = 3
INVARIANTS
    Paced
    RunEndsHeld
    EpisodeIsThisRollout
CHECK_DEADLOCK FALSE
