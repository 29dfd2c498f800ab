\* Three cycles, so that a recovery follows a recovery, and four attempts, so that a
\* crash follows a crash.
SPECIFICATION WFairSpec
CONSTANTS
    MaxCycles = 3
    MaxAttempts = 4
INVARIANTS
    RepeatsAtMostOne
PROPERTIES
    ImplementsPlan
    TaskEnds
CHECK_DEADLOCK FALSE
