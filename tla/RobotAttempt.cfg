\* Budgets that let a visit lock, settle, lose the carabiner and be re-entered, and the
\* lifetime budget run out in every state.
CONSTANTS
    MaxTotalActions = 7
    MaxSearchRL = 2
    MaxSearchCV = 4
    MaxClipRL = 3
    SettleTicks = 2
    LostAfter = 2
    LockFrames = 2
SPECIFICATION FairRSpec
INVARIANTS
    LiveController
    EndedArmIsHeld
PROPERTIES
    ClipBeginsSettled
    RelockAfterMiss
    DegradedAgainstThisApproach
\* The call of run() returns: an ended attempt has no next step.
CHECK_DEADLOCK FALSE
