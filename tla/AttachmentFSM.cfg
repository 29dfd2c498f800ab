\* Lifetime budget 6 with budgets of 2 lets every state run dry, and lets up to five
\* neutral resets happen before the lifetime budget ends the attempt.
CONSTANTS
    MaxTotalActions = 6
    MaxSearchRL = 2
    MaxSearchCV = 2
    MaxClipRL = 2
SPECIFICATION FairSpec
INVARIANTS
    LifetimeAccounting
PROPERTIES
    Terminates
    ImplementsBoundedAttempt
\* The call of run() returns: an ended attempt has no next step.
CHECK_DEADLOCK FALSE
