SPECIFICATION Spec
CONSTANTS
    Procs = {p1, p2}
    Places = {here, there}
    Stamps = {s1, s2}
    Blind = {FALSE}
    Refits = FALSE
    MinSamples = 1
    MaxSamples = 2
    Commands = 3
    None = None
    Torn = Torn
INVARIANTS
    PairsAreTrue
    LimpIsParkedOrTold
PROPERTIES
    NothingTaughtIsLost
SYMMETRY Symmetry
CHECK_DEADLOCK FALSE
