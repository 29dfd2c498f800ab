CONSTANTS
    Joints = {j1}
    Names = {n1, n2}
    Calibrations = {c1, c2}
    StaleAfter = 1
    EditsDuringSave = FALSE
    Sessions = 2
    Edits = 1
    Absent = Absent
    Torn = Torn
    Broken = Broken
SPECIFICATION CaptureSpec
INVARIANTS
    FileHolds
PROPERTIES
    NothingIsLost
    RefusedIsUnchanged
