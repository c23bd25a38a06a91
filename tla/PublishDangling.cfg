SPECIFICATION Spec
CONSTANTS
    p1 = p1
    p2 = p2
    n1 = n1
    n2 = n2
    None = None
    Tasks = {p1}
    NItems = 1
    Names = {n1}
    MaxEdits = 0
    MaxRefusals = 1
    MaxBreaks = 0
    MaxDeaths = 0
CHECK_DEADLOCK FALSE
INVARIANT FailedNotReferenced
