SPECIFICATION FairSpec
CONSTANTS
    p1 = p1
    p2 = p2
    n1 = n1
    n2 = n2
    None = None
    Tasks = {p1}
    NItems = 2
    Names = {n1, n2}
    MaxEdits = 2
    MaxRefusals = 1
    MaxBreaks = 1
    MaxDeaths = 1
CHECK_DEADLOCK FALSE
INVARIANT TypeOK
INVARIANT PackageWhole
INVARIANT NothingDangling
INVARIANT ItemsAccounted
INVARIANT ItemsLocated
PROPERTY Ends
