SPECIFICATION Spec
CONSTANTS
    w1 = w1
    w2 = w2
    Workers = {w1, w2}
    Tales <- SomeTales
    MaxChanges = 1
    MaxRevokes = 1
    MaxFaults = 1
    MaxDeaths = 1
    MaxCalls = 5
SYMMETRY Symmetry
INVARIANT TypeOK
INVARIANT KeysBounded
INVARIANT LoginMatchesImage
INVARIANT OneCsp
