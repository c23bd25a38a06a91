SPECIFICATION Spec
CONSTANTS
    Lookalikes = {}
    MaxRuns = 3
    MaxStops = 1
    MaxBlind = 0
CHECK_DEADLOCK FALSE
INVARIANT StartsOnlyMissing
