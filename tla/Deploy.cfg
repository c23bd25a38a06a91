SPECIFICATION Spec
CONSTANTS
    Lookalikes <- SomeLookalikes
    MaxRuns = 3
    MaxStops = 2
    MaxBlind = 1
CHECK_DEADLOCK FALSE
INVARIANT TypeOK
INVARIANT WorkloadsSupplied
INVARIANT ConfigmapsLabelled
INVARIANT CompletedIsWhole
INVARIANT AfterClean
INVARIANT CleanSlate
