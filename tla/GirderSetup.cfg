SPECIFICATION FairSpec
CONSTANTS
    r1 = r1
    r2 = r2
    Runs = {r1, r2}
    ConnErrLimit = 2
    MaxStops = 2
    MaxFaults = 1
    MaxKills = 2
CHECK_DEADLOCK FALSE
INVARIANT TypeOK
INVARIANT NothingTwice
INVARIANT PluginsServed
INVARIANT SuccessIsComplete
PROPERTY Ends
PROPERTY ImplementsSetupOnce
