SPECIFICATION FairSpec
CONSTANTS
    p1 = p1
    p2 = p2
    d1 = d1
    d2 = d2
    n1 = n1
    n2 = n2
    Tasks = {p1, p2}
    Datasets = {d1, d2}
    Names = {n1, n2}
    MaxRemovals = 1
    MaxFailures = 1
    DataMaps <- Answers
CHECK_DEADLOCK FALSE
INVARIANT TypeOK
INVARIANT TaleOfLookup
INVARIANT TaleInCatalog
INVARIANT ReadyIsLaunched
INVARIANT OrphansBounded
PROPERTY Ends
