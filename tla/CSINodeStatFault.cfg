SPECIFICATION Spec
CONSTANTS
    c1 = c1
    c2 = c2
    c3 = c3
    t1 = t1
    t2 = t2
    None = None
    Targets = {t1}
    Calls = {c1, c2}
    ReadonlyFlags = {FALSE}
    Faulty = {"stat"}
    MaxFaults = 1
    MaxTimeouts = 0
    MaxCrashes = 0
SYMMETRY Symmetric
INVARIANT UnmountPathUnmounts
