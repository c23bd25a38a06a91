SPECIFICATION FairSpec
CONSTANTS
    c1 = c1
    c2 = c2
    c3 = c3
    t1 = t1
    t2 = t2
    None = None
    Targets = {t1}
    Calls = {c1, c2, c3}
    ReadonlyFlags = {FALSE}
    Faulty = {"mkdir", "tempfile", "mount", "unlink", "umount", "rmdir"}
    MaxFaults = 1
    MaxTimeouts = 1
    MaxCrashes = 0
PROPERTY Drained
