\* A stat() of the new name that fails for another reason than a missing file.
SPECIFICATION Spec
CONSTANTS
    p1 = p1  p2 = p2  t1 = t1  t2 = t2  t3 = t3
    Procs = {p1}
    Threads = {t1, t2}
    ProcOf <- OneProcess
    Directives = {"pid", "seq"}
    SplitSize = 1
    CheckInterval = 1
    SeqLimit = 2
    Faults = {"stat"}
    NoThread = NoThread
    MaxTime = 3
    MaxFiles = 4
    MaxTaken = 0
    MaxFaults = 0
INVARIANTS NoLogLost
