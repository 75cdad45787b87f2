\* Two threads of one process and one of another, their names told apart by %P; one crashes.
SPECIFICATION Spec
CONSTANTS
    p1 = p1  p2 = p2  t1 = t1  t2 = t2  t3 = t3
    Procs = {p1, p2}
    Threads = {t1, t2, t3}
    ProcOf <- TwoProcesses
    Directives = {"pid", "seq"}
    SplitSize = 1
    CheckInterval = 1
    SeqLimit = 2
    Faults = {"crash"}
    NoThread = NoThread
    MaxTime = 2
    MaxFiles = 6
    MaxTaken = 0
    MaxFaults = 1
SYMMETRY ThreadSymmetry
INVARIANTS NoLogLost RenameIsSafe
