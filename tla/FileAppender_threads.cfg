\* One process, two threads; stat() may fail, the clock may step back, the log may not open.
SPECIFICATION Spec
CONSTANTS
    p1 = p1  p2 = p2  t1 = t1  t2 = t2  t3 = t3
    Procs = {p1}
    Threads = {t1, t2}
    ProcOf <- OneProcess
    Directives = {"seq"}
    SplitSize = 2
    CheckInterval = 1
    SeqLimit = 2
    Faults = {"stat", "clock", "permission", "stderr"}
    NoThread = NoThread
    MaxTime = 4
    MaxFiles = 4
    MaxTaken = 0
    MaxFaults = 2
SYMMETRY ThreadSymmetry
INVARIANTS TypeOK RotatedWasFull ChecksAreSpaced
PROPERTIES DescriptorStaysValid
