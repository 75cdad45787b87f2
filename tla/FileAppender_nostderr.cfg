\* A process started without a usable /dev/stderr (a daemon that closed it).
SPECIFICATION FairSpec
CONSTANTS
    p1 = p1  p2 = p2  t1 = t1  t2 = t2  t3 = t3
    Procs = {p1}
    Threads = {t1, t2}
    ProcOf <- OneProcess
    Directives = {"time", "seq"}
    SplitSize = 1
    CheckInterval = 1
    SeqLimit = 3
    Faults = {"permission", "stderr"}
    NoThread = NoThread
    MaxTime = 2
    MaxFiles = 6
    MaxTaken = 0
    MaxFaults = 2
PROPERTIES Heals
