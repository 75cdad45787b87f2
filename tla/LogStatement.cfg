\* Two threads in up to two processes; a counter of eight values; seconds of two fractions.
SPECIFICATION Spec
CONSTANTS
    p1 = p1  p2 = p2  t1 = t1  t2 = t2
    Procs = {p1, p2}
    Threads = {t1, t2}
    Root = p1
    Main = t1
    NoProc = NoProc
    NoThread = NoThread
    Stmts <- SomeStmts
    Periods = {2, 3}
    Limit = 4
    PerSecond = 2
    MaxClock = 4
    MaxCount = 5
INVARIANTS TypeOK LineIsCurrent OneInN
\* A statement waits when its count has reached the bound.
CHECK_DEADLOCK FALSE
