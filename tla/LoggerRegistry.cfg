\* Up to three calls of init() with any of six configurations, two threads.
SPECIFICATION FairSpec
CONSTANTS
    n1 = n1  wf = wf  f1 = f1  f2 = f2  t1 = t1  t2 = t2
    Names = {n1, wf}
    WfName = wf
    Paths = {f1, f2}
    Threads = {t1, t2}
    Confs <- SomeConfs
    NoLogger = NoLogger
    DummyLogger = DummyLogger
    NoFile = NoFile
    MaxAppenders = 3
    MaxInits = 3
    MaxLines = 2
INVARIANTS
    TypeOK OneAppenderPerFile StoppedBeforeDeleted NothingLostAtExit WfLoggerIsCurrent
PROPERTIES LookupIsLive ExitEnds
\* The process ends.
CHECK_DEADLOCK FALSE
