\* The smallest instance in which reserve() meets output().
SPECIFICATION Spec
CONSTANTS
    Faults = {}
    LineSize = 1
    MaxMsgs = 2  MaxMore = 0
    MaxStarts = 1
INVARIANTS AllWrittenWhenStopped
CHECK_DEADLOCK FALSE
