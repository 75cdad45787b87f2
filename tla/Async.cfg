\* Writes and the creation of the worker may fail.
SPECIFICATION FairSpec
CONSTANTS
    Faults = {"write", "thread"}
    LineSize = 3
    MaxMsgs = 3  MaxMore = 1
    MaxStarts = 2
INVARIANTS TypeOK Conserved LinesAreWhole DrainedWhenStopped
PROPERTIES SinkSpec StopEnds QueuedIsSettled
\* A crash ends the process.
CHECK_DEADLOCK FALSE
