\* setSplitFormat() is called on an appender that has a format.
SPECIFICATION Spec
CONSTANTS
    Directives = {"H", "n"}
    Formats <- SomeFormats
    MaxCalls = 2
INVARIANT NameFollowsFormat
CHECK_DEADLOCK FALSE
