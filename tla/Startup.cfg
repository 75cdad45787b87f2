\* Names of up to four components, a buffer of six bytes, files of one or two instances.
SPECIFICATION Spec
CONSTANTS
    Names <- SomeNames
    Size <- SomeSizes
    Hidden = {".h"}
    DotEnded = {"x."}
    DefaultLog = "default.log"
    PathMax = 6
    Homes <- SomeHomes
    Cwds <- SomeCwds
    Lexemes <- SomeLexemes
    Files <- SomeFiles
    Value <- SomeValues
    LogOf <- SomeLogs
    LevelAll = 5
    MinSplit = 4
    MaxSplit = 8
    DefaultSplit = 6
INVARIANTS TypeOK InBuffer Canonical Resolved ReadsSettings AsWritten
\* The program goes on elsewhere when init() has returned.
CHECK_DEADLOCK FALSE
