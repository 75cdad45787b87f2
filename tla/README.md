# fslog: specifications and proofs

fslog is a C++ logging library. A program reads a configuration, obtains named
loggers and writes lines through macros; a line is formatted in the
caller's thread and handed to an *appender*, which writes it to a file, rotates the file
when it is full and finds out for itself that somebody removed or moved it.
Several threads, and several processes, may log to one file.

This directory holds TLA+ specifications of that code, TLC configurations that
check them on small instances, and TLAPS proofs that hold for every instance.
Paths below are relative to the repository (`src/FileAppender.cc`,
`include/Log.h`, ...).

## 1. Inventory

| component | files | state | operations |
|---|---|---|---|
| FileAppender | `src/FileAppender.cc`, `include/FileAppender.h` | the descriptor `fd_`, the time of the last check `lastcheck_`, `checkMutex_`, `splitMutex_`, the split size and format; in the file system the file at `path_` and the rotated ones | constructor, `output`, `outputWithoutLock`, `checkFile`, `reopen`, `getNewFilename`, setters |
| AsyncFileAppender | `src/AsyncFileAppender.cc`, `.h` | `logQueue_`, `asyncRunning_`, `thread_`, `queueMutex_`, `runMutex_` | `start`, `stop`, `output`, `threadFunc`, `dumpQueue` |
| CLogger registry | `src/Log.cc`, `include/Log.h` | static `logMap_`, `appenderMap_`, `dummyLogger`, `pWfLogger_`, `mutex_`; per logger a level and an appender | `init`, `GetInstance`, `getWfLogInstance`, `setLogLevel`, `writeLog`, `destroy` (at exit) |
| logging macros | `include/Log.h`, `include/Atomic.h` | one atomic counter per `EVERY_N` statement | level test, `EVERY_N`, `IF`, copy of warnings to the wf logger |
| Formatter | `src/Formatter.cc` | a list of handlers | `parseFormat`, `format` |
| StrUtil | `src/StrUtil.cc` | thread-local time cache; cached pid and tid | `UpdateCurrentTm`, `ClearCurrentTm`, `TestSetCurrentTm`, `GetTimeString`, `_realpath`, `toRealPath`, `split`, `trim` |
| TextConfig | `src/Conf.cc`, `include/Conf.h` | a multimap of keys and values | reading a file, lookups |
| C interface | `src/logger_c.cc` | none | forwards to CLogger |

How they interact. `CLogger::writeLog` fills the time cache of its thread, lets
the Formatter write into an allocated buffer of 4096 bytes, passes it to the appender's
virtual `output` and clears the cache. A `FileAppender` runs `checkFile` and
`write`s in the caller's thread; it reads the time from the cache. An
`AsyncFileAppender` only queues the line; its worker calls the same `checkFile`
and `write`. Threads of a process share the appender, with two mutexes; processes
share nothing but the directory. `CLogger::destroy`, an `atexit` handler, deletes
the loggers, which stop their appenders, then the appenders.

What is hard, and what makes a component correct:

* **Rotation.** Each system call of `checkFile` may be followed by any step of
  another thread, another process or an operator before the next. What was found
  out before `splitMutex_` was locked is used under it. It is correct when no
  log file is overwritten, only full files are moved, the descriptor never
  becomes invalid, a removed or unopenable file is found again, a full file is
  rotated, and checks happen once per interval.
* **The queue.** Producers and the worker share a vector; `stop` runs while
  producers go on. It is correct when each line is written once and in order,
  `stop` returns however much is logged, and what was accepted before it has been written.
* **The registry.** `destroy` runs while threads look loggers up and use them. It is correct when one file has one appender, every appender is stopped
  before it is deleted, and a lookup never yields a deleted logger.
* **The statement.** Time, pid and tid are cached per thread and per process, and
  filled in at different places; the clock is set back, threads begin, processes fork.
  It is correct when no line bears a value cached for another line, and an
  `EVERY_N` lets every n-th execution through.
* **Formatting and configuration.** Sequential, but with boundaries: the end of
  a buffer, the `%` at the end of a format, a path with `..`, a file spelled in
  two ways. It is correct when a line is what its format describes, nothing is
  written outside a buffer, and the instances are those that were written down.

The `hazards` of `PROJECT.json` list these one by one, with the line at which
each bites and the property that would show it.

## 2. Modules

| module | models |
|---|---|
| `FileAppender` | construction, `checkFile`, `reopen`, `getNewFilename`, `output` for threads of several processes, the file system and the operator |
| `MCFileAppender` | the instances of `FileAppender` for TLC |
| `FileAppenderProofs` | theorems about `FileAppender` |
| `AsyncFileAppender` | the queue, the worker, `start` and `stop` |
| `LogStore` | the abstract specification that `FileAppender` implements: a rotated log |
| `OrderedSink` | the abstract specification that `AsyncFileAppender` implements |
| `AsyncFileAppenderProofs` | theorems about `AsyncFileAppender`, the refinement among them |
| `LoggerRegistry` | `init`, `GetInstance`, `writeLog` and `destroy`: loggers, the appenders they share, and the threads that use them |
| `MCLoggerRegistry` | the configurations that TLC tries |
| `LoggerRegistryProofs` | theorems about `LoggerRegistry` |
| `FormatParser` | the loop that takes a format apart, in `Formatter` and in `FileAppender` |
| `Formatter` | extends `FormatParser`: the choice of a special format, `format`, the end of `writeLog` |
| `MCFormatter` | the formats and values that TLC tries |
| `FormatterProofs` | theorems about `Formatter` and `FormatParser` |
| `SplitFormat`, `MCSplitFormat` | extends `FormatParser`: `setSplitFormat` |
| `LogStatement` | the macros with `EVERY_N`, `writeLog` and the caches of `StrUtil.cc` |
| `MCLogStatement` | the statements that TLC tries |
| `LogStatementProofs` | theorems about `LogStatement` |
| `TextConfig` | `Conf.cc`: from lines to keys and values |
| `RealPath` | `toRealPath` and `_realpath` |
| `Startup` | extends `TextConfig` and `RealPath`: `init` from the text of the configuration to instances, files and sizes |
| `MCStartup` | the configuration files that TLC tries |
| `RealPathProofs` | what a walk along a path leads to, and the invariant of `_realpath`: the lemmas about `RealPath` |
| `StartupProofs` | theorems about `TextConfig`, `RealPath` and `Startup` |
| `Recursion` | induction and recursion over the natural numbers, for the proofs about recursive functions |

Definitions marked *Faulty variant* are not part of a specification. Each is one
definition with a plausible bug, and exists to show that the properties notice it.

### FileAppender

One step is one system call or one critical section. Correspondence:

| code | action |
|---|---|
| constructor (31-54) | `Construct`; `fd_` becomes the log, `/dev/stderr`, or -1 |
| `CLogger::writeLog` up to `output` | `StartLog`: the time is cached in `tm` |
| `checkFile` 222-232, under `checkMutex_` | `Gate` |
| `fstat(fd_)` 243 | `FstatFd` |
| `stat(path_)` 244-254 | `StatPath` |
| one iteration of the loop 258-266 | `PickName` |
| `splitMutex_`, second `stat` 269-271 | `StatAgain` |
| `rename` 281 | `Rename` |
| `reopen`: `open` 132-136 | `OpenLog` |
| `reopen`: `dup2`, `close` 137-138, release of `splitMutex_` | `Dup2` |
| `write(fd_)` 296, end of `writeLog` | `Write` |

The world is the variables `clock`, `dir` (name to inode), `size`, `nfiles`,
`taken`, `openable`, `faults`. Inodes are numbered in order of creation and never
reused: with inode reuse a file created after a removal could be mistaken for the
old one, which the code cannot tell either; this is left out. A file name is the
function of the values of the directives in `log.splitFormat` appended to the
path, so that two names are equal exactly when their values are; the several time
directives together are one, `time`. `size` counts lines up to the split size. An
operator's removal and a move are the same to the code: the name is free
afterwards (`OperatorTakes`). `openable` stands for the permissions on which
`open` depends; `rename` may fail while it is false. `stat` may fail for a reason
other than a missing file only when `"stat" \in Faults`; `Faults` also
enables `"crash"`, `"clock"` (the wall clock is set back), `"permission"` and
`"stderr"` (`/dev/stderr` does not open). `fd_` of a process changes only through
`dup2`, so the code's unsynchronised reads of the integer `fd_` are no race.

`LogStore` leaves out who does what: files are created one at a time, the current
one may be archived and never comes back, only the operator takes files away,
and no file loses a line, wherever it is. `Store == INSTANCE LogStore WITH created <- nfiles,
current <- dir[Path], archived <- Archived, removed <- taken, lines <- size` is the refinement mapping; the
steps that only find something out are stutters.

### AsyncFileAppender

`Push` is `output`'s critical section; `Start`, `StopBegins`, `StopReturns` are
the two calls that `runMutex_` serialises; the worker's steps are `LoopTest`,
`ReserveCopies`, `ReserveInstalls`, `Swap`, `WriteShort`, `WriteItem`, `BatchDone` and, when it
ends, `Dump`. `StopFindsNone` is a `stop` that finds `asyncRunning_` false: it returns at once and
leaves what is queued for the worker of the next `start`. `asked` is the number of lines accepted when
`stop` was last called, `mark` the same for the last call that joined a worker; `DrainedWhenStopped`
tells the lines of the two apart. The first `MaxMsgs` lines are followed one by one. Logging does not
end with them: behind them `PushMore` goes on for ever, and of these lines only the number in each
place is kept (`moreQueued`, `moreCopied`, `moreTaken`), which is what `stop` would wait for
if the worker tried to empty the queue (`WriteMore`). A line has `LineSize` bytes; `pieces` records which of them each `write`
has put into the file, and `sent` is `len-left` of `outputWithoutLock`: `WriteShort` is a turn of its loop
that leaves something to write, `WriteItem` the last one, or the one that fails. `logQueue_.reserve()` (line 51) does not hold `queueMutex_`: it
copies the queue to a new block and then installs the block, and a `push_back` in
between is undefined behaviour. The model has the outcomes a build can show: the
line is gone with the old block, recorded in `vanished`, or the process ends
(`aborted`). When no thread can be created the constructor of `boost::thread`
throws; `asyncRunning_` then stays true and a `stop` dereferences an empty pointer
(`aborted`), which the check `if(!thread_)` of line 16 does not prevent. `OrderedSink` states what remains: lines are
numbered as accepted, delivered at most once and in order, and the others are
accounted for as lost. `Sink == INSTANCE OrderedSink WITH delivered <- file,
lost <- failed \cup vanished` is the refinement mapping.

### LoggerRegistry

| code (`src/Log.cc`) | action |
|---|---|
| `init` 48-82: the dummy, the early returns | `CallInit` |
| `init` 83-126: one entry of `log.instance` | `SkipEmptyEntry`, `ConfigureInstance`, or `RejectEntry`, which is `exit(1)` |
| `init` 130-140 | `InitReturns` |
| `GetInstance`, and a line through `writeLog` | `GetInstance`, `StartLog`, `Output`, `OutputOfDeleted` |
| the worker of an asynchronous appender | `Worker` |
| return from `main`, `exit` | `MainReturns`, `ProcessEnds` |
| `destroy` 142-154, the destructors it runs | `DestroyBegins`, `DeleteLogger`, `LoggersDeleted`, `DeleteAppender`, `DestroyReturns` |

A logger is identified with its name. Of an asynchronous appender only the number
of queued lines is left: that `stop` writes them all is what `StopDrains` says of
`AsyncFileAppender`. Each `atexit` adds one to `handlers`, so that a `destroy`
registered twice runs twice. Calls of `init` may repeat, although `include/Log.h` line 66 asks for
one, may fail, or find an empty configuration. Nothing waits for the threads: `MainReturns` and
`exit(1)` inside `init` (`RejectEntry`) begin `exit` while they look loggers up and log. A reference that a
thread got before `destroy` deletes the logger dangles afterwards, and the code has nothing against
its use: `OutputOfDeleted` has the outcomes, a line that goes nowhere or the end of the process
(`"crashed"`). What is promised is that a *lookup* is safe, during `destroy` and after it (`LookupIsLive`;
line 74 of `include/Log.h` calls `GetInstance` thread-safe), that lines logged before `exit` are
written if `exit` comes to its end, and that it comes to its end unless a thread crashes the process. `queued` counts
only lines logged before `exit`: one logged later to an appender already stopped stays in its queue
for good. One assumption about the callers is left: threads look no logger up before the first
`init` or while an `init` fills `logMap_`, which it does without `mutex_`. The tests and the
examples call `init` first; `include/Log.h` does not say it. That `exit(1)`
inside `init` finds threads with the dummy logger only is a result (`ThreadsKnow` in the proofs).
`mutex_` orders only `GetInstance` and `destroy`, as in the code.

### FormatParser, Formatter, SplitFormat

`StartParse`, `ParseDirective`, `SkipPercent` and `ParseRest` are the entry, the
two ways through the loop and what follows it in `Formatter::parseFormat` (252-395) and
`FileAppender::parseSplitFormat` (68-113). The branch for `use+1 == npos` in both
is unreachable and left out. In `Formatter`, `parseFormat` adds the comparison
with the special formats; line 405 compares with the verbose format a second time
where the comment at line 399 has the detail format, so that `detail_format` is
never used and a detail line takes the general way, with the same result.
`StartLine`, `AddRaw`, `AddDirective`, `HandlerFails`, `AddHeader`, `AddMessage`,
`SpecialFails`, `EndLine` are `writeLog` with `format`, one step for each text put
in the buffer. A handler's text is any string of `Texts`; what matters is
whether `memcpy` or `snprintf` stores it, for the latter adds a NUL, may fail and
returns the length it would have needed. The second `%M` of a format uses a
`va_list` that `vsnprintf` has consumed: it prints garbage or ends the process
(`Crash`).

The reference needs no loop and no positions to search from: `IsDirective` says at which
characters of a format a directive begins, `Stands` what a character stands for, and `Described`
puts these together from left to right. `LineIsMeant` compares each line with `Meant`, what the
format describes with the values of the line, over the parser, the special functions, both ways to
store and the cut at the end of the buffer. `Tokens` of `SplitFormat` reads a format in the
same way.

### LogStatement

| code | action |
|---|---|
| level test and `EVERY_N` of `include/Log.h` | `TestLevel`, `Increment` |
| `writeLog` 168-172, `UpdateCurrentTm` | `NoMemory`, `StartLog` |
| `format` with `GetTimeString`, `GetPidStr`, `GetTidStr` | `FormatLine` |
| `checkFile` under `output`, `ClearCurrentTm` | `Output`, `EndLog` |
| an appender that a program uses directly | `DirectOutput` |
| new threads, `fork` with the handler `fork_child`, the clock | `CreateThread`, `Fork`, `ClockMoves` |

A text is the value it was printed from: `t_time` is the second whose text
it holds. Ids are never used again. A program forks while it has one thread,
as the comment at line 336 of `src/StrUtil.cc` demands. `Increment` is one step, as
`__sync_add_and_fetch` is. The counter is `Limit` wide, in two's complement.
`level_` is an integer that any thread may set: the test may go either
way at any time, and a statement that does not get through has no step.

`orphans` is an exception that the code makes: the handler that renews the cached
tid after a `fork` is registered by `GetPidStr` alone. A program whose formats
have `%t` but no `%P`, and that forks after its first line, goes on printing the tid
of its parent.

### TextConfig, RealPath, Startup

A line of the configuration is a sequence of tokens: the four characters the
code looks for, the components of paths, and everything else in one piece. A name of a file is a
sequence of components and slashes; components have a length, and some of
them begin or end with a dot, which `toRealPath` looks at. The buffer of `_realpath` is
described by what begins at each of its offsets. `ReadLine` is the loop of
`TextConfig`'s constructor; `BeginAtRoot`, `BeginAtHome`, `BeginAtCwd`, `Skip`, `BackUp`, `AddComponent`,
`Finish` are the branches of `_realpath`, `NoMemory` and `NoRoom` its errors, after
which the `assert` of `toRealPath` ends the program; `ConfRead`,
`SkipEmpty`, `Reject`, `FindFile`, `AddInstance`, `Configured` are the steps of `init`.

`Meant` is the reference for a path: the components that a walk from the
directory of the prefix leads to. It follows `example/example.conf`: a relative path goes by
`log.prefix` (line 26), and `./` and `../` mean the current directory (by line 25 `test.log` and
`./log/test.log`, with the prefix `./log`, are one file). The code tests for the dot alone
(`src/StrUtil.cc` line 198), so that a name whose first component only *begins* with a dot, such as
`.app/x.log`, is looked up in the current directory as well, against line 26. `Resolved` and what
`AsWritten` says of files leave these names out (`IsHidden`); `Canonical` and `InBuffer` hold of them too.

A file of the model comes with what it was written to express: the setting of each of
its lines and the fields of each of its entries. `Expresses`, `Padded` and `ConsistsOf` say,
without the loops of the code, what it is for a text to express that, and `FilesAssumption` and
`EntriesAssumption` that it does. They leave no text out: every line and every entry has such a reading, be it that
of an empty setting. `ReadsSettings` and `AsWritten` compare what `init` got with what
was meant. `AsWritten` says of every entry handled that it has the one instance with its name,
with its level and format, in the file that its path means; that two entries that mean
one file have one, however it is spelled; and that the file has the size its first entry
asks for. What is not a component, a slash, `.`, `..` or `~` has no place in a path:
`Names` is to contain every text that a path may.

## 3. Runs

| run | instance | shows |
|---|---|---|
| `threads` | 1 process, 2 threads, `%n` with 2 values, split at 2 lines, faults stat, clock, permission, stderr | `RotatedWasFull`, `ChecksAreSpaced`, `DescriptorStaysValid`, `TypeOK` |
| `processes` | 2 processes with 2 and 1 threads, `%P` and `%n`, 1 crash | `NoLogLost`, `RenameIsSafe` |
| `heal` | 1 process, 2 threads, fair; 2 faults among permission and crash, 1 removal | `StoreSpec`, `Heals`, `FullFileIsRotated`, `NoLogLost` |
| `statfails` | as `threads`, fault stat | *violates* `NoLogLost` |
| `nostderr` | 1 process, fair, fault stderr | *violates* `Heals` |
| `async` | 3 lines of 3 bytes and any number behind them, 2 starts, write and thread creation may fail, fair | `Conserved`, `LinesAreWhole`, `DrainedWhenStopped`, `SinkSpec`, `StopEnds`, `QueuedIsSettled`, `TypeOK` |
| `async_race` | 2 lines, 1 start | *violates* `AllWrittenWhenStopped` |
| `registry` | 6 configurations, 3 calls of `init`, 2 threads, 2 names, 2 files, 2 lines, fair | `OneAppenderPerFile`, `StoppedBeforeDeleted`, `LookupIsLive`, `NothingLostAtExit`, `WfLoggerIsCurrent`, `ExitEnds`, `TypeOK` |
| `formatter` | all formats of up to 4 of 5 characters and the special ones, 3 sets of values, 6 sizes of the buffer, fair | `LineIsMeant`, `StaysInBuffer`, `NothingUnset`, `PositionsInOrder`, `ParsingEnds`, `TypeOK` |
| `split_format` | 2 calls, all formats of up to 5 of 4 characters | *violates* `NameFollowsFormat` |
| `statement` | 2 processes, 2 threads, 2 statements, n of 2 and 3, a counter of 8 values, seconds of 2 fractions | `LineIsCurrent`, `OneInN`, `TypeOK` |
| `startup` | files with one instance (4 prefixes, all paths of up to 4 tokens of 6), two instances (2 prefixes, 6 spellings each, 4 sizes, 2 levels), or a wrong or empty entry; 4 values of HOME, 2 directories, a buffer of 6 bytes | `InBuffer`, `Canonical`, `Resolved`, `ReadsSettings`, `AsWritten`, `TypeOK` |

Bounds. Two threads of a process are what the double check under `splitMutex_` is
about, and a third thread in another process is what `%P` is about. A split size
of one or two lines makes every second line find a full file; two values of `%n`
let a name be taken, and let all names be taken. Clock values up to 4 with an
interval of 1 let several checks happen and let the clock step back across one.
The bound on files (`MaxFiles`) is above what the time bound lets the code
create, except in long runs, where `OpenLogFile` then waits; the liveness run
never reaches it. One fault or two, and one removal, suffice for each branch;
faults are spent in any order. For the queue, three lines let something be written, a batch
and the queue be non-empty at once; three bytes let a line be written in one to
three pieces; of the lines behind the three, one at a time waits (`MaxMore`), as often as there is room,
so that a worker that waited for an empty queue would run for ever. For the registry, the
configurations are two names on one file, on two files, one name twice, an entry of the wrong
form after a valid one, an empty one, and none; three calls of `init` let a call fail, succeed and be
repeated. For the formatter, four characters hold every pair of neighbours,
`%%L` and a percent sign at the end among them, and the sizes 19, 20 and 26 end within
the header, at its end or within the message of a special format. For a statement,
five executions lead the counter past its limit to a negative value that the
period does not divide; two threads are two threads of one process or, after a `fork`,
one of each of two; the clock covers two seconds, so that it can go on to the next and back.
For the startup, lengths of 1, 2 and 7 in a buffer of 6 let a component fit, miss by
the byte of the NUL, and need more than one `PATH_MAX`.

Deadlock is checked for the file appender: some thread can always log. It is not
for the queue, whose process may have ended (`aborted`), for the
registry, whose process ends, for the formatter, after its last line, for a
statement whose counter has reached `MaxCount`, and for the startup, which ends.

Fairness. `FairSpec` of `FileAppender` lets time pass, lets each thread that is
not waiting for a mutex run, and starts a process that is down; `WF` on a
thread's steps is what a preemptive scheduler gives, and `Write` always follows,
as `checkFile` has no unbounded loop. Nothing makes the operator act or a fault
occur or be repaired: `Heals` and `FullFileIsRotated` speak of the time after
the last one (`Quiet`) in which the log can be opened (`openable`), and of
processes that have a check to come before the clock's bound (`CheckToCome`).
`FullFileIsRotated` also asks that no thread is about to redirect the descriptor
to a file that has left the path (`NoStaleReopen`): such a thread opened the file
before it was moved, and undoes the redirection until the next check. `FairSpec`
of the queue lets the worker run and `join` return. The registry's `FairSpec` lets what
runs during `exit` take its steps, and the formatter's lets the loop run on.

What the violations say:

* `statfails`: line 262 takes every error of `stat` for a free name. A name that
  exists but cannot be examined is then overwritten, while `example/example.conf`
  lines 7-9 say the library does not rename onto an existing file and never loses
  a log.
* `nostderr`: the fallback to `/dev/stderr` (line 39) is not checked. When it
  fails too, `fd_` is -1, `dup2(fd, -1)` fails at every check, and the appender
  stays silent for good, while the comment at lines 37-38 says the log is found
  again after its permissions are repaired.
* `split_format`: `parseSplitFormat` appends to `formats_`, so that after a
  `setSplitFormat`, whose comment (`include/FileAppender.h` line 56) speaks of
  updating the format, rotated files are named after the old format and the new one.
* `async_race`: the unlocked `reserve` loses a line that `output` accepted before
  `stop`, while `dumpQueue` (comment at line 91) is there to write all of them as far as possible.

## 4. Proofs

All theorems hold for every value of the constants that meets the assumptions in
the modules: any number of threads, processes, files, lines. Run
`tlapm` on each of the seven modules `*Proofs.tla` and on `Recursion`.

* `TypeCorrect` (of the appenders, the registry and the formatter): the type
  invariants are inductive by themselves, with the parser's invariant in the formatter.
* `NeverLost`, `RenamesSafely`: assume that the names of different processes
  differ (`NamesDoNotClash`: the format has `%P`) and that `stat` fails only for
  missing files. `NoLogLost` is not inductive: that a name was free when looked
  at says nothing of the moment of the rename. The inductive invariant `IInv`
  says, of each thread between the loop and the rename, that its target is free
  *if the path still refers to the file it found full*, that a thread in `rename`
  holds `splitMutex_`, that the inode it compares with exists, and that no name
  refers to an inode not yet created. A rename by another thread of the process changes
  what the path refers to, which makes the premise false for ever, because an
  inode that has left the path does not come back; a rename by another process
  has another target.
* `Spaced`: the invariant `SpacedInv` adds that a thread in a check started it no
  later than the last recorded check of its process, and that two threads in
  checks are an interval apart. It needs no assumption: a clock set back only
  delays checks.
* `DescriptorKept`: a step property that follows from `TypeOK`.
* `OnlyFullFilesRotated`: assumes one process and an operator who moves nothing.
  `RInv` adds that a thread which found a file full compares with that file, and
  that a file once full stays so.
* `KeepsLogStore`: the file appender implements `LogStore`, under the assumptions of
  `NeverLost`. `SInv` adds to `IInv` that no file has two names (`OneNameEach`) and that
  descriptors refer to files that exist (`Opened`). That no log is overwritten is
  what makes `Rename` an `Archive`: a target that is not free would lose a file.
* `EveryLineInOnePlace`, `StopDrains`, `ImplementsSink`: `CInv` is `Conserved`
  together with what the worker holds: between the halves of `reserve` an ordered
  part of the queue, and nothing in `tmpQueue` except while it writes. `DInv` adds
  that a line accepted before the last `stop` that joined a worker waits only while `stop` joins the worker, and
  in the queue only until the last swap, for which a worker must have an owner
  (`LInv`: it runs for `asyncRunning_` or for the `stop` that joins it). Lines accepted later
  can only be in the queue when no worker runs, as `tmpQueue` is empty then. The
  refinement uses `CInv`: `WriteItem` delivers the *oldest* pending line because
  the batch precedes the queue.
* `WritesWholeLines`: `WInv` adds to `LinesAreWhole` that the last piece ends its line or
  ends at `sent` in the line that is being written (`GoesOn`).
* `FileHasOneAppender` (of the registry): `MInv` adds that `appenderMap_` leads from
  the file of a living appender to it (`MapFindsLive`), which makes the lookup in
  `init` find whatever exists.
* `StopsBeforeDeleting`, `WfStaysCurrent`: `LInv` says what each
  phase of the process allows (`Phases`), that the maps lead to what exists
  (`MapsLive`), that a worker runs only for a logger still to be deleted
  (`RunningIsUsed`, by which the deletion of the loggers stops the shared
  appenders too), and that until `exit` a thread has a logger only after `init` has returned
  with it (`ThreadsKnow`).
* `LookupsAreSafe`: while the mutex is free no name in `logMap_` leads to a deleted logger
  (`LookupsSafe`). In between `destroy` breaks that, and holds the mutex.
* `LosesNothingAtExit`: `QInv` adds that a `destroy` is registered whenever threads can get a logger
  (`Registered`), that the appenders of an asynchronous configuration run
  (`AsyncRuns`), and that a line waits only for a worker that a `destroy` to come
  will stop (`WaitsForWorker`).
* `ParserStaysInOrder`, `WritesInsideBuffer`, `LinesAreSet` (of `Formatter`): for formats and
  values of any length and a buffer of any size. `IInv` is `ParserInv`, which gives
  `pos <= use < Len(format)` and pieces of proper characters, and `BufferInv`: what
  is counted is at most the size, and all of it but the last byte of a full
  buffer is set. The exception is what `snprintf` needs, whose NUL takes that byte,
  and the newline of `writeLog` replaces it. `CopiedFits` and `PrintfFits` show it of
  the two ways to store, `StoreKeepsBufferInv` of any.

* `LinesAreCurrent` (of `LogStatement`): `CacheInv` says what each cache agrees with. `_tm` is the
  time of the line only between `StartLog` and `EndLog`; a text belongs to the second beside
  it, whichever that is; a cached pid is right from the registration of the handler on.
* `LetsOneInNThrough`: `CountInv` adds that counter and count are congruent modulo n, which is
  inductive past the wrap only if n divides the number of values, and relates
  the statements let through and not yet ended to the quotient. The
  lemmas on quotients (`NextQuotient`, `SumOfMultiples`) are proved from the uniqueness of division.
* `StaysInBuffer`, `PathsAreCanonical` (of `Startup`): for names, directories and buffers of any length.
  `PathInv` says that the buffer holds a tidy path that ends within it; `TidyCut` shows that
  what is before a slash of a tidy path is tidy, so that `..` keeps it, and `TidyAdd`
  that a component added behind a slash keeps it. The first slash is at offset 0, so a
  search for one ends.

The references that `SettingsAreRead`, `PathsAreThoseMeant`, `InstancesAreAsWritten` and
`LinesAreMeant` speak of are recursive functions over a sequence: the lines of a file, the
tokens of a path, the characters of a format. TLAPS has no induction scheme that these
provers can use, as it takes a predicate for its parameter. `Recursion` states it for a
*set* of numbers, from the least element of its complement (`Induction`), and that a
recursive function has the values its equations say (`RecursionExists`). All that follows
uses these two.

* `SettingsAreRead` (of `TextConfig`): a file of any length. `ConfInv` says of the number of lines read that
  what each key has is what a reader of so many settings would have (`HasRead`). The step takes a line apart as
  `ReadLine` does and shows that this is the one setting the line can express: the first `#`, the first
  colon before it, and what is left when blanks are taken off at both ends, are
  determined by `Expresses`.
* `PathsAreThoseMeant` (of `RealPath`): `PathMeans` says that the rest of the name leads from
  the path in the buffer to where the whole was meant to lead. Its three cases are lemmas on what
  `Components` makes of a buffer: a component added at the end, the last one taken off by `..`
  (whether a slash is behind it or not), and the slash at the end taken off. For these
  the buffer must be tidy, so that `PathInv` of the theorems above is part of the
  induction. That prefix, name and default name put together lead where a walk from one to the other leads
  is a property of walks alone (a walk along `p \o q` is one along `q` from where
  `p` leads).
* `InstancesAreAsWritten` (of `Startup`): `ConfiguredInv` says that the entries handled so far are the first n,
  that each has its instance (`AreConfigured`), and that the path being
  resolved is the one its entry means (`ResolvesEntry`). When it has been resolved, `Canonical` makes the
  components a key: two paths with the same components are one text (`OnePath`), so
  that the lookup by text in `init` finds an appender exactly when there is one for that file.
* `LinesAreMeant` (of `Formatter`): for formats, values and buffers of any length. While the parser runs there is
  a function c that says where in the format each piece ends (`CutBy`): piece k is the text from c[k-1] to
  the directive before c[k], and no directive is left between the last cut and where the parser looks next
  (`PartlyCutBy`). In the loop over the pieces, what has been stored is the line
  described up to the cut (`Progress`), or a full buffer that begins as the line does
  (`HoldsCut`). For a special format the function is shown to print what the format's twenty-odd characters
  describe (`VerboseIsDescribed`, `MiddleIsDescribed`, `SimpleIsDescribed`). The two
  hypotheses of `LineIsMeant`, one `%M` at most and no failed `snprintf`, are used where the code needs
  them: a second `%M` finds the arguments consumed.

Only model-checked: the liveness properties `Heals`, `FullFileIsRotated`, `StopEnds`,
`QueuedIsSettled`, `ExitEnds`, `ParsingEnds`, as the prover has no fairness or
`ENABLED`. Every safety property of a passing run is the statement of a theorem.

## 5. Plan

The modules were written in the order of the risk: the rotation, the queue, the
registry, the formatter, then the abstract store, the statement with its caches, and the
way from the configuration to the files. What is left, in this order:

1. The composition of the queue with `FileAppender`, whose worker is then one of
   its threads: what short writes do to lines of different processes in one file.
2. `output()` by bytes, and a change of the interval, the size or the split format while
   threads log.
3. `HOME` unset or empty, with the contents of an uninitialised buffer as a choice.
4. A proof that `NameFollowsFormat` holds up to the second call of `setSplitFormat`: the cuts of the
   parser (`CutBy`) give the pieces, and what is missing is the list of tokens they make.

## 6. Not modelled

* The tests and examples are programs that use the library. `Appender` is an
  interface. The C interface forwards its calls.
* Sizes in bytes of a log file, the texts of lines and the syntax of dates have no influence on the
  properties above and are abstracted, in `Formatter` too, where the value of a
  directive is any string.
* `output()` (`src/FileAppender.cc` line 296) ignores a short `write`: the rest of the line is
  lost, and the model of `Write` takes the line as written. The worker's loop, which does
  go on, is modelled.
* `_realpath` does not follow symbolic links: a file that is reached through one
  and without it gets two appenders. Paths in the model have no links.
* A name that begins with `~` and a user's name is taken by the code for a
  directory below `HOME`; such names are not tried. `HOME` is set and not empty
  (`TextsAssumption`): otherwise line 87 of `src/StrUtil.cc` searches an uninitialised buffer. It is also
  taken to be an absolute path without `.`, `..` or double slashes, which a slash may end: lines 72-78 copy it
  unchecked, so that with another `HOME` a name below `~` has a path that is not absolute or not canonical.
* `toRealPath` trims the path, the prefix and the default name; they come to it
  trimmed by `TextConfig` and `splitCheck`, so that this changes nothing and is left out.
* `log.async` and `log.splitFormat` are settings like others; what they choose is in
  `LoggerRegistry` and `SplitFormat`. `setLogName` replaces the name that `%N` prints.
* A `fork` of a process with several threads, which the code excludes.
* The macros `LOGGER_FATAL` and `LOGGER_WARN` do not compile and are left out.
