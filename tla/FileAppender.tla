----------------------------- MODULE FileAppender -----------------------------
(***************************************************************************)
(* The synchronous appender of fslog (FileAppender.cc): several threads of *)
(* several processes append lines to one log file.  At most once per       *)
(* interval a thread checks the file before it writes: a file that was     *)
(* removed or moved is opened again, a full file is renamed and a new one  *)
(* created.  Threads of a process share the descriptor fd_, the time of    *)
(* the last check and two mutexes; processes share only the directory.     *)
(*                                                                         *)
(* One step is one system call or one critical section, so the calls of    *)
(* different threads and processes interleave as the kernel lets them.     *)
(* An open file is identified with its inode; inodes are numbered in order *)
(* of creation and never reused.                                           *)
(***************************************************************************)
EXTENDS Integers, FiniteSets

CONSTANTS
    Procs,          \* the processes that log to the file
    Threads,        \* the logging threads of all processes
    ProcOf,         \* the process of each thread
    Directives,     \* what log.splitFormat appends to the name of a full file
    SplitSize,      \* splitSize_, in lines
    CheckInterval,  \* checkTimeInterval_
    SeqLimit,       \* number of values of %n (1000 in the code)
    Faults,         \* the faults the environment may inject
    NoThread,       \* holder of a free mutex
    MaxTime, MaxFiles, MaxTaken, MaxFaults   \* bounds of the model

DirectiveKinds == {"raw", "time", "pid", "seq"}
FaultKinds == {"permission", "stderr", "stat", "crash", "clock"}

ASSUME ThreadsAssumption ==
    /\ ProcOf \in [Threads -> Procs]
    /\ NoThread \notin Threads
ASSUME FormatAssumption ==
    /\ Directives \subseteq DirectiveKinds
    /\ Faults \subseteq FaultKinds
ASSUME SizesAssumption ==
    /\ {SplitSize, CheckInterval, SeqLimit, MaxFiles} \subseteq Nat \ {0}
    /\ {MaxTaken, MaxFaults} \subseteq Nat
    /\ MaxTime \in Nat /\ CheckInterval <= MaxTime

None == 0       \* no inode: a name without a file, an invalid descriptor
StdErr == -1    \* the inode of /dev/stderr
Files == 1..MaxFiles
Times == 0..MaxTime
SeqNos == 0..(SeqLimit - 1)

(* A file name is the path of the log and the values of the directives
   appended to it; two names are equal when all the values are. *)
Path == [d \in {} |-> d]

\* Faulty variant: the process number is left out of the name.
NewFilenameWithoutPid(p, now, n) ==
    [d \in Directives |-> CASE d = "raw" -> "raw"
                            [] d = "time" -> now
                            [] d = "pid" -> "pid"
                            [] d = "seq" -> n]

NewFilename(p, now, n) ==
    [d \in Directives |-> CASE d = "raw" -> "raw"
                            [] d = "time" -> now
                            [] d = "pid" -> p
                            [] d = "seq" -> n]

Names ==
    {Path} \cup {NewFilename(p, now, n) : p \in Procs, now \in Times, n \in SeqNos}

VARIABLES
    clock,       \* gettimeofday(), in seconds
    dir,         \* the inode each name refers to
    size,        \* the lines in each inode, counted up to SplitSize
    nfiles,      \* the inodes created so far
    taken,       \* the inodes an operator has removed or moved away
    openable,    \* whether the permissions let open() and rename() succeed
    faults,      \* the faults injected so far
    up,          \* the processes whose appender exists
    fd,          \* fd_ of each process
    lastcheck,   \* lastcheck_ of each process
    splitMutex,  \* the thread that holds splitMutex_ of each process
    pc,          \* what each thread does next
    tm,          \* the thread's cached time, 0 when cleared
    chk          \* the locals of checkFile() and reopen() of each thread

world == <<clock, dir, size, nfiles, taken, openable, faults>>
shared == <<up, fd, lastcheck, splitMutex>>
local == <<pc, tm, chk>>
vars == <<world, shared, local>>

CheckSteps == {"fstat", "stat", "pick", "split", "rename", "open", "dup2"}
Steps == {"off", "idle", "gate", "write"} \cup CheckSteps
Checks == [stFd : {StdErr, None} \cup Files, stFile : {None} \cup Files,
           seq : SeqNos, newfd : {None} \cup Files]
NoCheck == [stFd |-> None, stFile |-> None, seq |-> 0, newfd |-> None]

ThreadsOf(p) == {t \in Threads : ProcOf[t] = p}

Init ==
    /\ clock = CheckInterval
    /\ dir = [n \in Names |-> None]
    /\ size = [i \in Files |-> 0]
    /\ nfiles = 0
    /\ taken = {}
    /\ openable = TRUE
    /\ faults = 0
    /\ up = [p \in Procs |-> FALSE]
    /\ fd = [p \in Procs |-> None]
    /\ lastcheck = [p \in Procs |-> 0]
    /\ splitMutex = [p \in Procs |-> NoThread]
    /\ pc = [t \in Threads |-> "off"]
    /\ tm = [t \in Threads |-> 0]
    /\ chk = [t \in Threads |-> NoCheck]

-----------------------------------------------------------------------------
(* The environment: time, the operator, and what may fail. *)

Tick ==
    /\ clock < MaxTime
    /\ clock' = clock + 1
    /\ UNCHANGED <<dir, size, nfiles, taken, openable, faults, shared, local>>

Inject(kind) ==
    /\ kind \in Faults
    /\ faults < MaxFaults
    /\ faults' = faults + 1

(* The clock is the wall clock: it may be set back. *)
ClockStepsBack ==
    /\ Inject("clock")
    /\ clock > CheckInterval
    /\ clock' = clock - 1
    /\ UNCHANGED <<dir, size, nfiles, taken, openable, shared, local>>

(* An operator removes the file called n, or moves it out of the names used. *)
OperatorTakes(n) ==
    /\ dir[n] # None
    /\ Cardinality(taken) < MaxTaken
    /\ taken' = taken \cup {dir[n]}
    /\ dir' = [dir EXCEPT ![n] = None]
    /\ UNCHANGED <<clock, size, nfiles, openable, faults, shared, local>>

TogglePermission ==
    /\ Inject("permission")
    /\ openable' = ~openable
    /\ UNCHANGED <<clock, dir, size, nfiles, taken, shared, local>>

Crash(p) ==
    /\ Inject("crash")
    /\ up[p]
    /\ up' = [up EXCEPT ![p] = FALSE]
    /\ fd' = [fd EXCEPT ![p] = None]
    /\ splitMutex' = [splitMutex EXCEPT ![p] = NoThread]
    /\ pc' = [t \in Threads |-> IF ProcOf[t] = p THEN "off" ELSE pc[t]]
    /\ tm' = [t \in Threads |-> IF ProcOf[t] = p THEN 0 ELSE tm[t]]
    /\ chk' = [t \in Threads |-> IF ProcOf[t] = p THEN NoCheck ELSE chk[t]]
    /\ UNCHANGED <<clock, dir, size, nfiles, taken, openable, lastcheck>>

-----------------------------------------------------------------------------
(* openLogFile(path_) succeeds and yields inode i: O_CREAT makes the file when
   the name is free; reopen() creates a missing directory and tries again. *)
OpenLogFile(i) ==
    /\ openable
    /\ \/ /\ dir[Path] # None
          /\ i = dir[Path]
          /\ UNCHANGED <<dir, nfiles>>
       \/ /\ dir[Path] = None
          /\ nfiles < MaxFiles
          /\ i = nfiles + 1
          /\ nfiles' = i
          /\ dir' = [dir EXCEPT ![Path] = i]

OpenFails == ~openable /\ UNCHANGED <<dir, nfiles>>

(* The constructor falls back to /dev/stderr, which may not open either. *)
Construct(p) ==
    /\ ~up[p]
    /\ \/ \E i \in Files : OpenLogFile(i) /\ fd' = [fd EXCEPT ![p] = i]
       \/ OpenFails /\ fd' = [fd EXCEPT ![p] = StdErr]
       \/ OpenFails /\ "stderr" \in Faults /\ fd' = [fd EXCEPT ![p] = None]
    /\ up' = [up EXCEPT ![p] = TRUE]
    /\ lastcheck' = [lastcheck EXCEPT ![p] = 0]
    /\ pc' = [t \in Threads |-> IF ProcOf[t] = p THEN "idle" ELSE pc[t]]
    /\ UNCHANGED <<clock, size, taken, openable, faults, splitMutex, tm, chk>>

-----------------------------------------------------------------------------
(* One line logged by thread t. *)

Goto(t, from, to) == pc[t] = from /\ pc' = [pc EXCEPT ![t] = to]

(* checkFile() returns: its locals are gone, the line is written next. *)
LeaveCheck(t, from) ==
    /\ Goto(t, from, "write")
    /\ chk' = [chk EXCEPT ![t] = NoCheck]

StartLog(t) ==
    /\ Goto(t, "idle", "gate")
    /\ tm' = [tm EXCEPT ![t] = clock]
    /\ UNCHANGED <<world, shared, chk>>

\* Faulty variant: the time of the check is not recorded.
GateWithoutRecording(t) ==
    /\ \/ /\ lastcheck[ProcOf[t]] + CheckInterval > tm[t]
          /\ Goto(t, "gate", "write")
       \/ /\ lastcheck[ProcOf[t]] + CheckInterval <= tm[t]
          /\ Goto(t, "gate", "fstat")
    /\ UNCHANGED <<world, shared, tm, chk>>

(* The critical section of checkMutex_. *)
Gate(t) ==
    /\ \/ /\ lastcheck[ProcOf[t]] + CheckInterval > tm[t]
          /\ Goto(t, "gate", "write")
          /\ UNCHANGED lastcheck
       \/ /\ lastcheck[ProcOf[t]] + CheckInterval <= tm[t]
          /\ Goto(t, "gate", "fstat")
          /\ lastcheck' = [lastcheck EXCEPT ![ProcOf[t]] = tm[t]]
    /\ UNCHANGED <<world, up, fd, splitMutex, tm, chk>>

FstatFd(t) ==
    /\ Goto(t, "fstat", "stat")
    /\ chk' = [chk EXCEPT ![t].stFd = fd[ProcOf[t]]]
    /\ UNCHANGED <<world, shared, tm>>

(* stat(path_).  The file is gone or is another one: reopen.  It is full: look
   for a new name.  It has room, or stat failed otherwise: write. *)
StatPath(t) ==
    /\ \/ /\ dir[Path] = None \/ dir[Path] # chk[t].stFd
          /\ Goto(t, "stat", "open")
          /\ UNCHANGED chk
       \/ /\ dir[Path] # None /\ dir[Path] = chk[t].stFd
          /\ size[dir[Path]] >= SplitSize
          /\ Goto(t, "stat", "pick")
          /\ chk' = [chk EXCEPT ![t].stFile = dir[Path]]
       \/ /\ dir[Path] # None /\ dir[Path] = chk[t].stFd
          /\ size[dir[Path]] < SplitSize
          /\ LeaveCheck(t, "stat")
       \/ /\ "stat" \in Faults
          /\ LeaveCheck(t, "stat")
    /\ UNCHANGED <<world, shared, tm>>

(* The name thread t tries, and the one it renames the file to. *)
Target(t) == NewFilename(ProcOf[t], tm[t], chk[t].seq)

\* Faulty variant: the loop tries one name too many.
PickNameOffByOne(t) ==
    /\ pc[t] = "pick"
    /\ \/ /\ dir[Target(t)] = None \/ "stat" \in Faults
          /\ Goto(t, "pick", "split")
          /\ UNCHANGED chk
       \/ /\ dir[Target(t)] # None
          /\ chk[t].seq < SeqLimit
          /\ chk' = [chk EXCEPT ![t].seq = @ + 1]
          /\ UNCHANGED pc
    /\ UNCHANGED <<world, shared, tm>>

\* Faulty variant: the name is taken without a look at the directory.
PickNameUnchecked(t) ==
    /\ Goto(t, "pick", "split")
    /\ UNCHANGED <<world, shared, tm, chk>>

(* One iteration of the loop over %n.  Any error of stat counts as a free name;
   when all the names are taken the file stays as it is. *)
PickName(t) ==
    /\ pc[t] = "pick"
    /\ \/ /\ dir[Target(t)] = None \/ "stat" \in Faults
          /\ Goto(t, "pick", "split")
          /\ UNCHANGED chk
       \/ /\ dir[Target(t)] # None
          /\ chk[t].seq + 1 < SeqLimit
          /\ chk' = [chk EXCEPT ![t].seq = @ + 1]
          /\ UNCHANGED pc
       \/ /\ dir[Target(t)] # None
          /\ chk[t].seq + 1 = SeqLimit
          /\ LeaveCheck(t, "pick")
    /\ UNCHANGED <<world, shared, tm>>

\* Faulty variant: no second look at the path under the mutex.
SplitWithoutDoubleCheck(t) ==
    /\ splitMutex[ProcOf[t]] = NoThread
    /\ Goto(t, "split", "rename")
    /\ splitMutex' = [splitMutex EXCEPT ![ProcOf[t]] = t]
    /\ UNCHANGED <<world, up, fd, lastcheck, tm, chk>>

(* splitMutex_ is locked and the path looked up again; the mutex is released
   at once unless the path still is the file found full. *)
StatAgain(t) ==
    /\ splitMutex[ProcOf[t]] = NoThread
    /\ \/ /\ dir[Path] = chk[t].stFile
          /\ Goto(t, "split", "rename")
          /\ splitMutex' = [splitMutex EXCEPT ![ProcOf[t]] = t]
          /\ UNCHANGED chk
       \/ /\ dir[Path] # chk[t].stFile \/ "stat" \in Faults
          /\ LeaveCheck(t, "split")
          /\ UNCHANGED splitMutex
    /\ UNCHANGED <<world, up, fd, lastcheck, tm>>

(* rename() replaces a file that has the new name; its result is not looked at. *)
Rename(t) ==
    /\ Goto(t, "rename", "open")
    /\ \/ /\ dir[Path] # None /\ Target(t) # Path
          /\ dir' = [dir EXCEPT ![Target(t)] = dir[Path], ![Path] = None]
       \/ /\ dir[Path] = None \/ Target(t) = Path \/ ~openable
          /\ UNCHANGED dir
    /\ UNCHANGED <<clock, size, nfiles, taken, openable, faults, shared, tm, chk>>

\* Faulty variant: the file is opened with O_TRUNC.
OpenLogTruncating(t) ==
    /\ Goto(t, "open", "dup2")
    /\ \/ \E i \in Files : /\ OpenLogFile(i)
                           /\ chk' = [chk EXCEPT ![t].newfd = i]
                           /\ size' = [size EXCEPT ![i] = 0]
       \/ OpenFails /\ chk' = [chk EXCEPT ![t].newfd = None] /\ UNCHANGED size
    /\ UNCHANGED <<clock, taken, openable, faults, shared, tm>>

(* reopen(): the open. *)
OpenLog(t) ==
    /\ Goto(t, "open", "dup2")
    /\ \/ \E i \in Files : OpenLogFile(i) /\ chk' = [chk EXCEPT ![t].newfd = i]
       \/ OpenFails /\ chk' = [chk EXCEPT ![t].newfd = None]
    /\ UNCHANGED <<clock, size, taken, openable, faults, shared, tm>>

\* Faulty variant: the mutex stays locked.
KeepSplitMutex(t) == UNCHANGED splitMutex

ReleaseSplitMutex(t) ==
    splitMutex' = [splitMutex EXCEPT ![ProcOf[t]] = IF @ = t THEN NoThread ELSE @]

\* Faulty variant: fd_ is assigned what open() returned, an error included.
AssignDescriptor(t) ==
    /\ LeaveCheck(t, "dup2")
    /\ fd' = [fd EXCEPT ![ProcOf[t]] = chk[t].newfd]
    /\ ReleaseSplitMutex(t)
    /\ UNCHANGED <<world, up, lastcheck, tm>>

\* Faulty variant: the new file is opened and closed, fd_ never redirected.
CloseWithoutDup2(t) ==
    /\ LeaveCheck(t, "dup2")
    /\ ReleaseSplitMutex(t)
    /\ UNCHANGED <<world, up, fd, lastcheck, tm>>

(* reopen(): dup2(fd, fd_) redirects fd_ atomically, and fails without effect
   when either descriptor is invalid; the checkFile() that called it returns. *)
Dup2(t) ==
    /\ LeaveCheck(t, "dup2")
    /\ \/ /\ chk[t].newfd # None /\ fd[ProcOf[t]] # None
          /\ fd' = [fd EXCEPT ![ProcOf[t]] = chk[t].newfd]
       \/ /\ chk[t].newfd = None \/ fd[ProcOf[t]] = None
          /\ UNCHANGED fd
    /\ ReleaseSplitMutex(t)
    /\ UNCHANGED <<world, up, lastcheck, tm>>

(* write(fd_) appends to the file fd_ refers to by now; writeLog() clears the
   cached time. *)
Write(t) ==
    /\ Goto(t, "write", "idle")
    /\ size' = [i \in Files |->
                  IF i = fd[ProcOf[t]] /\ size[i] < SplitSize THEN size[i] + 1 ELSE size[i]]
    /\ tm' = [tm EXCEPT ![t] = 0]
    /\ UNCHANGED <<clock, dir, nfiles, taken, openable, faults, shared, chk>>

ThreadStep(t) ==
    \/ StartLog(t) \/ Gate(t) \/ FstatFd(t) \/ StatPath(t) \/ PickName(t)
    \/ StatAgain(t) \/ Rename(t) \/ OpenLog(t) \/ Dup2(t) \/ Write(t)

Next ==
    \/ Tick
    \/ ClockStepsBack
    \/ \E n \in Names : OperatorTakes(n)
    \/ TogglePermission
    \/ \E p \in Procs : Construct(p) \/ Crash(p)
    \/ \E t \in Threads : ThreadStep(t)

Spec == Init /\ [][Next]_vars

(* Time passes, a process that is down is started, a thread that is not blocked
   is scheduled, and the program goes on logging.  Nothing makes the operator
   act or a fault happen. *)
Fairness ==
    /\ WF_vars(Tick)
    /\ \A p \in Procs : WF_vars(Construct(p))
    /\ \A t \in Threads : WF_vars(ThreadStep(t))

FairSpec == Spec /\ Fairness

-----------------------------------------------------------------------------
(* What the appender guarantees. *)

(* Every variable has its type; the locals of checkFile() that name an inode
   name one that exists. *)
TypeOK ==
    /\ clock \in Times
    /\ dir \in [Names -> {None} \cup Files]
    /\ size \in [Files -> 0..SplitSize]
    /\ nfiles \in {0} \cup Files
    /\ taken \subseteq Files
    /\ openable \in BOOLEAN
    /\ faults \in 0..MaxFaults
    /\ up \in [Procs -> BOOLEAN]
    /\ fd \in [Procs -> {StdErr, None} \cup Files]
    /\ lastcheck \in [Procs -> Times]
    /\ splitMutex \in [Procs -> Threads \cup {NoThread}]
    /\ pc \in [Threads -> Steps]
    /\ tm \in [Threads -> Times]
    /\ chk \in [Threads -> Checks]

(* No file of log lines is ever overwritten by a rename: every file created is
   still in the directory unless an operator took it away (the stat() loop, the
   double check under splitMutex_ and the process number in the name). *)
NoLogLost ==
    \A i \in 1..nfiles : i \in taken \/ \E n \in Names : dir[n] = i

(* What a thread found out before it locked splitMutex_ still holds when it
   matters: as long as the path refers to the file it found full the name it
   picked is free, and under the mutex it is free whatever else happens. *)
RenameIsSafe ==
    \A t \in Threads :
        /\ pc[t] = "split" /\ dir[Path] = chk[t].stFile => dir[Target(t)] = None
        /\ pc[t] = "rename" => dir[Target(t)] = None /\ Target(t) # Path

(* With one process and no operator, only full files are ever moved aside: two
   threads that both saw the full file never rotate twice, which would put the
   fresh file, nearly empty, under a new name (the double check). *)
RotatedWasFull ==
    \A n \in Names \ {Path} : dir[n] # None => size[dir[n]] = SplitSize

(* Threads of one process that are checking the file at the same time started
   at times at least an interval apart: the gate lets one in per interval. *)
ChecksAreSpaced ==
    \A t, u \in Threads :
        /\ t # u /\ ProcOf[t] = ProcOf[u]
        /\ pc[t] \in CheckSteps /\ pc[u] \in CheckSteps
        => tm[t] - tm[u] >= CheckInterval \/ tm[u] - tm[t] >= CheckInterval

(* While a process lives, a descriptor that refers to a log file never falls
   back to /dev/stderr or becomes invalid, whatever fails in reopen(). *)
DescriptorStaysValid ==
    [][\A p \in Procs : up[p] /\ up'[p] /\ fd[p] \in Files => fd'[p] \in Files]_vars

(* The files that have another name than the log's. *)
Archived == {dir[n] : n \in Names \ {Path}} \ {None}
Store == INSTANCE LogStore WITH
    created <- nfiles, current <- dir[Path], archived <- Archived, removed <- taken, lines <- size
(* All processes and threads together keep a log store: files are created, archived
   and removed one after the other, none is lost, none comes back, and none
   gets shorter (O_APPEND without O_TRUNC, the search for a free name, and the
   rename of what the path refers to by then). *)
StoreSpec == Store!Spec

(* The environment has used up what it may do. *)
Quiet == faults = MaxFaults /\ Cardinality(taken) = MaxTaken

(* Another check is due before the clock reaches the bound. *)
CheckToCome(p) == up[p] /\ lastcheck[p] + CheckInterval <= MaxTime

(* A process whose log file was removed, moved or could not be opened ends up
   writing to the file at the path, once nothing goes wrong any more: the next
   check opens it and redirects fd_. *)
Heals ==
    \A p \in Procs :
        Quiet /\ openable /\ CheckToCome(p) ~> fd[p] = dir[Path] /\ fd[p] \in Files

(* No thread of p is about to redirect fd_ to a file that left the path. *)
NoStaleReopen(p) == \A t \in ThreadsOf(p) : chk[t].newfd \in {None, dir[Path]}

(* A full file is moved aside at the next check. *)
FullFileIsRotated ==
    \A p \in Procs, i \in Files :
        /\ Quiet /\ openable /\ CheckToCome(p) /\ NoStaleReopen(p)
        /\ fd[p] = i /\ dir[Path] = i /\ size[i] = SplitSize
        ~> dir[Path] # i
===============================================================================
