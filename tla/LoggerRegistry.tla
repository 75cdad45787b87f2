---------------------------- MODULE LoggerRegistry -----------------------------
(***************************************************************************)
(* The registry of loggers (Log.cc).  init() reads the configuration and   *)
(* makes one logger per instance and one appender per file; instances with *)
(* the same file share its appender.  Threads keep references to loggers   *)
(* and write lines through them.  At exit destroy() deletes the loggers,   *)
(* whose destructors stop their appenders, and then the appenders.         *)
(*                                                                         *)
(* A logger is identified with the name of its instance.  An asynchronous  *)
(* appender is modelled by how many lines are in its queue: its worker     *)
(* writes them one by one, and its stop() writes the rest, which is what   *)
(* AsyncFileAppender establishes.                                          *)
(*                                                                         *)
(* Nothing waits for the threads: exit() may run while they log, and one   *)
(* that goes on with a logger which destroy() has deleted reads freed      *)
(* memory.  They do not look loggers up before the first init() or while   *)
(* one fills logMap_, which it does without the mutex: an assumption about *)
(* the callers, who in the tests and the examples call init() first.       *)
(***************************************************************************)
EXTENDS Integers, Sequences, FiniteSets

CONSTANTS
    Names,      \* the names of instances, WfName among them
    WfName,     \* WFLOGINSTANCE, the instance for warnings
    Paths,      \* the files, after toRealPath()
    Threads,    \* the threads that log
    Confs,      \* the possible values of log.instance, in order
    NoLogger, DummyLogger, NoFile,
    MaxAppenders, MaxInits, MaxLines    \* bounds of the model

(* An entry of log.instance is empty, of the wrong form, or valid. *)
Entries == [kind : {"empty", "wrong", "valid"}, name : Names, path : Paths]

ASSUME NamesAssumption ==
    /\ WfName \in Names
    /\ NoLogger \notin Names /\ DummyLogger \notin Names /\ NoLogger # DummyLogger
ASSUME PathsAssumption == NoFile \notin Paths
ASSUME ConfsAssumption == Confs \subseteq Seq(Entries)
ASSUME BoundsAssumption == {MaxAppenders, MaxInits, MaxLines} \subseteq Nat

None == 0
Appenders == 1..MaxAppenders

VARIABLES
    status,         \* of the process: "up", "exiting" (in exit()), "exited" or "crashed"
    main,           \* what the main thread is doing
    todo,           \* the entries init() has still to configure
    async,          \* log.async
    inits,          \* the calls of init() so far
    dummy,          \* whether dummyLogger has been created
    logMap,         \* the appender of each logger in logMap_
    freed,          \* the loggers deleted
    appenderMap,    \* appenderMap_
    wfLogger,       \* pWfLogger_
    mutex,          \* whether mutex_ is held
    handlers,       \* how often destroy() is registered with atexit()
    nappenders,     \* the appenders created so far
    file,           \* the file of each appender
    live,           \* the appenders that exist
    running,        \* the appenders with a worker
    queued,         \* the lines logged before exit() that wait in each appender
    pc, ref         \* what each thread does, and the logger it refers to

registry == <<dummy, logMap, freed, appenderMap, wfLogger>>
appenders == <<nappenders, file, live, running>>
process == <<status, main, todo, async, inits, mutex, handlers>>
vars == <<process, registry, appenders, queued, pc, ref>>

Init ==
    /\ status = "up" /\ main = "idle" /\ todo = <<>> /\ async = FALSE
    /\ inits = 0 /\ mutex = FALSE /\ handlers = 0
    /\ dummy = FALSE /\ freed = {} /\ wfLogger = NoLogger
    /\ logMap = [n \in Names |-> None]
    /\ appenderMap = [f \in Paths |-> None]
    /\ nappenders = 0 /\ live = {} /\ running = {}
    /\ file = [a \in Appenders |-> NoFile]
    /\ queued = [a \in Appenders |-> 0]
    /\ pc = [t \in Threads |-> "idle"]
    /\ ref = [t \in Threads |-> NoLogger]

-----------------------------------------------------------------------------
(* init() *)

Inited == \E n \in Names : logMap[n] # None

(* It fails when there are loggers already or the file cannot be opened;
   dummyLogger is new each time, the one before it is never deleted. *)
CallInit(conf, isAsync) ==
    /\ status = "up" /\ main = "idle"
    /\ inits < MaxInits /\ inits' = inits + 1
    /\ dummy' = TRUE
    /\ \/ ~Inited /\ main' = "configuring" /\ todo' = conf /\ async' = isAsync
       \/ UNCHANGED <<main, todo, async>>
    /\ UNCHANGED <<status, mutex, handlers, logMap, freed, appenderMap, wfLogger,
                   appenders, queued, pc, ref>>

SkipEmptyEntry ==
    /\ main = "configuring" /\ todo # <<>> /\ Head(todo).kind = "empty"
    /\ todo' = Tail(todo)
    /\ UNCHANGED <<status, main, async, inits, mutex, handlers, registry, appenders,
                   queued, pc, ref>>

(* exit(1) in the middle of init(). *)
RejectEntry ==
    /\ main = "configuring" /\ todo # <<>>
    /\ \/ Head(todo).kind = "wrong"
       \/ Head(todo).kind = "valid" /\ logMap[Head(todo).name] # None
    /\ status' = "exiting" /\ main' = "idle" /\ todo' = <<>>
    /\ UNCHANGED <<async, inits, mutex, handlers, registry, appenders, queued, pc, ref>>

\* Faulty variant: the appender of another instance with the file is not looked for.
AppenderForAlways(path, a) ==
    /\ nappenders < MaxAppenders
    /\ a = nappenders + 1
    /\ nappenders' = a
    /\ file' = [file EXCEPT ![a] = path]
    /\ live' = live \cup {a}
    /\ running' = IF async THEN running \cup {a} ELSE running
    /\ appenderMap' = [appenderMap EXCEPT ![path] = a]

(* The appender for a file: the one in appenderMap_, or a new one, which is
   started.  Whether the file opened makes no difference to the registry. *)
AppenderFor(path, a) ==
    \/ /\ appenderMap[path] # None
       /\ a = appenderMap[path]
       /\ UNCHANGED <<appenders, appenderMap>>
    \/ /\ appenderMap[path] = None
       /\ nappenders < MaxAppenders
       /\ a = nappenders + 1
       /\ nappenders' = a
       /\ file' = [file EXCEPT ![a] = path]
       /\ live' = live \cup {a}
       /\ running' = IF async THEN running \cup {a} ELSE running
       /\ appenderMap' = [appenderMap EXCEPT ![path] = a]

ConfigureInstance ==
    /\ main = "configuring" /\ todo # <<>> /\ Head(todo).kind = "valid"
    /\ logMap[Head(todo).name] = None
    /\ \E a \in Appenders :
         /\ AppenderFor(Head(todo).path, a)
         /\ logMap' = [logMap EXCEPT ![Head(todo).name] = a]
    /\ todo' = Tail(todo)
    /\ UNCHANGED <<status, main, async, inits, mutex, handlers, dummy, freed, wfLogger,
                   queued, pc, ref>>

\* Faulty variant: destroy() is not registered.
InitReturnsUnregistered ==
    /\ main = "configuring" /\ todo = <<>>
    /\ main' = "idle"
    /\ wfLogger' = IF logMap[WfName] # None THEN WfName ELSE DummyLogger
    /\ UNCHANGED <<status, todo, async, inits, mutex, handlers, dummy, logMap, freed,
                   appenderMap, appenders, queued, pc, ref>>

\* Faulty variant: the wf logger set by an earlier init() is kept.
InitReturnsKeepingWf ==
    /\ main = "configuring" /\ todo = <<>>
    /\ main' = "idle"
    /\ wfLogger' = IF wfLogger # NoLogger THEN wfLogger
                   ELSE IF logMap[WfName] # None THEN WfName ELSE DummyLogger
    /\ handlers' = handlers + 1
    /\ UNCHANGED <<status, todo, async, inits, mutex, dummy, logMap, freed, appenderMap,
                   appenders, queued, pc, ref>>

\* Faulty variant: destroy() is registered twice.
InitReturnsRegisteringTwice ==
    /\ main = "configuring" /\ todo = <<>>
    /\ main' = "idle"
    /\ wfLogger' = IF logMap[WfName] # None THEN WfName ELSE DummyLogger
    /\ handlers' = handlers + 2
    /\ UNCHANGED <<status, todo, async, inits, mutex, dummy, logMap, freed, appenderMap,
                   appenders, queued, pc, ref>>

(* No entry is left: the wf logger is set and destroy() registered. *)
InitReturns ==
    /\ main = "configuring" /\ todo = <<>>
    /\ main' = "idle"
    /\ wfLogger' = IF logMap[WfName] # None THEN WfName ELSE DummyLogger
    /\ handlers' = handlers + 1
    /\ UNCHANGED <<status, todo, async, inits, mutex, dummy, logMap, freed, appenderMap,
                   appenders, queued, pc, ref>>

-----------------------------------------------------------------------------
(* The threads. *)

(* GetInstance(n), under mutex_. *)
GetInstance(t, n) ==
    /\ pc[t] = "idle" /\ ~mutex
    /\ dummy /\ main # "configuring"
    /\ ref' = [ref EXCEPT ![t] = IF logMap[n] # None THEN n ELSE DummyLogger]
    /\ UNCHANGED <<process, registry, appenders, queued, pc>>

(* canLog() and writeLog() up to output(); the level of dummyLogger lets no line
   through. *)
StartLog(t) ==
    /\ pc[t] = "idle" /\ ref[t] \in Names
    /\ pc' = [pc EXCEPT ![t] = "output"]
    /\ UNCHANGED <<process, registry, appenders, queued, ref>>

\* The logger that thread t holds, and its appender, have not been deleted.
Alive(t) == ref[t] \notin freed /\ logMap[ref[t]] \in live

(* The appender's output() writes the line or queues it.  No promise is made of lines
   logged after exit() was called: a stopped appender leaves them in its queue. *)
Output(t) ==
    /\ pc[t] = "output" /\ Alive(t)
    /\ pc' = [pc EXCEPT ![t] = "idle"]
    /\ LET a == logMap[ref[t]] IN
         \/ /\ async /\ status = "up"
            /\ queued[a] < MaxLines /\ queued' = [queued EXCEPT ![a] = @ + 1]
         \/ ~async /\ UNCHANGED queued
         \/ status # "up" /\ UNCHANGED queued
    /\ UNCHANGED <<process, registry, appenders, ref>>

(* Freed memory is used: the line goes nowhere, or the process ends.  (canLog() reads
   it first; its answer is one of these.) *)
OutputOfDeleted(t) ==
    /\ pc[t] = "output" /\ ~Alive(t)
    /\ \/ pc' = [pc EXCEPT ![t] = "idle"] /\ UNCHANGED status
       \/ status' = "crashed" /\ UNCHANGED pc
    /\ UNCHANGED <<main, todo, async, inits, mutex, handlers, registry, appenders, queued, ref>>

(* The worker of an asynchronous appender writes a line. *)
Worker(a) ==
    /\ a \in running /\ queued[a] > 0
    /\ queued' = [queued EXCEPT ![a] = @ - 1]
    /\ UNCHANGED <<process, registry, appenders, pc, ref>>

-----------------------------------------------------------------------------
(* The end of the process. *)

(* main() returns, or someone calls exit(). *)
MainReturns ==
    /\ status = "up" /\ main = "idle"
    /\ status' = "exiting"
    /\ UNCHANGED <<main, todo, async, inits, mutex, handlers, registry, appenders, queued,
                   pc, ref>>

\* Faulty variant: destroy() does not lock mutex_.
DestroyBeginsUnlocked ==
    /\ status = "exiting" /\ main = "idle" /\ handlers > 0
    /\ main' = "loggers" /\ handlers' = handlers - 1
    /\ UNCHANGED <<status, todo, async, inits, mutex, registry, appenders, queued, pc, ref>>

(* exit() calls the next registered handler, which locks mutex_. *)
DestroyBegins ==
    /\ status = "exiting" /\ main = "idle" /\ handlers > 0 /\ ~mutex
    /\ main' = "loggers" /\ mutex' = TRUE /\ handlers' = handlers - 1
    /\ UNCHANGED <<status, todo, async, inits, registry, appenders, queued, pc, ref>>

\* Faulty variant: the destructor of a logger does not stop its appender.
DeleteLoggerOnly(n) ==
    /\ main = "loggers" /\ logMap[n] # None /\ n \notin freed
    /\ freed' = freed \cup {n}
    /\ UNCHANGED <<process, dummy, logMap, appenderMap, wfLogger, appenders, queued, pc, ref>>

(* ~CLogger() stops the appender: its worker is joined and has written all. *)
DeleteLogger(n) ==
    /\ main = "loggers" /\ logMap[n] # None /\ n \notin freed
    /\ freed' = freed \cup {n}
    /\ running' = running \ {logMap[n]}
    /\ queued' = [a \in Appenders |->
                    IF a = logMap[n] /\ a \in running THEN 0 ELSE queued[a]]
    /\ UNCHANGED <<process, dummy, logMap, appenderMap, wfLogger, nappenders, file, live,
                   pc, ref>>

LoggersDeleted ==
    /\ main = "loggers" /\ \A n \in Names : logMap[n] # None => n \in freed
    /\ main' = "appenders"
    /\ logMap' = [n \in Names |-> None]
    /\ UNCHANGED <<status, todo, async, inits, mutex, handlers, dummy, freed, appenderMap,
                   wfLogger, appenders, queued, pc, ref>>

DeleteAppender(f) ==
    /\ main = "appenders" /\ appenderMap[f] \in live
    /\ live' = live \ {appenderMap[f]}
    /\ UNCHANGED <<process, registry, nappenders, file, running, queued, pc, ref>>

\* Faulty variant: mutex_ stays locked.
DestroyReturnsLocked ==
    /\ main = "appenders" /\ \A f \in Paths : appenderMap[f] \notin live
    /\ main' = "idle"
    /\ appenderMap' = [f \in Paths |-> None]
    /\ UNCHANGED <<status, todo, async, inits, mutex, handlers, dummy, logMap, freed, wfLogger,
                   appenders, queued, pc, ref>>

DestroyReturns ==
    /\ main = "appenders" /\ \A f \in Paths : appenderMap[f] \notin live
    /\ main' = "idle" /\ mutex' = FALSE
    /\ appenderMap' = [f \in Paths |-> None]
    /\ UNCHANGED <<status, todo, async, inits, handlers, dummy, logMap, freed, wfLogger,
                   appenders, queued, pc, ref>>

(* No handler is left. *)
ProcessEnds ==
    /\ status = "exiting" /\ main = "idle" /\ handlers = 0
    /\ status' = "exited"
    /\ UNCHANGED <<main, todo, async, inits, mutex, handlers, registry, appenders, queued,
                   pc, ref>>

ExitStep ==
    /\ status = "exiting"
    /\ \/ DestroyBegins \/ LoggersDeleted \/ DestroyReturns \/ ProcessEnds
       \/ \E n \in Names : DeleteLogger(n)
       \/ \E f \in Paths : DeleteAppender(f)

ThreadStep(t) ==
    \/ \E n \in Names : GetInstance(t, n)
    \/ StartLog(t) \/ Output(t) \/ OutputOfDeleted(t)

Next ==
    \/ \E conf \in Confs, isAsync \in BOOLEAN : CallInit(conf, isAsync)
    \/ SkipEmptyEntry \/ RejectEntry \/ ConfigureInstance \/ InitReturns
    \/ /\ status \in {"up", "exiting"}
       /\ (\E t \in Threads : ThreadStep(t)) \/ (\E a \in Appenders : Worker(a))
    \/ MainReturns \/ ExitStep

Spec == Init /\ [][Next]_vars

(* exit() runs on once called. *)
FairSpec == Spec /\ WF_vars(ExitStep)

-----------------------------------------------------------------------------
(* What the registry guarantees. *)

(* Every variable has its type; loggers refer to appenders that were created,
   and destroy() is registered at most once for each init(). *)
TypeOK ==
    /\ status \in {"up", "exiting", "exited", "crashed"}
    /\ main \in {"idle", "configuring", "loggers", "appenders"}
    /\ todo \in Seq(Entries)
    /\ async \in BOOLEAN /\ dummy \in BOOLEAN /\ mutex \in BOOLEAN
    /\ inits \in 0..MaxInits /\ handlers \in 0..inits
    /\ main = "configuring" => handlers < inits
    /\ nappenders \in 0..MaxAppenders
    /\ logMap \in [Names -> 0..nappenders]
    /\ appenderMap \in [Paths -> 0..nappenders]
    /\ freed \subseteq Names
    /\ wfLogger \in Names \cup {NoLogger, DummyLogger}
    /\ file \in [Appenders -> Paths \cup {NoFile}]
    /\ live \subseteq 1..nappenders /\ running \subseteq 1..nappenders
    /\ queued \in [Appenders -> 0..MaxLines]
    /\ pc \in [Threads -> {"idle", "output"}]
    /\ ref \in [Threads -> Names \cup {NoLogger, DummyLogger}]

(* However often init() is called, a process has one appender for a file: two
   would rotate it without a common mutex and with names %P does not tell apart. *)
OneAppenderPerFile == \A a, b \in live : file[a] = file[b] => a = b

(* No appender is deleted while its worker runs, which would go on using it:
   the destructors of the loggers have stopped them all, the shared ones too. *)
StoppedBeforeDeleted == running \subseteq live

(* GetInstance() is safe to call from any thread while no init() is running, also when
   destroy() deletes the loggers and after it: it never returns a deleted one. *)
LookupIsLive ==
    [][\A t \in Threads, n \in Names : GetInstance(t, n) => ref'[t] \notin freed]_vars

(* When exit() has come to its end no line that was logged before it is left in a
   queue, whatever sequence of calls of init(), failed ones among them, led to it and
   whatever the threads go on to log. *)
NothingLostAtExit == status = "exited" => \A a \in Appenders : queued[a] = 0

(* Between the calls of init() the logger for warnings is the configured one,
   also when an earlier configuration had none. *)
WfLoggerIsCurrent ==
    status = "up" /\ main = "idle" /\ handlers > 0 =>
        wfLogger = IF logMap[WfName] # None THEN WfName ELSE DummyLogger

(* exit() comes to its end, with destroy() registered any number of times, unless a
   thread crashes the process with a logger that has been deleted. *)
ExitEnds == status = "exiting" ~> status \in {"exited", "crashed"}
===============================================================================
