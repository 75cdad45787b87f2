----------------------------- MODULE LogStatement -----------------------------
(***************************************************************************)
(* What a logging statement does in its thread: the macros of Log.h test   *)
(* the level and count (EVERY_N), writeLog() puts together a line from     *)
(* values that StrUtil.cc caches - the time of the line, the text of the   *)
(* last second, the ids of thread and process - and the appender reads the *)
(* time again from the cache.  Threads are created, processes fork, the    *)
(* clock may be set back, and a program may use an appender directly.      *)
(*                                                                         *)
(* The clock counts fractions of a second; its reading is divided into     *)
(* tv_sec and tv_usec.  A program forks only while it has one thread:      *)
(* "we don't support fork with multi-thread" (StrUtil.cc:336).             *)
(***************************************************************************)
EXTENDS Integers, FiniteSets

CONSTANTS
    Procs, Threads,     \* ids of processes and threads, never used again
    Root, Main,         \* the first process and its thread
    NoProc, NoThread,
    Stmts,              \* the statements of the program
    Periods,            \* the n of EVERY_N
    Limit,              \* the counter holds -Limit .. Limit - 1 (2^63 in the code)
    PerSecond,          \* fractions in a second
    MaxClock, MaxCount  \* bounds of the model

ASSUME IdsAssumption ==
    /\ IsFiniteSet(Threads)
    /\ Root \in Procs /\ NoProc \notin Procs
    /\ Main \in Threads /\ NoThread \notin Threads

(* A statement is an EVERY_N or a plain one, and the format of its logger asks for
   some of the cached values. *)
Statements == [counts : BOOLEAN, format : SUBSET {"time", "pid", "tid"}]
NoStmt == [counts |-> FALSE, format |-> {}]

ASSUME StmtsAssumption == Stmts \subseteq Statements
ASSUME NumbersAssumption ==
    /\ {Limit, PerSecond} \subseteq Nat \ {0} /\ Periods \subseteq Nat \ {0}
    /\ MaxClock \in Nat /\ PerSecond <= MaxClock /\ MaxCount \in Nat

VARIABLES
    clock,      \* gettimeofday()
    every,      \* the n of the EVERY_N statement
    proc,       \* the process of each thread, or NoProc
    counter,    \* the static AtomicInt64 of each process
    counted,    \* how often it was incremented
    settled,    \* the statements it let through that have ended
    once, pid,  \* _getpidOnce (and the fork handlers), _pid of each process
    tid,        \* _tid of each thread
    tm,         \* _tm of each thread, 0 when cleared
    t_lastSecond, t_time,   \* of each thread: the second, and its text
    pc, stmt,   \* what each thread does, and the statement it executes
    started,    \* when each thread entered the writeLog() it is in
    line,       \* the line each thread has put together
    orphans     \* threads that inherited a cached tid without a fork handler

counts == <<every, counter, counted, settled>>
caches == <<once, pid, tid, tm, t_lastSecond, t_time>>
control == <<proc, pc, stmt>>
history == <<started, line, orphans>>
vars == <<clock, counts, caches, control, history>>

None == 0
Times == 0 .. MaxClock
Second(now) == now \div PerSecond
Usec(now) == now % PerSecond
NoLine == [time |-> None, pid |-> NoProc, tid |-> NoThread, check |-> None]

Init ==
    /\ clock = PerSecond
    /\ every \in Periods
    /\ proc = [t \in Threads |-> IF t = Main THEN Root ELSE NoProc]
    /\ counter = [p \in Procs |-> 0]
    /\ counted = [p \in Procs |-> 0]
    /\ settled = [p \in Procs |-> 0]
    /\ once = [p \in Procs |-> FALSE]
    /\ pid = [p \in Procs |-> NoProc]
    /\ tid = [t \in Threads |-> NoThread]
    /\ tm = [t \in Threads |-> 0]
    /\ t_lastSecond = [t \in Threads |-> 0]
    /\ t_time = [t \in Threads |-> 0]
    /\ pc = [t \in Threads |-> "idle"]
    /\ stmt = [t \in Threads |-> NoStmt]
    /\ started = [t \in Threads |-> 0]
    /\ line = [t \in Threads |-> NoLine]
    /\ orphans = {}

-------------------------------------------------------------------------------
(* Time, threads and processes. *)

ClockMoves ==
    /\ clock' \in {clock + 1, clock - 1} \cap PerSecond .. MaxClock
    /\ UNCHANGED <<counts, caches, control, history>>

Alive(t) == proc[t] # NoProc
Unused(p) == \A t \in Threads : proc[t] # p

(* The thread-local variables of a new thread are zero, as Init leaves them. *)
CreateThread(t, u) ==
    /\ Alive(t) /\ ~Alive(u)
    /\ proc' = [proc EXCEPT ![u] = proc[t]]
    /\ UNCHANGED <<clock, counts, caches, pc, stmt, history>>

\* Faulty variant: the child inherits the number of its parent.
ForkChildWithoutPid(p, q, t, u) ==
    /\ pid' = [pid EXCEPT ![q] = pid[p]]
    /\ tid' = [tid EXCEPT ![u] = IF once[p] THEN u ELSE tid[t]]
    /\ orphans' = IF ~once[p] /\ tid[t] # NoThread THEN orphans \cup {u} ELSE orphans

(* The handler fork_child(), which GetPidStr() has registered or not. *)
fork_child(p, q, t, u) ==
    /\ pid' = [pid EXCEPT ![q] = IF once[p] THEN q ELSE pid[p]]
    /\ tid' = [tid EXCEPT ![u] = IF once[p] THEN u ELSE tid[t]]
    /\ orphans' = IF ~once[p] /\ tid[t] # NoThread THEN orphans \cup {u} ELSE orphans

(* The child q has copies of all of the parent's variables and one thread, u,
   with those of the thread that forked. *)
Fork(t, q, u) ==
    /\ Alive(t) /\ pc[t] = "idle" /\ ~Alive(u) /\ Unused(q)
    /\ \A v \in Threads : proc[v] = proc[t] => v = t
    /\ LET p == proc[t] IN
         /\ counter' = [counter EXCEPT ![q] = counter[p]]
         /\ counted' = [counted EXCEPT ![q] = counted[p]]
         /\ settled' = [settled EXCEPT ![q] = settled[p]]
         /\ once' = [once EXCEPT ![q] = once[p]]
         /\ fork_child(p, q, t, u)
    /\ proc' = [proc EXCEPT ![u] = q]
    /\ tm' = [tm EXCEPT ![u] = tm[t]]
    /\ t_lastSecond' = [t_lastSecond EXCEPT ![u] = t_lastSecond[t]]
    /\ t_time' = [t_time EXCEPT ![u] = t_time[t]]
    /\ UNCHANGED <<clock, every, pc, stmt, started, line>>

-------------------------------------------------------------------------------
(* The macros. *)

Goto(t, from, to) == pc[t] = from /\ pc' = [pc EXCEPT ![t] = to]

(* A statement begins.  Any thread may change level_ at any time, and the test
   reads it without a lock: a statement gets through or does nothing at all. *)
TestLevel(t) ==
    /\ Alive(t)
    /\ \E s \in Stmts :
         /\ stmt' = [stmt EXCEPT ![t] = s]
         /\ Goto(t, "idle", IF s.counts THEN "count" ELSE "start")
    /\ UNCHANGED <<clock, counts, caches, proc, history>>

\* Faulty variant: the counter is not as wide as the count.
SuccessorUnbounded(n) == n + 1

(* addAndGet(1) in two's complement.  The remainder of a negative count is zero
   exactly when it is zero in C. *)
Successor(n) == IF n + 1 = Limit THEN -Limit ELSE n + 1

\* Faulty variant: the value before the increment is tested.
IncrementGettingFirst(t) ==
    /\ pc[t] = "count" /\ counted[proc[t]] < MaxCount
    /\ counter' = [counter EXCEPT ![proc[t]] = Successor(@)]
    /\ counted' = [counted EXCEPT ![proc[t]] = @ + 1]
    /\ IF counter[proc[t]] % every = 0
       THEN Goto(t, "count", "start") /\ UNCHANGED stmt
       ELSE Goto(t, "count", "idle") /\ stmt' = [stmt EXCEPT ![t] = NoStmt]
    /\ UNCHANGED <<clock, every, settled, caches, proc, history>>

(* EVERY_N: an atomic increment, whose result is tested. *)
Increment(t) ==
    /\ pc[t] = "count" /\ counted[proc[t]] < MaxCount
    /\ counter' = [counter EXCEPT ![proc[t]] = Successor(@)]
    /\ counted' = [counted EXCEPT ![proc[t]] = @ + 1]
    /\ IF counter'[proc[t]] % every = 0
       THEN Goto(t, "count", "start") /\ UNCHANGED stmt
       ELSE Goto(t, "count", "idle") /\ stmt' = [stmt EXCEPT ![t] = NoStmt]
    /\ UNCHANGED <<clock, every, settled, caches, proc, history>>

-------------------------------------------------------------------------------
(* writeLog() *)

EndStatement(t, from) ==
    /\ Goto(t, from, "idle")
    /\ settled' = [settled EXCEPT ![proc[t]] = IF stmt[t].counts THEN @ + 1 ELSE @]
    /\ stmt' = [stmt EXCEPT ![t] = NoStmt]
    /\ UNCHANGED <<every, counter, counted>>

(* malloc() fails: the line is dropped. *)
NoMemory(t) ==
    /\ EndStatement(t, "start")
    /\ UNCHANGED <<clock, caches, proc, history>>

TestSetCurrentTm(t) == IF Second(tm[t]) = 0 THEN clock ELSE tm[t]

\* Faulty variant: a time left in the cache is taken for that of the line.
StartLogTestingTm(t) ==
    /\ Goto(t, "start", "format")
    /\ tm' = [tm EXCEPT ![t] = TestSetCurrentTm(t)]
    /\ started' = [started EXCEPT ![t] = clock]
    /\ UNCHANGED <<clock, counts, once, pid, tid, t_lastSecond, t_time, proc, stmt, line,
                   orphans>>

(* UpdateCurrentTm() *)
StartLog(t) ==
    /\ Goto(t, "start", "format")
    /\ tm' = [tm EXCEPT ![t] = clock]
    /\ started' = [started EXCEPT ![t] = clock]
    /\ UNCHANGED <<clock, counts, once, pid, tid, t_lastSecond, t_time, proc, stmt, line,
                   orphans>>

\* Faulty variant: the text is renewed only when the second is a later one.
GetTimeStringForwardOnly(t) ==
    LET now == TestSetCurrentTm(t) IN
    /\ tm' = [tm EXCEPT ![t] = now]
    /\ IF Second(now) > t_lastSecond[t]
       THEN /\ t_lastSecond' = [t_lastSecond EXCEPT ![t] = Second(now)]
            /\ t_time' = [t_time EXCEPT ![t] = Second(now)]
       ELSE UNCHANGED <<t_lastSecond, t_time>>

(* The text of the second is renewed when the second is another one. *)
GetTimeString(t) ==
    LET now == TestSetCurrentTm(t) IN
    /\ tm' = [tm EXCEPT ![t] = now]
    /\ IF Second(now) # t_lastSecond[t]
       THEN /\ t_lastSecond' = [t_lastSecond EXCEPT ![t] = Second(now)]
            /\ t_time' = [t_time EXCEPT ![t] = Second(now)]
       ELSE UNCHANGED <<t_lastSecond, t_time>>

(* The first call in a process stores its number and registers fork_child(). *)
GetPidStr(t) ==
    /\ once' = [once EXCEPT ![proc[t]] = TRUE]
    /\ pid' = [pid EXCEPT ![proc[t]] = IF once[proc[t]] THEN @ ELSE proc[t]]

GetTidStr(t) == tid' = [tid EXCEPT ![t] = IF @ = NoThread THEN t ELSE @]

(* format(): the values that the format asks for, from the caches. *)
FormatLine(t) ==
    LET asks(what) == what \in stmt[t].format IN
    /\ Goto(t, "format", "output")
    /\ IF asks("time") THEN GetTimeString(t) ELSE UNCHANGED <<tm, t_lastSecond, t_time>>
    /\ IF asks("pid") THEN GetPidStr(t) ELSE UNCHANGED <<once, pid>>
    /\ IF asks("tid") THEN GetTidStr(t) ELSE UNCHANGED tid
    /\ line' = [line EXCEPT ![t] =
         [time |-> IF asks("time") THEN t_time'[t] * PerSecond + Usec(tm'[t]) ELSE None,
          pid |-> IF asks("pid") THEN pid'[proc[t]] ELSE NoProc,
          tid |-> IF asks("tid") THEN tid'[t] ELSE NoThread,
          check |-> None]]
    /\ UNCHANGED <<clock, counts, proc, stmt, started, orphans>>

(* output(): checkFile() takes the time from the cache. *)
Output(t) ==
    /\ Goto(t, "output", "clear")
    /\ tm' = [tm EXCEPT ![t] = TestSetCurrentTm(t)]
    /\ line' = [line EXCEPT ![t].check = TestSetCurrentTm(t)]
    /\ UNCHANGED <<clock, counts, once, pid, tid, t_lastSecond, t_time, proc, stmt, started,
                   orphans>>

(* ClearCurrentTm(), and the statement ends. *)
EndLog(t) ==
    /\ EndStatement(t, "clear")
    /\ tm' = [tm EXCEPT ![t] = 0]
    /\ started' = [started EXCEPT ![t] = 0]
    /\ line' = [line EXCEPT ![t] = NoLine]
    /\ UNCHANGED <<clock, once, pid, tid, t_lastSecond, t_time, proc, orphans>>

(* A program passes a line of its own to an appender, or calls checkFile():
   the time that is cached then stays. *)
DirectOutput(t) ==
    /\ Alive(t) /\ Goto(t, "idle", "idle")
    /\ tm' = [tm EXCEPT ![t] = TestSetCurrentTm(t)]
    /\ UNCHANGED <<clock, counts, once, pid, tid, t_lastSecond, t_time, proc, stmt, history>>

ThreadStep(t) ==
    \/ TestLevel(t) \/ Increment(t) \/ NoMemory(t) \/ StartLog(t) \/ FormatLine(t)
    \/ Output(t) \/ EndLog(t) \/ DirectOutput(t)

Next ==
    \/ ClockMoves
    \/ \E t, u \in Threads : CreateThread(t, u) \/ \E q \in Procs : Fork(t, q, u)
    \/ \E t \in Threads : ThreadStep(t)

Spec == Init /\ [][Next]_vars

-------------------------------------------------------------------------------
(* What a statement guarantees. *)

(* Every variable has its type, the counter its width, and only a thread that
   exists executes a statement. *)
TypeOK ==
    /\ clock \in PerSecond .. MaxClock /\ every \in Periods
    /\ proc \in [Threads -> Procs \cup {NoProc}]
    /\ once \in [Procs -> BOOLEAN]
    /\ counter \in [Procs -> -Limit .. Limit - 1]
    /\ counted \in [Procs -> 0 .. MaxCount] /\ settled \in [Procs -> Nat]
    /\ pid \in [Procs -> Procs \cup {NoProc}]
    /\ tid \in [Threads -> Threads \cup {NoThread}]
    /\ tm \in [Threads -> Times] /\ started \in [Threads -> Times]
    /\ t_lastSecond \in [Threads -> Nat] /\ t_time \in [Threads -> Nat]
    /\ pc \in [Threads -> {"idle", "count", "start", "format", "output", "clear"}]
    /\ stmt \in [Threads -> Statements]
    /\ line \in [Threads -> [time : Times, pid : Procs \cup {NoProc},
                             tid : Threads \cup {NoThread}, check : Times]]
    /\ orphans \subseteq Threads
    /\ \A t \in Threads : pc[t] # "idle" => Alive(t)

(* A line bears the time at which writeLog() was entered, with checkFile() going
   by the same time, and the numbers of its own process and thread: no cache is
   stale, whatever the clock, the threads and fork() did since it was filled.
   The exception are the orphans: only GetPidStr() registers the fork handler, so
   that a tid cached before a process has asked for its pid survives a fork(). *)
LineIsCurrent ==
    \A t \in Threads :
        /\ line[t].time \in {None, started[t]}
        /\ line[t].check \in {None, started[t]}
        /\ line[t].pid \in {NoProc, proc[t]}
        /\ line[t].tid \in {NoThread, t} \/ t \in orphans

(* The threads with a statement that EVERY_N has let through and that goes on. *)
LetThrough(p) ==
    {t \in Threads : /\ proc[t] = p /\ stmt[t].counts
                     /\ pc[t] \in {"start", "format", "output", "clear"}}

(* Of the executions of an EVERY_N statement by the threads of a process exactly
   every n-th is let through, and a statement let through ends once, with a line
   or for want of memory.  When the counter wraps around the distance is kept only
   if n divides the number of its values. *)
OneInN ==
    \A p \in Procs :
        (2 * Limit) % every = 0 \/ counted[p] < Limit
        => settled[p] + Cardinality(LetThrough(p)) = counted[p] \div every
===============================================================================
