-------------------------- MODULE LogStatementProofs --------------------------
(***************************************************************************)
(* What LogStatement guarantees for any number of threads and processes,   *)
(* any clock and any forks: the lines bear current values, and of every n  *)
(* executions of an EVERY_N statement one is let through.                  *)
(***************************************************************************)
EXTENDS LogStatement, FiniteSetTheorems, TLAPS

-----------------------------------------------------------------------------
(* Numbers: division with remainder. *)

LEMMA Numbers ==
    /\ Limit \in Nat \ {0} /\ PerSecond \in Nat \ {0} /\ Periods \subseteq Nat \ {0}
    /\ MaxClock \in Nat /\ PerSecond <= MaxClock /\ MaxCount \in Nat
  BY NumbersAssumption

LEMMA Division ==
    ASSUME NEW x \in Int, NEW n \in Nat \ {0}
    PROVE  /\ x \div n \in Int /\ x % n \in 0 .. n - 1
           /\ x = n * (x \div n) + (x % n)
  OBVIOUS

LEMMA DivisionIsUnique ==
    ASSUME NEW n \in Nat \ {0}, NEW q \in Int, NEW r \in 0 .. n - 1
    PROVE  (n * q + r) \div n = q /\ (n * q + r) % n = r
  OBVIOUS

LEMMA SecondsOfClock ==
    ASSUME NEW x \in Nat
    PROVE  /\ Second(x) \in Nat /\ Usec(x) \in Nat
           /\ Second(x) * PerSecond + Usec(x) = x
           /\ x >= PerSecond => Second(x) # 0
  <1>1. /\ x = PerSecond * (x \div PerSecond) + (x % PerSecond)
        /\ x \div PerSecond \in Int /\ x % PerSecond \in 0 .. PerSecond - 1
    BY Division, Numbers
  <1>2. QED BY <1>1, Numbers DEF Second, Usec

-----------------------------------------------------------------------------
(* Types and caches. *)

InWriteLog(t) == pc[t] \in {"format", "output", "clear"}

(* The caches of a thread that exists agree with what they were filled from, and
   while a line is put together the cached time is the one taken at its start. *)
CacheInv ==
    /\ t_time = t_lastSecond
    /\ \A t \in Threads :
         /\ InWriteLog(t) => tm[t] = started[t] /\ started[t] >= PerSecond
         /\ pc[t] \notin {"output", "clear"} => line[t] = NoLine
         /\ tid[t] \in {NoThread, t} \/ t \in orphans
         /\ Alive(t) /\ once[proc[t]] => pid[proc[t]] = proc[t]

IInv == TypeOK /\ CacheInv /\ LineIsCurrent

LEMMA InitIInv == Init => IInv
  <1> SUFFICES ASSUME Init PROVE IInv
    OBVIOUS
  <1>1. NoStmt \in Statements /\ NoLine \in [time : Times, pid : Procs \cup {NoProc},
                                             tid : Threads \cup {NoThread}, check : Times]
    BY Numbers DEF NoStmt, Statements, NoLine, Times, None
  <1>2. TypeOK
    BY <1>1, Numbers, IdsAssumption DEF Init, TypeOK, Times, Alive
  <1>3. CacheInv
    BY IdsAssumption DEF Init, CacheInv, InWriteLog, Alive
  <1>4. LineIsCurrent
    BY DEF Init, LineIsCurrent, NoLine, None
  <1>5. QED BY <1>2, <1>3, <1>4 DEF IInv

LEMMA TimeInTimes == clock \in PerSecond .. MaxClock => clock \in Times /\ clock >= PerSecond
  BY Numbers DEF Times

LEMMA WorldIInv ==
    ASSUME IInv,
           \/ ClockMoves
           \/ \E t, u \in Threads : CreateThread(t, u)
    PROVE  IInv'
  <1> USE Numbers, IdsAssumption DEF IInv, TypeOK, CacheInv, LineIsCurrent, InWriteLog, Alive
  <1>1. CASE ClockMoves
    BY <1>1 DEF ClockMoves, counts, caches, control, history
  <1>2. ASSUME NEW t \in Threads, NEW u \in Threads, CreateThread(t, u) PROVE IInv'
    <2>1. pc[u] = "idle" /\ line[u] = NoLine
      BY <1>2 DEF CreateThread
    <2>2. proc' = [proc EXCEPT ![u] = proc[t]] /\ UNCHANGED <<clock, counts, caches, pc, stmt, history>>
      BY <1>2 DEF CreateThread
    <2>3. TypeOK'
      BY <2>1, <2>2 DEF counts, caches, history
    <2>4. CacheInv'
      BY <1>2, <2>1, <2>2 DEF CreateThread, counts, caches, history
    <2>5. LineIsCurrent'
      BY <2>1, <2>2 DEF history, NoLine, None
    <2>6. QED BY <2>3, <2>4, <2>5
  <1>3. QED BY <1>1, <1>2

LEMMA ForkIInv ==
    ASSUME IInv, NEW t \in Threads, NEW u \in Threads, NEW q \in Procs, Fork(t, q, u)
    PROVE  IInv'
  <1> USE Numbers, IdsAssumption DEF IInv, TypeOK, CacheInv, LineIsCurrent, InWriteLog, Alive
  <1> DEFINE p == proc[t]
  <1>1. pc[u] = "idle" /\ line[u] = NoLine /\ p \in Procs /\ q # p
    BY DEF Fork, Unused
  <1>2. \A v \in Threads : proc[v] # q
    BY DEF Fork, Unused
  <1>3. /\ counter' = [counter EXCEPT ![q] = counter[p]]
        /\ counted' = [counted EXCEPT ![q] = counted[p]]
        /\ settled' = [settled EXCEPT ![q] = settled[p]]
        /\ once' = [once EXCEPT ![q] = once[p]]
        /\ proc' = [proc EXCEPT ![u] = q]
        /\ tm' = [tm EXCEPT ![u] = tm[t]]
        /\ t_lastSecond' = [t_lastSecond EXCEPT ![u] = t_lastSecond[t]]
        /\ t_time' = [t_time EXCEPT ![u] = t_time[t]]
        /\ UNCHANGED <<clock, every, pc, stmt, started, line>>
    BY DEF Fork
  <1>4. /\ pid' = [pid EXCEPT ![q] = IF once[p] THEN q ELSE pid[p]]
        /\ tid' = [tid EXCEPT ![u] = IF once[p] THEN u ELSE tid[t]]
        /\ orphans' = IF ~once[p] /\ tid[t] # NoThread THEN orphans \cup {u} ELSE orphans
    BY DEF Fork, fork_child
  <1>5. TypeOK'
    BY <1>1, <1>3, <1>4
  <1>6. t_time' = t_lastSecond'
    BY <1>3
  <1>7. ASSUME NEW v \in Threads
        PROVE  /\ (InWriteLog(v) => tm[v] = started[v] /\ started[v] >= PerSecond)'
               /\ (pc[v] \notin {"output", "clear"} => line[v] = NoLine)'
               /\ (tid[v] \in {NoThread, v} \/ v \in orphans)'
    BY <1>1, <1>3, <1>4
  <1>8. ASSUME NEW v \in Threads
        PROVE  (Alive(v) /\ once[proc[v]] => pid[proc[v]] = proc[v])'
    BY <1>1, <1>2, <1>3, <1>4
  <1>9. LineIsCurrent'
    BY <1>1, <1>3, <1>4 DEF NoLine, None
  <1>10. QED BY <1>5, <1>6, <1>7, <1>8, <1>9

LEMMA CounterType ==
    ASSUME NEW n \in -Limit .. Limit - 1
    PROVE  Successor(n) \in -Limit .. Limit - 1
  BY Numbers DEF Successor

LEMMA MacroIInv ==
    ASSUME IInv, NEW t \in Threads, TestLevel(t) \/ Increment(t) PROVE IInv'
  <1> USE Numbers, IdsAssumption, StmtsAssumption
      DEF IInv, TypeOK, CacheInv, LineIsCurrent, InWriteLog, Alive, Goto
  <1>1. NoStmt \in Statements
    BY DEF NoStmt, Statements
  <1>2. CASE TestLevel(t)
    BY <1>2 DEF TestLevel, counts, caches, history
  <1>3. CASE Increment(t)
    <2>1. proc[t] \in Procs /\ counted[proc[t]] + 1 \in 0 .. MaxCount
      BY <1>3 DEF Increment
    <2>2. Successor(counter[proc[t]]) \in -Limit .. Limit - 1
      BY <2>1, CounterType
    <2>3. counter' \in [Procs -> -Limit .. Limit - 1] /\ counted' \in [Procs -> 0 .. MaxCount]
      BY <1>3, <2>1, <2>2 DEF Increment
    <2>4. /\ pc' = [pc EXCEPT ![t] = pc'[t]] /\ stmt' = [stmt EXCEPT ![t] = stmt'[t]]
          /\ pc'[t] \in {"start", "idle"} /\ stmt'[t] \in Statements
          /\ UNCHANGED <<clock, every, settled, caches, proc, history>>
      BY <1>1, <1>3 DEF Increment
    <2>5. TypeOK'
      <3>1. /\ pc' \in [Threads -> {"idle", "count", "start", "format", "output", "clear"}]
            /\ stmt' \in [Threads -> Statements]
            /\ \A v \in Threads : pc'[v] # "idle" => pc[v] # "idle"
        <4>1. pc[t] = "count" /\ pc' = [pc EXCEPT ![t] = pc'[t]]
          BY <1>3, <2>4 DEF Increment
        <4>2. pc' \in [Threads -> {"idle", "count", "start", "format", "output", "clear"}]
          BY SMTT(30), <2>4, <4>1
        <4>3. stmt' \in [Threads -> Statements]
          BY <2>4
        <4>4. ASSUME NEW v \in Threads, pc'[v] # "idle" PROVE pc[v] # "idle"
          BY <4>1, <4>4
        <4>5. QED BY <4>2, <4>3, <4>4
      <3>2. QED BY <2>3, <2>4, <3>1 DEF caches, history
    <2>6. pc[t] = "count" /\ line' = line /\ started' = started /\ tm' = tm
      BY <1>3, <2>4 DEF Increment, caches, history
    <2>7. CacheInv'
      BY <2>4, <2>6 DEF caches, history
    <2>8. LineIsCurrent'
      BY <2>4, <2>6 DEF caches, history
    <2>9. QED BY <2>5, <2>7, <2>8
  <1>4. QED BY <1>2, <1>3

LEMMA EndStatementType ==
    ASSUME TypeOK, NEW t \in Threads, pc[t] # "idle", NEW from, EndStatement(t, from)
    PROVE  /\ counter' = counter /\ counted' = counted /\ every' = every
           /\ settled' \in [Procs -> Nat]
           /\ pc' = [pc EXCEPT ![t] = "idle"]
           /\ stmt' \in [Threads -> Statements]
  <1>1. NoStmt \in Statements /\ proc[t] \in Procs
    BY DEF NoStmt, Statements, TypeOK, Alive
  <1>2. QED BY <1>1 DEF EndStatement, Goto, TypeOK

LEMMA CurrentTm ==
    ASSUME TypeOK, NEW t \in Threads
    PROVE  /\ TestSetCurrentTm(t) \in Times
           /\ tm[t] >= PerSecond => TestSetCurrentTm(t) = tm[t]
  <1>1. tm[t] \in Nat /\ (tm[t] >= PerSecond => Second(tm[t]) # 0)
    BY SecondsOfClock, Numbers DEF TypeOK, Times
  <1>2. QED BY <1>1, TimeInTimes, Numbers DEF TestSetCurrentTm, TypeOK, Times

LEMMA LineIInv ==
    ASSUME IInv, NEW t \in Threads,
           NoMemory(t) \/ StartLog(t) \/ Output(t) \/ EndLog(t) \/ DirectOutput(t)
    PROVE  IInv'
  <1> USE Numbers, IdsAssumption
      DEF IInv, TypeOK, CacheInv, LineIsCurrent, InWriteLog, Alive, Goto
  <1>1. /\ clock \in Times /\ clock >= PerSecond /\ 0 \in Times
        /\ TestSetCurrentTm(t) \in Times
        /\ tm[t] >= PerSecond => TestSetCurrentTm(t) = tm[t]
    BY TimeInTimes, CurrentTm DEF Times
  <1>2. NoLine \in [time : Times, pid : Procs \cup {NoProc},
                    tid : Threads \cup {NoThread}, check : Times]
    BY DEF NoLine, Times, None
  <1>3. CASE NoMemory(t)
    <2>1. pc[t] = "start"
      BY <1>3 DEF NoMemory, EndStatement
    <2>2. TypeOK'
      <3>1. /\ counter' = counter /\ counted' = counted /\ every' = every
            /\ settled' \in [Procs -> Nat] /\ stmt' \in [Threads -> Statements]
            /\ pc' = [pc EXCEPT ![t] = "idle"]
            /\ UNCHANGED <<clock, caches, proc, history>>
        BY <1>3, <2>1, EndStatementType DEF NoMemory
      <3>2. QED BY <3>1 DEF caches, history
    <2>3. pc' = [pc EXCEPT ![t] = "idle"] /\ UNCHANGED <<clock, caches, proc, history>>
      BY <1>3, <2>1, EndStatementType DEF NoMemory
    <2>4. CacheInv'
      BY <2>1, <2>3 DEF caches, history
    <2>5. LineIsCurrent'
      BY <2>3 DEF history
    <2>6. QED BY <2>2, <2>4, <2>5
  <1>4. CASE StartLog(t)
    <2>1. TypeOK'
      BY <1>1, <1>4 DEF StartLog, counts
    <2>2. CacheInv'
      BY <1>1, <1>4 DEF StartLog, counts
    <2>3. LineIsCurrent'
      BY <1>4 DEF StartLog, NoLine, None
    <2>4. QED BY <2>1, <2>2, <2>3
  <1>5. CASE Output(t)
    <2>1. TypeOK'
      <3>1. /\ pc' = [pc EXCEPT ![t] = "clear"] /\ pc[t] = "output"
            /\ tm' = [tm EXCEPT ![t] = TestSetCurrentTm(t)]
            /\ line' = [line EXCEPT ![t].check = TestSetCurrentTm(t)]
            /\ UNCHANGED <<clock, counts, once, pid, tid, t_lastSecond, t_time, proc, stmt,
                           started, orphans>>
        BY <1>5 DEF Output
      <3>2. tm' \in [Threads -> Times]
        BY <1>1, <3>1
      <3>3. line' \in [Threads -> [time : Times, pid : Procs \cup {NoProc},
                                   tid : Threads \cup {NoThread}, check : Times]]
        <4> DEFINE Lines == [time : Times, pid : Procs \cup {NoProc},
                             tid : Threads \cup {NoThread}, check : Times]
        <4>1. line \in [Threads -> Lines]
          OBVIOUS
        <4>2. line' = [line EXCEPT ![t] = [line[t] EXCEPT !.check = TestSetCurrentTm(t)]]
          BY <3>1
        <4>3. [line[t] EXCEPT !.check = TestSetCurrentTm(t)] \in Lines
          BY SMTT(30), <1>1, <4>1
        <4> HIDE DEF Lines
        <4>4. line' \in [Threads -> Lines]
          BY <4>1, <4>2, <4>3
        <4>5. QED BY <4>4 DEF Lines
      <3>4. QED BY <3>1, <3>2, <3>3 DEF counts
    <2>2. CacheInv'
      BY <1>1, <1>5 DEF Output, counts
    <2>3. LineIsCurrent'
      BY <1>1, <1>5 DEF Output
    <2>4. QED BY <2>1, <2>2, <2>3
  <1>6. CASE EndLog(t)
    <2>1. pc[t] = "clear"
      BY <1>6 DEF EndLog, EndStatement
    <2>2. TypeOK'
      <3>1. /\ counter' = counter /\ counted' = counted /\ every' = every
            /\ settled' \in [Procs -> Nat] /\ stmt' \in [Threads -> Statements]
            /\ pc' = [pc EXCEPT ![t] = "idle"]
        BY <1>6, <2>1, EndStatementType DEF EndLog
      <3>2. /\ tm' = [tm EXCEPT ![t] = 0] /\ started' = [started EXCEPT ![t] = 0]
            /\ line' = [line EXCEPT ![t] = NoLine]
            /\ UNCHANGED <<clock, once, pid, tid, t_lastSecond, t_time, proc, orphans>>
        BY <1>6 DEF EndLog
      <3>3. tm' \in [Threads -> Times] /\ started' \in [Threads -> Times]
        BY <1>1, <3>2
      <3>4. line' \in [Threads -> [time : Times, pid : Procs \cup {NoProc},
                                   tid : Threads \cup {NoThread}, check : Times]]
        BY <1>2, <3>2
      <3>5. QED BY <3>1, <3>2, <3>3, <3>4
    <2>3. pc' = [pc EXCEPT ![t] = "idle"]
      BY <1>6, <2>1, EndStatementType DEF EndLog
    <2>4. CacheInv'
      BY <1>6, <2>1, <2>3 DEF EndLog
    <2>5. LineIsCurrent'
      BY <1>6 DEF EndLog, NoLine, None
    <2>6. QED BY <2>2, <2>4, <2>5
  <1>7. CASE DirectOutput(t)
    <2>1. pc' = pc
      BY <1>7 DEF DirectOutput
    <2>2. QED BY <1>1, <1>7, <2>1 DEF DirectOutput, counts, history
  <1>8. QED BY <1>3, <1>4, <1>5, <1>6, <1>7

(* The text of the second and the fractions make the time of the line. *)
LEMMA FormatCaches ==
    ASSUME IInv, NEW t \in Threads, FormatLine(t)
    PROVE  /\ tm' = tm
           /\ t_lastSecond' \in [Threads -> Nat] /\ t_time' = t_lastSecond'
           /\ once' \in [Procs -> BOOLEAN] /\ pid' \in [Procs -> Procs \cup {NoProc}]
           /\ tid' \in [Threads -> Threads \cup {NoThread}]
           /\ \A v \in Threads : tid'[v] \in {NoThread, v} \/ v \in orphans
           /\ \A v \in Threads : Alive(v) /\ once'[proc[v]] => pid'[proc[v]] = proc[v]
           /\ "time" \in stmt[t].format =>
                t_time'[t] * PerSecond + Usec(tm'[t]) = started[t]
           /\ "pid" \in stmt[t].format => pid'[proc[t]] = proc[t]
           /\ "tid" \in stmt[t].format => tid'[t] = t \/ t \in orphans
  <1> USE IdsAssumption DEF IInv, TypeOK, CacheInv, InWriteLog, Alive, Goto
  <1>1. /\ pc[t] = "format" /\ tm[t] = started[t] /\ started[t] \in Nat
        /\ TestSetCurrentTm(t) = tm[t] /\ proc[t] \in Procs
    BY CurrentTm DEF FormatLine, Times
  <1>2. Second(tm[t]) \in Nat /\ Second(tm[t]) * PerSecond + Usec(tm[t]) = started[t]
    BY <1>1, SecondsOfClock
  <1>3. /\ tm' = tm /\ t_lastSecond' \in [Threads -> Nat] /\ t_time' = t_lastSecond'
        /\ "time" \in stmt[t].format => t_time'[t] = Second(tm[t])
    <2>1. CASE "time" \in stmt[t].format
      <3>1. GetTimeString(t)
        BY <2>1 DEF FormatLine
      <3>2. tm' = [tm EXCEPT ![t] = tm[t]]
        BY <1>1, <3>1 DEF GetTimeString
      <3>3. \/ /\ t_lastSecond' = [t_lastSecond EXCEPT ![t] = Second(tm[t])]
               /\ t_time' = [t_time EXCEPT ![t] = Second(tm[t])]
            \/ /\ t_lastSecond' = t_lastSecond /\ t_time' = t_time
               /\ t_lastSecond[t] = Second(tm[t])
        BY <1>1, <3>1 DEF GetTimeString
      <3>4. tm' = tm
        BY <3>2
      <3>5. t_lastSecond' \in [Threads -> Nat] /\ t_time' = t_lastSecond'
        BY <1>2, <3>3
      <3>6. t_time'[t] = Second(tm[t])
        BY <3>3
      <3>7. QED BY <3>4, <3>5, <3>6
    <2>2. CASE "time" \notin stmt[t].format
      BY <2>2 DEF FormatLine
    <2>3. QED BY <2>1, <2>2
  <1>4. /\ once' \in [Procs -> BOOLEAN] /\ pid' \in [Procs -> Procs \cup {NoProc}]
        /\ \A v \in Threads : Alive(v) /\ once'[proc[v]] => pid'[proc[v]] = proc[v]
        /\ "pid" \in stmt[t].format => pid'[proc[t]] = proc[t]
    <2>1. CASE "pid" \in stmt[t].format
      <3>1. /\ once' = [once EXCEPT ![proc[t]] = TRUE]
            /\ pid' = [pid EXCEPT ![proc[t]] = IF once[proc[t]] THEN @ ELSE proc[t]]
        BY <2>1 DEF FormatLine, GetPidStr
      <3>2. pid'[proc[t]] = proc[t]
        BY <1>1, <3>1
      <3>3. once' \in [Procs -> BOOLEAN] /\ pid' \in [Procs -> Procs \cup {NoProc}]
        BY <1>1, <3>1
      <3>4. QED BY <1>1, <3>1, <3>2, <3>3
    <2>2. CASE "pid" \notin stmt[t].format
      BY <1>1, <2>2 DEF FormatLine
    <2>3. QED BY <2>1, <2>2
  <1>5. /\ tid' \in [Threads -> Threads \cup {NoThread}]
        /\ \A v \in Threads : tid'[v] \in {NoThread, v} \/ v \in orphans
        /\ "tid" \in stmt[t].format => tid'[t] = t \/ t \in orphans
    <2>1. tid' = IF "tid" \in stmt[t].format
                 THEN [tid EXCEPT ![t] = IF @ = NoThread THEN t ELSE @] ELSE tid
      BY DEF FormatLine, GetTidStr
    <2>2. CASE "tid" \in stmt[t].format
      BY <2>1, <2>2
    <2>3. CASE "tid" \notin stmt[t].format
      BY <2>1, <2>3
    <2>4. QED BY <2>2, <2>3
  <1>6. QED BY <1>2, <1>3, <1>4, <1>5

LEMMA FormatIInv ==
    ASSUME IInv, NEW t \in Threads, FormatLine(t) PROVE IInv'
  <1>1. /\ pc[t] = "format" /\ pc' = [pc EXCEPT ![t] = "output"]
        /\ UNCHANGED <<clock, counts, proc, stmt, started, orphans>>
    BY DEF FormatLine, Goto
  <1> DEFINE newline == [time |-> IF "time" \in stmt[t].format
                                  THEN t_time'[t] * PerSecond + Usec(tm'[t]) ELSE None,
                         pid |-> IF "pid" \in stmt[t].format THEN pid'[proc[t]] ELSE NoProc,
                         tid |-> IF "tid" \in stmt[t].format THEN tid'[t] ELSE NoThread,
                         check |-> None]
  <1>2. line' = [line EXCEPT ![t] = newline]
    BY DEF FormatLine
  <1>3. /\ newline.time \in {None, started[t]} /\ newline.check = None
        /\ newline.pid \in {NoProc, proc[t]}
        /\ newline.tid \in {NoThread, t} \/ t \in orphans
    BY FormatCaches
  <1>4. newline \in [time : Times, pid : Procs \cup {NoProc},
                     tid : Threads \cup {NoThread}, check : Times]
    <2>1. newline.time \in Times /\ newline.check \in Times
      BY <1>3, Numbers DEF IInv, TypeOK, Times, None
    <2>2. newline.pid \in Procs \cup {NoProc} /\ newline.tid \in Threads \cup {NoThread}
      BY <1>3, FormatCaches DEF IInv, TypeOK
    <2>3. QED BY <2>1, <2>2
  <1> HIDE DEF newline
  <1>5. TypeOK'
    BY <1>1, <1>2, <1>4, FormatCaches DEF IInv, TypeOK, Alive, counts
  <1>6. CacheInv'
    BY <1>1, <1>2, FormatCaches DEF IInv, TypeOK, CacheInv, InWriteLog, Alive
  <1>7. LineIsCurrent'
    BY <1>1, <1>2, <1>3 DEF IInv, TypeOK, LineIsCurrent
  <1>8. QED BY <1>5, <1>6, <1>7 DEF IInv

LEMMA NextIInv == IInv /\ [Next]_vars => IInv'
  <1> SUFFICES ASSUME IInv, [Next]_vars PROVE IInv'
    OBVIOUS
  <1>1. CASE UNCHANGED vars
    BY <1>1 DEF vars, counts, caches, control, history, IInv, TypeOK, CacheInv, LineIsCurrent,
                InWriteLog, Alive
  <1>2. CASE ClockMoves \/ \E t, u \in Threads : CreateThread(t, u)
    BY <1>2, WorldIInv
  <1>3. ASSUME NEW t \in Threads, NEW u \in Threads, NEW q \in Procs, Fork(t, q, u) PROVE IInv'
    BY <1>3, ForkIInv
  <1>4. ASSUME NEW t \in Threads, ThreadStep(t) PROVE IInv'
    BY <1>4, MacroIInv, LineIInv, FormatIInv DEF ThreadStep
  <1>5. QED BY <1>1, <1>2, <1>3, <1>4 DEF Next

(* The type invariant holds for any number of threads and processes, in particular
   the counter of EVERY_N never leaves its width. *)
THEOREM TypeCorrect == Spec => []TypeOK
  <1>1. IInv => TypeOK
    BY DEF IInv
  <1>2. QED BY InitIInv, NextIInv, <1>1, PTL DEF Spec

(* No line bears a value that was cached for another line, second, process or
   thread, whatever the clock, new threads and fork() do between two lines. *)
THEOREM LinesAreCurrent == Spec => []LineIsCurrent
  <1>1. IInv => LineIsCurrent
    BY DEF IInv
  <1>2. QED BY InitIInv, NextIInv, <1>1, PTL DEF Spec

-----------------------------------------------------------------------------
(* EVERY_N: more about division, then the counter and the statements it lets through. *)

LEMMA NextQuotient ==
    ASSUME NEW n \in Nat \ {0}, NEW c \in Nat
    PROVE  (c + 1) \div n = IF (c + 1) % n = 0 THEN (c \div n) + 1 ELSE c \div n
  <1> DEFINE q == c \div n  r == c % n
  <1>1. q \in Int /\ r \in 0 .. n - 1 /\ c = n * q + r
    BY Division
  <1> HIDE DEF q, r
  <1>2. CASE r = n - 1
    <2>1. c + 1 = n * (q + 1) + 0
      BY <1>1, <1>2
    <2>2. (c + 1) \div n = q + 1 /\ (c + 1) % n = 0
      BY <1>1, <2>1, DivisionIsUnique
    <2>3. QED BY <2>2 DEF q
  <1>3. CASE r # n - 1
    <2>1. c + 1 = n * q + (r + 1) /\ r + 1 \in 0 .. n - 1 /\ r + 1 # 0
      BY <1>1, <1>3
    <2>2. (c + 1) \div n = q /\ (c + 1) % n = r + 1
      BY <1>1, <2>1, DivisionIsUnique
    <2>3. QED BY <2>1, <2>2 DEF q
  <1>4. QED BY <1>2, <1>3

LEMMA SumOfMultiples ==
    ASSUME NEW n \in Nat \ {0}, NEW a \in Int, NEW b \in Int, b % n = 0
    PROVE  (a + b) % n = a % n
  <1> DEFINE q == a \div n  r == a % n  k == b \div n
  <1>1. q \in Int /\ r \in 0 .. n - 1 /\ a = n * q + r
    BY Division
  <1>2. k \in Int /\ b = n * k
    BY Division
  <1> HIDE DEF q, r, k
  <1>3. a + b = n * (q + k) + r
    BY <1>1, <1>2
  <1>4. (a + b) % n = r
    BY <1>1, <1>2, <1>3, DivisionIsUnique
  <1>5. QED BY <1>4 DEF r

(* The count is kept as long as wrapping around does not disturb it. *)
InStep(p) == (2 * Limit) % every = 0 \/ counted[p] < Limit

CountInv ==
    /\ \A t \in Threads : pc[t] = "count" => stmt[t].counts
    /\ \A p \in Procs :
         /\ counted[p] < Limit => counter[p] = counted[p]
         /\ InStep(p) => (counted[p] - counter[p]) % every = 0
         /\ InStep(p) => settled[p] + Cardinality(LetThrough(p)) = counted[p] \div every

LEMMA InitCountInv == Init => CountInv
  <1> SUFFICES ASSUME Init PROVE CountInv
    OBVIOUS
  <1>1. every \in Nat \ {0} /\ 0 < Limit
    BY Numbers DEF Init
  <1>2. 0 \div every = 0 /\ 0 % every = 0
    <2>1. 0 = every * 0 + 0
      BY <1>1
    <2>2. QED BY <1>1, <2>1, DivisionIsUnique
  <1>3. \A p \in Procs : LetThrough(p) = {}
    BY DEF Init, LetThrough
  <1>4. \A p \in Procs : Cardinality(LetThrough(p)) = 0
    BY <1>3, FS_EmptySet
  <1>5. QED BY <1>1, <1>2, <1>4 DEF Init, CountInv

LEMMA CountOfNext ==
    ASSUME IInv, CountInv, NEW p \in Procs, counted[p] < MaxCount,
           NEW c, c = Successor(counter[p])
    PROVE  /\ counted[p] + 1 < Limit => c = counted[p] + 1
           /\ (2 * Limit) % every = 0 \/ counted[p] + 1 < Limit =>
                /\ InStep(p) /\ (counted[p] + 1 - c) % every = 0
                /\ (c % every = 0) = ((counted[p] + 1) % every = 0)
  <1>1. /\ every \in Nat \ {0} /\ Limit \in Nat \ {0}
        /\ counter[p] \in -Limit .. Limit - 1 /\ counted[p] \in Nat
    BY Numbers DEF IInv, TypeOK
  <1>2. c \in Int /\ c \in {counter[p] + 1, counter[p] + 1 - 2 * Limit}
    BY <1>1 DEF Successor
  <1>3. counted[p] + 1 < Limit => c = counted[p] + 1
    BY <1>1 DEF Successor, CountInv
  <1>4. ASSUME (2 * Limit) % every = 0 \/ counted[p] + 1 < Limit
        PROVE  InStep(p) /\ (counted[p] + 1 - c) % every = 0
    <2>1. InStep(p)
      BY <1>1, <1>4 DEF InStep
    <2>2. (counted[p] - counter[p]) % every = 0
      BY <2>1 DEF CountInv
    <2>3. CASE c = counter[p] + 1
      BY <1>1, <2>1, <2>2, <2>3
    <2>4. CASE c # counter[p] + 1
      <3>1. /\ counted[p] + 1 - c = (counted[p] - counter[p]) + 2 * Limit
            /\ c # counted[p] + 1
        BY <1>1, <1>2, <2>4 DEF Successor, CountInv
      <3>2. (2 * Limit) % every = 0
        BY <1>3, <1>4, <3>1
      <3>3. counted[p] - counter[p] \in Int /\ 2 * Limit \in Int
        BY <1>1
      <3>4. ((counted[p] - counter[p]) + 2 * Limit) % every = (counted[p] - counter[p]) % every
        BY <1>1, <3>2, <3>3, SumOfMultiples
      <3>5. QED BY <2>1, <2>2, <3>1, <3>4
    <2>5. QED BY <2>3, <2>4
  <1>5. ASSUME (counted[p] + 1 - c) % every = 0
        PROVE  (counted[p] + 1) % every = c % every
    <2>1. counted[p] + 1 = c + (counted[p] + 1 - c) /\ counted[p] + 1 - c \in Int
      BY <1>1, <1>2
    <2>2. QED BY SMTT(30), <1>1, <1>2, <1>5, <2>1, SumOfMultiples
  <1>6. QED BY <1>3, <1>4, <1>5

LEMMA FiniteLetThrough ==
    ASSUME NEW p
    PROVE  IsFiniteSet(LetThrough(p)) /\ Cardinality(LetThrough(p)) \in Nat
  <1>1. LetThrough(p) \subseteq Threads
    BY DEF LetThrough
  <1>2. QED BY <1>1, IdsAssumption, FS_Subset, FS_CardinalityType

(* Nothing happens to the counts and nothing to the set of statements let through. *)
LEMMA SameCounts ==
    ASSUME CountInv, UNCHANGED counts,
           \A t \in Threads : pc'[t] = "count" => stmt'[t].counts,
           \A p \in Procs : LetThrough(p)' = LetThrough(p)
    PROVE  CountInv'
  <1>1. \A p \in Procs : InStep(p)' = InStep(p)
    BY DEF InStep, counts
  <1>2. QED BY <1>1 DEF CountInv, counts

LEMMA IncrementCountInv ==
    ASSUME IInv, CountInv, NEW t \in Threads, Increment(t)
    PROVE  CountInv'
  <1>0. PICK q \in Procs : q = proc[t]
    BY DEF IInv, TypeOK, Alive, Increment
  <1> DEFINE n == every  c == counted[q]  d == Successor(counter[q])
  <1>1. /\ pc[t] = "count" /\ stmt[t].counts /\ q = proc[t] /\ c < MaxCount
        /\ n \in Nat \ {0} /\ c \in Nat /\ settled[q] \in Nat
        /\ counter' = [counter EXCEPT ![q] = d] /\ counted' = [counted EXCEPT ![q] = c + 1]
        /\ counter'[q] = d /\ counted'[q] = c + 1
        /\ UNCHANGED <<every, settled, proc>>
    BY <1>0, Numbers DEF IInv, TypeOK, Increment, CountInv
  <1>2. \/ d % n = 0 /\ pc' = [pc EXCEPT ![t] = "start"] /\ stmt' = stmt
        \/ d % n # 0 /\ pc' = [pc EXCEPT ![t] = "idle"] /\ stmt' = [stmt EXCEPT ![t] = NoStmt]
    BY <1>1 DEF Increment, Goto
  <1>3. \A v \in Threads : pc'[v] = "count" => stmt'[v].counts
    BY <1>2 DEF CountInv, IInv, TypeOK
  <1>4. /\ c + 1 < Limit => d = c + 1
        /\ (2 * Limit) % n = 0 \/ c + 1 < Limit =>
             InStep(q) /\ (c + 1 - d) % n = 0 /\ (d % n = 0) = ((c + 1) % n = 0)
    BY <1>1, CountOfNext
  <1>5. InStep(q)' <=> ((2 * Limit) % n = 0 \/ c + 1 < Limit)
    BY <1>1 DEF InStep
  <1>6. ASSUME InStep(q)'
        PROVE  settled'[q] + Cardinality(LetThrough(q)') = (c + 1) \div n
    <2>1. /\ settled[q] + Cardinality(LetThrough(q)) = c \div n
          /\ (d % n = 0) = ((c + 1) % n = 0)
      BY <1>1, <1>4, <1>5, <1>6 DEF CountInv
    <2>2. t \notin LetThrough(q)
      BY <1>1 DEF LetThrough
    <2>3. CASE d % n = 0
      <3>1. LetThrough(q)' = LetThrough(q) \cup {t}
        BY <1>1, <1>2, <2>3 DEF LetThrough, IInv, TypeOK
      <3>2. Cardinality(LetThrough(q)') = Cardinality(LetThrough(q)) + 1
        BY <2>2, <3>1, FiniteLetThrough, FS_AddElement
      <3>3. (c + 1) \div n = (c \div n) + 1
        BY <1>1, <2>1, <2>3, NextQuotient
      <3>4. QED BY <1>1, <2>1, <3>2, <3>3, FiniteLetThrough
    <2>4. CASE d % n # 0
      <3>1. LetThrough(q)' = LetThrough(q)
        BY <1>1, <1>2, <2>4 DEF LetThrough, IInv, TypeOK
      <3>2. (c + 1) \div n = c \div n
        BY <1>1, <2>1, <2>4, NextQuotient
      <3>3. QED BY <1>1, <2>1, <3>1, <3>2
    <2>5. QED BY <2>3, <2>4
  <1>7. ASSUME NEW p \in Procs, p # q
        PROVE  /\ counter'[p] = counter[p] /\ counted'[p] = counted[p]
               /\ InStep(p)' = InStep(p) /\ LetThrough(p)' = LetThrough(p)
    <2>1. counter'[p] = counter[p] /\ counted'[p] = counted[p]
      BY <1>1, <1>7 DEF IInv, TypeOK
    <2>2. InStep(p)' = InStep(p)
      BY <1>1, <2>1 DEF InStep
    <2>3. LetThrough(p)' = LetThrough(p)
      BY <1>1, <1>2, <1>7 DEF LetThrough, IInv, TypeOK
    <2>4. QED BY <2>1, <2>2, <2>3
  <1>8. ASSUME NEW p \in Procs
        PROVE  (/\ counted[p] < Limit => counter[p] = counted[p]
                /\ InStep(p) => (counted[p] - counter[p]) % every = 0
                /\ InStep(p) => settled[p] + Cardinality(LetThrough(p)) = counted[p] \div every)'
    <2>1. CASE p = q
      <3>1. counted'[q] < Limit => counter'[q] = counted'[q]
        BY <1>1, <1>4
      <3>2. InStep(q)' => (counted'[q] - counter'[q]) % every' = 0
        <4> SUFFICES ASSUME InStep(q)' PROVE (counted'[q] - counter'[q]) % every' = 0
          OBVIOUS
        <4>1. (2 * Limit) % n = 0 \/ c + 1 < Limit
          BY <1>5
        <4>2. (c + 1 - d) % n = 0
          BY <1>4, <4>1
        <4>3. d \in Int
          BY CounterType, Numbers DEF IInv, TypeOK
        <4>4. counted'[q] - counter'[q] = c + 1 - d
          BY <1>1, <4>3
        <4>5. QED BY <1>1, <4>2, <4>4
      <3>3. InStep(q)' => settled'[q] + Cardinality(LetThrough(q)') = counted'[q] \div every'
        BY <1>1, <1>6
      <3>4. QED BY <2>1, <3>1, <3>2, <3>3
    <2>2. CASE p # q
      BY <1>1, <1>7, <2>2 DEF CountInv
    <2>3. QED BY <2>1, <2>2
  <1>9. QED BY <1>3, <1>8 DEF CountInv

(* A statement that was let through ends: it is counted as settled. *)
LEMMA EndCountInv ==
    ASSUME IInv, CountInv, NEW t \in Threads, NoMemory(t) \/ EndLog(t)
    PROVE  CountInv'
  <1>1. PICK q \in Procs : q = proc[t]
    BY DEF IInv, TypeOK, Alive, NoMemory, EndLog, EndStatement, Goto
  <1>2. /\ pc[t] \in {"start", "clear"} /\ pc' = [pc EXCEPT ![t] = "idle"]
        /\ stmt' = [stmt EXCEPT ![t] = NoStmt]
        /\ settled' = [settled EXCEPT ![q] = IF stmt[t].counts THEN @ + 1 ELSE @]
        /\ UNCHANGED <<every, counter, counted, proc>>
    BY <1>1 DEF NoMemory, EndLog, EndStatement, Goto
  <1>3. \A p \in Procs : InStep(p)' = InStep(p)
    BY <1>2 DEF InStep
  <1>4. \A v \in Threads : pc'[v] = "count" => stmt'[v].counts
    BY <1>2 DEF CountInv, IInv, TypeOK
  <1>5. ASSUME NEW p \in Procs
        PROVE  settled'[p] + Cardinality(LetThrough(p)') = settled[p] + Cardinality(LetThrough(p))
    <2>1. CASE p = q /\ stmt[t].counts
      <3>1. LetThrough(p)' = LetThrough(p) \ {t} /\ t \in LetThrough(p)
        BY <1>1, <1>2, <2>1 DEF LetThrough, NoStmt, IInv, TypeOK
      <3>2. Cardinality(LetThrough(p)') = Cardinality(LetThrough(p)) - 1
        BY <3>1, FiniteLetThrough, FS_RemoveElement
      <3>3. settled'[p] = settled[p] + 1 /\ settled[p] \in Nat
        BY <1>2, <2>1 DEF IInv, TypeOK
      <3>4. QED BY <3>2, <3>3, FiniteLetThrough
    <2>2. CASE p # q \/ ~stmt[t].counts
      <3>1. LetThrough(p)' = LetThrough(p)
        BY <1>1, <1>2, <2>2 DEF LetThrough, NoStmt, IInv, TypeOK
      <3>2. settled'[p] = settled[p]
        BY <1>2, <2>2 DEF IInv, TypeOK
      <3>3. QED BY <3>1, <3>2
    <2>3. QED BY <2>1, <2>2
  <1>6. QED BY <1>2, <1>3, <1>4, <1>5 DEF CountInv

(* The child of a fork() starts with the counts of its parent, none of whose
   threads is in a statement. *)
LEMMA ForkCountInv ==
    ASSUME IInv, CountInv, NEW t \in Threads, NEW u \in Threads, NEW q \in Procs, Fork(t, q, u)
    PROVE  CountInv'
  <1>1. PICK p \in Procs : p = proc[t]
    BY DEF Fork, IInv, TypeOK, Alive
  <1>2. /\ pc[t] = "idle" /\ pc[u] = "idle" /\ t # u
        /\ \A v \in Threads : proc[v] # q /\ (proc[v] = p => v = t)
        /\ counter' = [counter EXCEPT ![q] = counter[p]]
        /\ counted' = [counted EXCEPT ![q] = counted[p]]
        /\ settled' = [settled EXCEPT ![q] = settled[p]]
        /\ proc' = [proc EXCEPT ![u] = q]
        /\ UNCHANGED <<every, pc, stmt>>
    BY <1>1 DEF Fork, Unused, IInv, TypeOK, Alive
  <1>3. LetThrough(p) = {} /\ LetThrough(q)' = {}
    BY <1>1, <1>2 DEF LetThrough, IInv, TypeOK
  <1>4. ASSUME NEW r \in Procs, r # q
        PROVE  LetThrough(r)' = LetThrough(r)
    BY <1>2, <1>4 DEF LetThrough, IInv, TypeOK
  <1>5. \A v \in Threads : pc'[v] = "count" => stmt'[v].counts
    BY <1>2 DEF CountInv
  <1>6. ASSUME NEW r \in Procs, r # q
        PROVE  /\ counter'[r] = counter[r] /\ counted'[r] = counted[r]
               /\ settled'[r] = settled[r] /\ InStep(r)' = InStep(r)
    BY <1>2, <1>6 DEF InStep, IInv, TypeOK
  <1>7. /\ counter'[q] = counter[p] /\ counted'[q] = counted[p] /\ settled'[q] = settled[p]
        /\ InStep(q)' = InStep(p) /\ LetThrough(q)' = LetThrough(p)
    BY <1>2, <1>3 DEF InStep, IInv, TypeOK
  <1>8. QED BY <1>2, <1>4, <1>5, <1>6, <1>7 DEF CountInv

LEMMA OtherCountInv ==
    ASSUME IInv, CountInv,
           \/ ClockMoves \/ UNCHANGED vars
           \/ \E t, u \in Threads : CreateThread(t, u)
           \/ \E t \in Threads : TestLevel(t) \/ StartLog(t) \/ FormatLine(t) \/ Output(t)
                                 \/ DirectOutput(t)
    PROVE  CountInv'
  <1> USE DEF CountInv, IInv, TypeOK, LetThrough
  <1>1. UNCHANGED counts
    BY DEF ClockMoves, vars, CreateThread, TestLevel, StartLog, FormatLine, Output, DirectOutput
  <1>2. CASE UNCHANGED control
    BY <1>1, <1>2, SameCounts DEF control
  <1>3. ASSUME NEW t \in Threads, NEW u \in Threads, CreateThread(t, u) PROVE CountInv'
    <2>1. proc' = [proc EXCEPT ![u] = proc[t]] /\ pc' = pc /\ stmt' = stmt /\ pc[u] = "idle"
      BY <1>3 DEF CreateThread, Alive
    <2>2. \A p \in Procs : LetThrough(p)' = LetThrough(p)
      BY <2>1
    <2>3. QED BY <1>1, <2>1, <2>2, SameCounts
  <1>4. ASSUME NEW t \in Threads, TestLevel(t) PROVE CountInv'
    <2>1. PICK s \in Stmts : /\ stmt' = [stmt EXCEPT ![t] = s]
                             /\ pc' = [pc EXCEPT ![t] = IF s.counts THEN "count" ELSE "start"]
      BY <1>4 DEF TestLevel, Goto
    <2>2. pc[t] = "idle" /\ proc' = proc
      BY <1>4 DEF TestLevel, Goto
    <2>3. \A p \in Procs : LetThrough(p)' = LetThrough(p)
      BY <2>1, <2>2
    <2>4. \A v \in Threads : pc'[v] = "count" => stmt'[v].counts
      BY <2>1
    <2>5. QED BY <1>1, <2>3, <2>4, SameCounts
  <1>5. ASSUME NEW t \in Threads,
               StartLog(t) \/ FormatLine(t) \/ Output(t) \/ DirectOutput(t)
        PROVE  CountInv'
    <2>1. PICK to \in {"idle", "format", "output", "clear"} :
            /\ pc' = [pc EXCEPT ![t] = to]
            /\ \/ to = "idle" /\ pc[t] = "idle"
               \/ to # "idle" /\ pc[t] \in {"start", "format", "output"}
      BY <1>5 DEF StartLog, FormatLine, Output, DirectOutput, Goto
    <2>2. stmt' = stmt /\ proc' = proc
      BY <1>5 DEF StartLog, FormatLine, Output, DirectOutput
    <2>3. \A p \in Procs : LetThrough(p)' = LetThrough(p)
      BY <2>1, <2>2
    <2>4. \A v \in Threads : pc'[v] = "count" => stmt'[v].counts
      BY <2>1, <2>2
    <2>5. QED BY <1>1, <2>3, <2>4, SameCounts
  <1>6. QED BY <1>2, <1>3, <1>4, <1>5 DEF ClockMoves, vars

LEMMA NextCountInv == IInv /\ CountInv /\ [Next]_vars => CountInv'
  BY IncrementCountInv, EndCountInv, ForkCountInv, OtherCountInv DEF Next, ThreadStep

(* EVERY_N lets through exactly every n-th execution, for any number of threads and
   processes; if n does not divide the number of values of the counter, until the
   counter wraps around. *)
THEOREM LetsOneInNThrough == Spec => []OneInN
  <1>1. IInv /\ CountInv => OneInN
    BY DEF CountInv, OneInN, InStep
  <1>2. Init => IInv /\ CountInv
    BY InitIInv, InitCountInv
  <1>3. IInv /\ CountInv /\ [Next]_vars => (IInv /\ CountInv)'
    BY NextIInv, NextCountInv
  <1>4. QED BY <1>1, <1>2, <1>3, PTL DEF Spec
===============================================================================
