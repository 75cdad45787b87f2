-------------------------- MODULE FileAppenderProofs --------------------------
(***************************************************************************)
(* TLAPS proofs about FileAppender, for any number of processes, threads,  *)
(* names, files and faults.                                                *)
(*                                                                         *)
(* NoLogLost is not inductive: that rename() overwrites nothing depends on *)
(* what the renaming thread found out several system calls earlier.  The   *)
(* inductive invariant IInv adds what each thread still knows of its       *)
(* findings, who holds splitMutex_, and that no inode number is ahead of   *)
(* the count of files, so that a path that changed never again refers to   *)
(* the file a thread found full.                                           *)
(***************************************************************************)
EXTENDS FileAppender, FiniteSetTheorems, TLAPS

(* A name built from a time and a sequence number in range is one of Names. *)
LEMMA NewFilenameIsName ==
    ASSUME NEW p \in Procs, NEW now \in Times, NEW n \in SeqNos
    PROVE  NewFilename(p, now, n) \in Names
  BY DEF Names

LEMMA PathIsName == Path \in Names
  BY DEF Names

(* %P tells the names of two processes apart, whatever the times and numbers. *)
LEMMA PidTellsNamesApart ==
    ASSUME "pid" \in Directives,
           NEW p, NEW q, p # q, NEW a, NEW b, NEW m, NEW n
    PROVE  NewFilename(p, a, m) # NewFilename(q, b, n)
  <1>1. NewFilename(p, a, m)["pid"] = p
    BY DEF NewFilename
  <1>2. NewFilename(q, b, n)["pid"] = q
    BY DEF NewFilename
  <1>3. QED BY <1>1, <1>2

LEMMA TargetIsName ==
    ASSUME TypeOK, NEW t \in Threads
    PROVE  Target(t) \in Names
  <1>1. ProcOf[t] \in Procs
    BY ThreadsAssumption
  <1>2. tm[t] \in Times /\ chk[t].seq \in SeqNos
    BY DEF TypeOK, Checks
  <1>3. QED BY <1>1, <1>2, NewFilenameIsName DEF Target

-----------------------------------------------------------------------------
(* Type correctness. *)

LEMMA InitType == Init => TypeOK
  BY SizesAssumption, ThreadsAssumption
  DEF Init, TypeOK, Times, Files, SeqNos, Steps, NoCheck, Checks, None

LEMMA NoCheckType == NoCheck \in Checks
  BY SizesAssumption DEF NoCheck, Checks, SeqNos

(* Recording what one system call returned keeps the type of the locals. *)
LEMMA RecordType ==
    ASSUME NEW c \in Checks
    PROVE  /\ \A v \in {StdErr, None} \cup Files : [c EXCEPT !.stFd = v] \in Checks
           /\ \A v \in {None} \cup Files : [c EXCEPT !.stFile = v] \in Checks
           /\ \A v \in SeqNos : [c EXCEPT !.seq = v] \in Checks
           /\ \A v \in {None} \cup Files : [c EXCEPT !.newfd = v] \in Checks
  BY DEF Checks

(* Opening the log keeps the types of what it changes. *)
LEMMA OpenLogFileType ==
    ASSUME TypeOK, NEW i \in Files, OpenLogFile(i)
    PROVE  /\ dir' \in [Names -> {None} \cup Files]
           /\ nfiles' \in {0} \cup Files
  BY DEF TypeOK, OpenLogFile, Files

LEMMA NextType == TypeOK /\ [Next]_vars => TypeOK'
  <1> SUFFICES ASSUME TypeOK, [Next]_vars PROVE TypeOK'
    OBVIOUS
  <1> USE ThreadsAssumption, SizesAssumption DEF TypeOK, world, shared, local
  <1>1. CASE Tick
    BY <1>1 DEF Tick, Times
  <1>2. CASE ClockStepsBack
    BY <1>2 DEF ClockStepsBack, Inject, Times
  <1>3. ASSUME NEW n \in Names, OperatorTakes(n) PROVE TypeOK'
    BY <1>3 DEF OperatorTakes, None
  <1>4. CASE TogglePermission
    BY <1>4 DEF TogglePermission, Inject
  <1>5. ASSUME NEW p \in Procs, Construct(p) PROVE TypeOK'
    <2>1. dir' \in [Names -> {None} \cup Files] /\ nfiles' \in {0} \cup Files
      BY <1>5, OpenLogFileType DEF Construct, OpenFails
    <2>2. fd' \in [Procs -> {StdErr, None} \cup Files]
      BY <1>5 DEF Construct
    <2>3. openable' \in BOOLEAN /\ up' \in [Procs -> BOOLEAN]
      BY <1>5 DEF Construct
    <2>4. pc' \in [Threads -> Steps] /\ lastcheck' \in [Procs -> Times]
      BY <1>5 DEF Construct, Steps, Times
    <2>5. QED BY <1>5, <2>1, <2>2, <2>3, <2>4 DEF Construct
  <1>6. ASSUME NEW p \in Procs, Crash(p) PROVE TypeOK'
    <2>1. faults' \in 0..MaxFaults
      BY <1>6 DEF Crash, Inject
    <2>2. pc' \in [Threads -> Steps] /\ tm' \in [Threads -> Times]
      BY <1>6 DEF Crash, Steps, Times
    <2>3. chk' \in [Threads -> Checks]
      BY <1>6, NoCheckType DEF Crash
    <2>4. QED BY <1>6, <2>1, <2>2, <2>3 DEF Crash
  <1>7. ASSUME NEW t \in Threads, ThreadStep(t) PROVE TypeOK'
    <2> USE DEF Goto, LeaveCheck, Steps, CheckSteps
    <2>0. ProcOf[t] \in Procs
      OBVIOUS
    <2>1. CASE StartLog(t)
      BY <2>1 DEF StartLog
    <2>2. CASE Gate(t)
      BY <2>0, <2>2 DEF Gate
    <2>3. CASE FstatFd(t)
      <3>1. chk' \in [Threads -> Checks]
        BY <2>0, <2>3, RecordType DEF FstatFd
      <3>2. QED BY <2>3, <3>1 DEF FstatFd
    <2>4. CASE StatPath(t)
      <3>1. chk' \in [Threads -> Checks]
        BY <2>4, PathIsName, NoCheckType, RecordType DEF StatPath
      <3>2. QED BY <2>4, <3>1 DEF StatPath
    <2>5. CASE PickName(t)
      <3>1. chk[t].seq + 1 < SeqLimit => chk[t].seq + 1 \in SeqNos
        BY DEF Checks, SeqNos
      <3>2. chk' \in [Threads -> Checks]
        BY <2>5, <3>1, NoCheckType, RecordType DEF PickName
      <3>3. QED BY <2>5, <3>2 DEF PickName
    <2>6. CASE StatAgain(t)
      BY <2>0, <2>6, NoCheckType DEF StatAgain
    <2>7. CASE Rename(t)
      BY <2>7, PathIsName, TargetIsName DEF Rename
    <2>8. CASE OpenLog(t)
      <3>1. dir' \in [Names -> {None} \cup Files] /\ nfiles' \in {0} \cup Files
        BY <2>8, OpenLogFileType DEF OpenLog, OpenFails
      <3>2. PICK i \in {None} \cup Files : chk' = [chk EXCEPT ![t].newfd = i]
        BY <2>8 DEF OpenLog
      <3>3. [chk[t] EXCEPT !.newfd = i] \in Checks
        BY RecordType
      <3>4. chk' \in [Threads -> Checks]
        BY <3>2, <3>3
      <3>5. QED BY <2>8, <3>1, <3>4 DEF OpenLog
    <2>9. CASE Dup2(t)
      <3>1. chk[t].newfd \in {None} \cup Files
        BY DEF Checks
      <3>2. chk' \in [Threads -> Checks] /\ pc' \in [Threads -> Steps]
        BY <2>9, NoCheckType DEF Dup2
      <3>3. fd' \in [Procs -> {StdErr, None} \cup Files]
        BY <2>0, <2>9, <3>1 DEF Dup2
      <3>4. splitMutex' \in [Procs -> Threads \cup {NoThread}]
        BY <2>0, <2>9 DEF Dup2, ReleaseSplitMutex
      <3>5. QED BY <2>9, <3>2, <3>3, <3>4 DEF Dup2
    <2>10. CASE Write(t)
      BY <2>0, <2>10 DEF Write, Times
    <2>11. QED
      BY <1>7, <2>1, <2>2, <2>3, <2>4, <2>5, <2>6, <2>7, <2>8, <2>9, <2>10 DEF ThreadStep
  <1>8. CASE UNCHANGED vars
    BY <1>8 DEF vars
  <1>9. QED
    BY <1>1, <1>2, <1>3, <1>4, <1>5, <1>6, <1>7, <1>8 DEF Next

(* Every variable keeps its type, for all values of the constants. *)
THEOREM TypeCorrect == Spec => []TypeOK
  BY InitType, NextType, PTL DEF Spec

-----------------------------------------------------------------------------
(* No file is overwritten. *)

(* Either %P is in the format or one process logs to the file. *)
NamesDoNotClash == "pid" \in Directives \/ \A p, q \in Procs : p = q

(* No name refers to an inode that was not created, and a thread that looks for
   a new name does so for a file that was. *)
KnownFiles ==
    /\ \A n \in Names : dir[n] <= nfiles
    /\ \A t \in Threads :
         pc[t] \in {"pick", "split", "rename"} => chk[t].stFile \in 1..nfiles

(* A thread renames under the mutex of its process. *)
RenameHoldsMutex ==
    \A t \in Threads : pc[t] = "rename" => splitMutex[ProcOf[t]] = t

IInv == TypeOK /\ KnownFiles /\ RenameHoldsMutex /\ RenameIsSafe /\ NoLogLost

(* What the conjuncts about a thread say of one thread; a step of another thread
   or of the environment disturbs them through the directory only. *)
ThreadInv(t) ==
    /\ pc[t] \in {"pick", "split", "rename"} => chk[t].stFile \in 1..nfiles
    /\ pc[t] = "rename" => splitMutex[ProcOf[t]] = t
    /\ pc[t] = "split" /\ dir[Path] = chk[t].stFile => dir[Target(t)] = None
    /\ pc[t] = "rename" => dir[Target(t)] = None /\ Target(t) # Path

LEMMA ThreadInvs ==
    IInv <=> /\ TypeOK
             /\ \A n \in Names : dir[n] <= nfiles
             /\ NoLogLost
             /\ \A t \in Threads : ThreadInv(t)
  BY DEF IInv, KnownFiles, RenameHoldsMutex, RenameIsSafe, ThreadInv

LEMMA FromParts ==
    ASSUME TypeOK', \A n \in Names : dir'[n] <= nfiles', NoLogLost',
           \A t \in Threads : ThreadInv(t)'
    PROVE  IInv'
  BY DEF IInv, KnownFiles, RenameHoldsMutex, RenameIsSafe, ThreadInv

(* The locals of thread t, its time, its place and the mutex of its process stay
   as they are. *)
Undisturbed(t) ==
    /\ pc'[t] = pc[t] /\ tm'[t] = tm[t] /\ chk'[t] = chk[t]
    /\ pc[t] = "rename" => splitMutex'[ProcOf[t]] = splitMutex[ProcOf[t]]

LEMMA UndisturbedTarget ==
    ASSUME NEW t \in Threads, Undisturbed(t)
    PROVE  Target(t)' = Target(t)
  BY DEF Undisturbed, Target

(* A thread outside the search for a new name knows nothing. *)
LEMMA NothingToKnow ==
    ASSUME NEW t \in Threads, pc'[t] \notin {"pick", "split", "rename"}
    PROVE  ThreadInv(t)'
  BY DEF ThreadInv

LEMMA UndisturbedInv ==
    ASSUME IInv, NEW t \in Threads, Undisturbed(t), dir' = dir, nfiles' = nfiles
    PROVE  ThreadInv(t)'
  <1>1. ThreadInv(t) /\ Target(t)' = Target(t)
    BY ThreadInvs, UndisturbedTarget
  <1>2. QED BY <1>1 DEF ThreadInv, Undisturbed

(* Opening the log: a new inode is beyond every number a thread remembers, and
   it appears at the path, which is nobody's target. *)
LEMMA OpenPreserves ==
    ASSUME IInv, NEW i \in Files, OpenLogFile(i), NEW t \in Threads, Undisturbed(t)
    PROVE  ThreadInv(t)'
  <1>1. ThreadInv(t) /\ Target(t)' = Target(t) /\ Target(t) \in Names
    BY TargetIsName, ThreadInvs, UndisturbedTarget DEF IInv
  <1>2. nfiles \in Nat /\ nfiles' \in Nat /\ nfiles' >= nfiles
    BY DEF IInv, TypeOK, OpenLogFile, Files
  <1>3. QED
    BY <1>1, <1>2, PathIsName
    DEF ThreadInv, Undisturbed, OpenLogFile, IInv, TypeOK, None, Files

LEMMA OpenKeepsFiles ==
    ASSUME IInv, NEW i \in Files, OpenLogFile(i), taken' = taken
    PROVE  (\A n \in Names : dir'[n] <= nfiles') /\ NoLogLost'
  <1> USE DEF IInv, TypeOK, None, Files
  <1>1. \A n \in Names : dir'[n] <= nfiles'
    BY PathIsName DEF KnownFiles, OpenLogFile
  <1>2. ASSUME NEW j \in 1..nfiles', j \notin taken
        PROVE  \E n \in Names : dir'[n] = j
    <2>1. CASE j \in 1..nfiles
      <3>1. PICK n \in Names : dir[n] = j
        BY <1>2, <2>1 DEF NoLogLost
      <3>2. dir'[n] = j
        BY <2>1, <3>1, PathIsName DEF OpenLogFile
      <3>3. QED BY <3>2
    <2>2. CASE j \notin 1..nfiles
      BY <1>2, <2>2, PathIsName DEF OpenLogFile
    <2>3. QED BY <2>1, <2>2
  <1>3. QED BY <1>1, <1>2 DEF NoLogLost

(* A step that leaves the directory, the inodes and what the operator took. *)
LEMMA FilesUnchanged ==
    ASSUME IInv, UNCHANGED <<dir, nfiles, taken>>
    PROVE  (\A n \in Names : dir'[n] <= nfiles') /\ NoLogLost'
  BY DEF IInv, KnownFiles, NoLogLost

LEMMA InitIInv == Init => IInv
  <1> SUFFICES ASSUME Init PROVE IInv
    OBVIOUS
  <1>1. TypeOK
    BY InitType
  <1>2. QED
    BY <1>1 DEF IInv, Init, KnownFiles, RenameHoldsMutex, RenameIsSafe, NoLogLost, None

(* An operator makes names free and takes what had them. *)
LEMMA OperatorTakesIInv ==
    ASSUME IInv, TypeOK', NEW n \in Names, OperatorTakes(n)
    PROVE  IInv'
  <1> USE DEF IInv, TypeOK, OperatorTakes, local, shared
  <1>1. \A m \in Names : dir'[m] <= nfiles'
    BY DEF KnownFiles, None, Files
  <1>2. NoLogLost'
    BY DEF NoLogLost
  <1>3. ASSUME NEW t \in Threads PROVE ThreadInv(t)'
    <2>1. ThreadInv(t) /\ Target(t)' = Target(t) /\ Target(t) \in Names
      BY ThreadInvs, TargetIsName, UndisturbedTarget DEF Undisturbed
    <2>2. QED BY <2>1, PathIsName DEF ThreadInv, None
  <1>4. QED BY ONLY TypeOK', <1>1, <1>2, <1>3, FromParts

LEMMA ConstructIInv ==
    ASSUME IInv, TypeOK', NEW p \in Procs, Construct(p)
    PROVE  IInv'
  <1>1. CASE \E i \in Files : OpenLogFile(i)
    <2>1. PICK i \in Files : OpenLogFile(i)
      BY <1>1
    <2>2. (\A n \in Names : dir'[n] <= nfiles') /\ NoLogLost'
      BY <2>1, OpenKeepsFiles DEF Construct
    <2>3. ASSUME NEW t \in Threads PROVE ThreadInv(t)'
      <3>1. CASE ProcOf[t] = p
        BY <3>1, NothingToKnow DEF Construct
      <3>2. CASE ProcOf[t] # p
        BY <2>1, <3>2, OpenPreserves DEF Construct, Undisturbed, IInv, TypeOK
      <3>3. QED BY <3>1, <3>2
    <2>4. QED BY <2>2, <2>3, FromParts
  <1>2. CASE OpenFails
    <2>1. (\A n \in Names : dir'[n] <= nfiles') /\ NoLogLost'
      BY <1>2, FilesUnchanged DEF Construct, OpenFails
    <2>2. ASSUME NEW t \in Threads PROVE ThreadInv(t)'
      <3>1. CASE ProcOf[t] = p
        BY <3>1, NothingToKnow DEF Construct
      <3>2. CASE ProcOf[t] # p
        BY <1>2, <3>2, UndisturbedInv DEF Construct, OpenFails, Undisturbed, IInv, TypeOK
      <3>3. QED BY <3>1, <3>2
    <2>3. QED BY <2>1, <2>2, FromParts
  <1>3. QED BY <1>1, <1>2 DEF Construct

(* A crash releases the mutex of the process that crashes, and of no other. *)
LEMMA CrashIInv ==
    ASSUME IInv, TypeOK', NEW p \in Procs, Crash(p)
    PROVE  IInv'
  <1>1. (\A n \in Names : dir'[n] <= nfiles') /\ NoLogLost'
    BY FilesUnchanged DEF Crash
  <1>2. ASSUME NEW t \in Threads PROVE ThreadInv(t)'
    <2>1. CASE ProcOf[t] = p
      BY <2>1, NothingToKnow DEF Crash
    <2>2. CASE ProcOf[t] # p
      BY <2>2, ThreadsAssumption, UndisturbedInv DEF Crash, Undisturbed, IInv, TypeOK
    <2>3. QED BY <2>1, <2>2
  <1>3. QED BY <1>1, <1>2, FromParts

(* The steps of one thread u.  What another thread knows is disturbed only by
   an open and by a rename; u itself gains knowledge when it looks. *)
LEMMA OthersUndisturbed ==
    ASSUME TypeOK, RenameHoldsMutex,
           NEW u \in Threads, NEW t \in Threads, t # u, ThreadStep(u)
    PROVE  Undisturbed(t)
  <1> USE ThreadsAssumption DEF TypeOK, Goto, LeaveCheck, shared, Undisturbed
  <1>1. pc'[t] = pc[t] /\ tm'[t] = tm[t] /\ chk'[t] = chk[t]
    BY DEF ThreadStep, StartLog, Gate, FstatFd, StatPath, PickName, StatAgain, Rename,
           OpenLog, Dup2, Write
  <1>2. ASSUME pc[t] = "rename"
        PROVE  splitMutex'[ProcOf[t]] = splitMutex[ProcOf[t]]
    <2>1. splitMutex[ProcOf[t]] = t /\ t # NoThread
      BY <1>2 DEF RenameHoldsMutex
    <2>2. QED
      BY <2>1 DEF ThreadStep, StartLog, Gate, FstatFd, StatPath, PickName, StatAgain,
           Rename, OpenLog, Dup2, Write, ReleaseSplitMutex
  <1>3. QED BY <1>1, <1>2

(* The mutexes or the names of two renaming threads keep their targets apart. *)
LEMMA TargetsApart ==
    ASSUME IInv, NamesDoNotClash, NEW t \in Threads, NEW u \in Threads, t # u,
           pc[t] = "rename", pc[u] = "rename"
    PROVE  Target(t) # Target(u)
  <1>1. ProcOf[t] \in Procs /\ ProcOf[u] \in Procs
    BY ThreadsAssumption
  <1>2. ProcOf[t] # ProcOf[u]
    BY DEF IInv, RenameHoldsMutex
  <1>3. "pid" \in Directives
    BY <1>1, <1>2 DEF NamesDoNotClash
  <1>4. QED BY <1>2, <1>3, PidTellsNamesApart DEF Target

LEMMA RenameIInv ==
    ASSUME IInv, TypeOK', NamesDoNotClash, NEW u \in Threads, Rename(u)
    PROVE  IInv'
  <1>1. /\ pc[u] = "rename" /\ pc'[u] = "open"
        /\ Target(u) \in Names /\ dir[Target(u)] = None /\ Target(u) # Path
    BY TargetIsName DEF Rename, Goto, IInv, TypeOK, RenameIsSafe
  <1>2. ThreadStep(u)
    BY DEF ThreadStep
  <1>3. CASE dir' = dir
    <2>1. (\A n \in Names : dir'[n] <= nfiles') /\ NoLogLost'
      BY <1>3, FilesUnchanged DEF Rename
    <2>2. ASSUME NEW t \in Threads PROVE ThreadInv(t)'
      <3>1. CASE t = u
        BY <1>1, <3>1, NothingToKnow
      <3>2. CASE t # u
        BY <1>2, <1>3, <3>2, OthersUndisturbed, UndisturbedInv DEF Rename, IInv
      <3>3. QED BY <3>1, <3>2
    <2>3. QED BY <2>1, <2>2, FromParts
  <1>4. CASE /\ dir[Path] # None
             /\ dir' = [dir EXCEPT ![Target(u)] = dir[Path], ![Path] = None]
    <2>0. /\ dir'[Path] = None /\ dir'[Target(u)] = dir[Path]
          /\ \A n \in Names \ {Path, Target(u)} : dir'[n] = dir[n]
          /\ nfiles' = nfiles /\ nfiles \in Nat /\ taken' = taken
      BY <1>1, <1>4, PathIsName DEF Rename, IInv, TypeOK, Files
    <2>1. \A n \in Names : dir'[n] <= nfiles'
      BY <2>0, PathIsName DEF IInv, KnownFiles, None
    <2>2. NoLogLost'
      <3>1. SUFFICES ASSUME NEW i \in 1..nfiles, i \notin taken
                     PROVE  \E n \in Names : dir'[n] = i
        BY <2>0 DEF NoLogLost
      <3>2. PICK n \in Names : dir[n] = i
        BY <3>1 DEF IInv, NoLogLost
      <3>3. n # Target(u)
        BY <1>1, <3>2 DEF None
      <3>4. dir'[IF n = Path THEN Target(u) ELSE n] = i
        BY <2>0, <3>2, <3>3
      <3>5. QED BY <1>1, <3>4
    <2>3. ASSUME NEW t \in Threads PROVE ThreadInv(t)'
      <3>1. CASE t = u
        BY <1>1, <3>1, NothingToKnow
      <3>2. CASE t # u
        <4>1. ThreadInv(t) /\ Undisturbed(t) /\ Target(t)' = Target(t)
          BY <1>2, <3>2, OthersUndisturbed, ThreadInvs, UndisturbedTarget DEF IInv
        <4>2. CASE pc[t] = "rename"
          <5>1. Target(t) # Target(u) /\ Target(t) \in Names
            BY <1>1, <3>2, <4>2, TargetsApart, TargetIsName DEF IInv
          <5>2. QED BY <2>0, <4>1, <4>2, <5>1 DEF ThreadInv, Undisturbed
        <4>3. CASE pc[t] # "rename"
          BY <2>0, <4>1, <4>3 DEF ThreadInv, Undisturbed, None
        <4>4. QED BY <4>2, <4>3
      <3>3. QED BY <3>1, <3>2
    <2>4. QED BY <2>1, <2>2, <2>3, FromParts
  <1>5. QED BY <1>3, <1>4 DEF Rename

LEMMA OpenLogIInv ==
    ASSUME IInv, TypeOK', NEW u \in Threads, OpenLog(u)
    PROVE  IInv'
  <1>1. pc'[u] = "dup2" /\ ThreadStep(u)
    BY DEF OpenLog, Goto, ThreadStep, IInv, TypeOK
  <1>2. CASE \E i \in Files : OpenLogFile(i)
    <2>1. PICK i \in Files : OpenLogFile(i)
      BY <1>2
    <2>2. (\A n \in Names : dir'[n] <= nfiles') /\ NoLogLost'
      BY <2>1, OpenKeepsFiles DEF OpenLog
    <2>3. ASSUME NEW t \in Threads PROVE ThreadInv(t)'
      <3>1. CASE t = u
        BY <1>1, <3>1, NothingToKnow
      <3>2. CASE t # u
        BY <1>1, <2>1, <3>2, OthersUndisturbed, OpenPreserves DEF IInv
      <3>3. QED BY <3>1, <3>2
    <2>4. QED BY <2>2, <2>3, FromParts
  <1>3. CASE OpenFails
    <2>1. (\A n \in Names : dir'[n] <= nfiles') /\ NoLogLost'
      BY <1>3, FilesUnchanged DEF OpenLog, OpenFails
    <2>2. ASSUME NEW t \in Threads PROVE ThreadInv(t)'
      <3>1. CASE t = u
        BY <1>1, <3>1, NothingToKnow
      <3>2. CASE t # u
        BY <1>1, <1>3, <3>2, OthersUndisturbed, UndisturbedInv DEF OpenFails, IInv
      <3>3. QED BY <3>1, <3>2
    <2>3. QED BY <2>1, <2>2, FromParts
  <1>4. QED BY <1>2, <1>3 DEF OpenLog

(* A step of u that leaves the files alone preserves IInv when what u itself
   knows afterwards is right. *)
LEMMA LocalStepIInv ==
    ASSUME IInv, TypeOK', NEW u \in Threads, ThreadStep(u),
           UNCHANGED <<dir, nfiles, taken>>, ThreadInv(u)'
    PROVE  IInv'
  <1>1. (\A n \in Names : dir'[n] <= nfiles') /\ NoLogLost'
    BY FilesUnchanged
  <1>2. ASSUME NEW t \in Threads PROVE ThreadInv(t)'
    <2>1. CASE t = u
      BY <2>1
    <2>2. CASE t # u
      BY <2>2, OthersUndisturbed, UndisturbedInv DEF IInv
    <2>3. QED BY <2>1, <2>2
  <1>3. QED BY <1>1, <1>2, FromParts

(* The full file is one that exists. *)
LEMMA StatPathKnows ==
    ASSUME IInv, NEW u \in Threads, StatPath(u)
    PROVE  ThreadInv(u)'
  <1> USE DEF StatPath, Goto, LeaveCheck, world, IInv, TypeOK
  <1>1. CASE pc'[u] = "pick"
    <2>1. chk'[u].stFile = dir[Path] /\ dir[Path] # None
      BY <1>1 DEF Checks
    <2>2. dir[Path] \in 1..nfiles /\ nfiles' = nfiles
      BY <2>1, PathIsName DEF KnownFiles, None, Files
    <2>3. QED BY <1>1, <2>1, <2>2 DEF ThreadInv
  <1>2. CASE pc'[u] # "pick"
    BY <1>2, NothingToKnow
  <1>3. QED BY <1>1, <1>2

(* Unless stat() fails, the loop ends with a name that is free. *)
LEMMA PickNameKnows ==
    ASSUME IInv, "stat" \notin Faults, NEW u \in Threads, PickName(u)
    PROVE  ThreadInv(u)'
  <1> USE DEF PickName, Goto, LeaveCheck, world, IInv, TypeOK
  <1>1. chk[u].stFile \in 1..nfiles /\ nfiles' = nfiles
    BY DEF KnownFiles
  <1>2. CASE pc'[u] = "pick"
    <2>1. chk'[u].stFile = chk[u].stFile
      BY <1>2 DEF Checks
    <2>2. QED BY <1>1, <1>2, <2>1 DEF ThreadInv
  <1>3. CASE pc'[u] = "split"
    <2>1. chk'[u] = chk[u] /\ Target(u)' = Target(u) /\ dir'[Target(u)] = None
      BY <1>3 DEF Target
    <2>2. QED BY <1>1, <1>3, <2>1 DEF ThreadInv
  <1>4. CASE pc'[u] \notin {"pick", "split"}
    <2>1. pc'[u] = "write"
      BY <1>4
    <2>2. QED BY <2>1, NothingToKnow
  <1>5. QED BY <1>2, <1>3, <1>4

(* The double check: the file is still the one found full, so the name found
   free then is free now, and it is not the path. *)
LEMMA StatAgainKnows ==
    ASSUME IInv, NEW u \in Threads, StatAgain(u)
    PROVE  ThreadInv(u)'
  <1> USE DEF StatAgain, Goto, LeaveCheck, world, IInv, TypeOK
  <1>1. CASE pc'[u] = "rename"
    <2>1. /\ chk'[u] = chk[u] /\ Target(u)' = Target(u) /\ nfiles' = nfiles
          /\ dir' = dir /\ dir[Path] = chk[u].stFile /\ pc[u] = "split"
          /\ splitMutex'[ProcOf[u]] = u
      BY <1>1, ThreadsAssumption DEF Target
    <2>2. chk[u].stFile \in 1..nfiles /\ dir[Target(u)] = None
      BY <2>1 DEF KnownFiles, RenameIsSafe
    <2>3. QED BY <1>1, <2>1, <2>2 DEF ThreadInv, None
  <1>2. CASE pc'[u] # "rename"
    <2>1. pc'[u] = "write"
      BY <1>2
    <2>2. QED BY <2>1, NothingToKnow
  <1>3. QED BY <1>1, <1>2

LEMMA ThreadStepIInv ==
    ASSUME IInv, TypeOK', NamesDoNotClash, "stat" \notin Faults,
           NEW u \in Threads, ThreadStep(u)
    PROVE  IInv'
  <1>1. CASE Rename(u)
    BY <1>1, RenameIInv
  <1>2. CASE OpenLog(u)
    BY <1>2, OpenLogIInv
  <1>3. CASE ~Rename(u) /\ ~OpenLog(u)
    <2>1. UNCHANGED <<dir, nfiles, taken>>
      BY <1>3 DEF ThreadStep, StartLog, Gate, FstatFd, StatPath, PickName, StatAgain,
                  Dup2, Write, world
    <2>2. ThreadInv(u)'
      <3>1. CASE StatPath(u) \/ PickName(u) \/ StatAgain(u)
        BY <3>1, StatPathKnows, PickNameKnows, StatAgainKnows
      <3>2. CASE StartLog(u) \/ Gate(u) \/ FstatFd(u) \/ Dup2(u) \/ Write(u)
        <4>1. pc'[u] \notin {"pick", "split", "rename"}
          BY <3>2 DEF StartLog, Gate, FstatFd, Dup2, Write, Goto, LeaveCheck, IInv, TypeOK
        <4>2. QED BY <4>1, NothingToKnow
      <3>3. QED BY <1>3, <3>1, <3>2 DEF ThreadStep
    <2>3. QED BY <2>1, <2>2, LocalStepIInv
  <1>4. QED BY <1>1, <1>2, <1>3

LEMMA NextIInv ==
    ASSUME NamesDoNotClash, "stat" \notin Faults, IInv, [Next]_vars
    PROVE  IInv'
  <1>0. TypeOK'
    BY NextType DEF IInv
  <1>1. CASE Tick \/ ClockStepsBack \/ TogglePermission \/ UNCHANGED vars
    <2>1. UNCHANGED <<dir, nfiles, taken, splitMutex, pc, tm, chk>>
      BY <1>1 DEF Tick, ClockStepsBack, TogglePermission, vars, world, shared, local
    <2>2. (\A n \in Names : dir'[n] <= nfiles') /\ NoLogLost'
      BY <2>1, FilesUnchanged
    <2>3. \A t \in Threads : ThreadInv(t)'
      BY <2>1, UndisturbedInv DEF Undisturbed
    <2>4. QED BY <1>0, <2>2, <2>3, FromParts
  <1>2. ASSUME NEW n \in Names, OperatorTakes(n) PROVE IInv'
    BY <1>0, <1>2, OperatorTakesIInv
  <1>3. ASSUME NEW p \in Procs, Construct(p) \/ Crash(p) PROVE IInv'
    BY <1>0, <1>3, ConstructIInv, CrashIInv
  <1>4. ASSUME NEW t \in Threads, ThreadStep(t) PROVE IInv'
    BY <1>0, <1>4, ThreadStepIInv
  <1>5. QED BY <1>1, <1>2, <1>3, <1>4 DEF Next

(* No rename overwrites a file of log lines, whatever the interleaving of any
   number of threads and processes, crashes, permissions and operators, provided
   that the names of the processes do not clash (%P) and that stat() fails only
   for a file that is missing. *)
THEOREM NeverLost ==
    ASSUME NamesDoNotClash, "stat" \notin Faults
    PROVE  Spec => []NoLogLost
  <1>1. IInv => NoLogLost
    BY DEF IInv
  <1>2. IInv /\ [Next]_vars => IInv'
    BY NextIInv
  <1>3. QED BY InitIInv, <1>1, <1>2, PTL DEF Spec

(* When a thread is about to rename, its target is free. *)
THEOREM RenamesSafely ==
    ASSUME NamesDoNotClash, "stat" \notin Faults
    PROVE  Spec => []RenameIsSafe
  <1>1. IInv => RenameIsSafe
    BY DEF IInv
  <1>2. IInv /\ [Next]_vars => IInv'
    BY NextIInv
  <1>3. QED BY InitIInv, <1>1, <1>2, PTL DEF Spec

-----------------------------------------------------------------------------
(* The gate: a thread that checks the file does so at a time no later than
   lastcheck_ of its process, so the next one in comes an interval later. *)

CheckedByThen ==
    \A t \in Threads : pc[t] \in CheckSteps => tm[t] <= lastcheck[ProcOf[t]]

SpacedInv == TypeOK /\ CheckedByThen /\ ChecksAreSpaced

LEMMA InitSpaced == Init => SpacedInv
  BY InitType DEF Init, SpacedInv, CheckedByThen, ChecksAreSpaced, CheckSteps

(* A step after which the threads that check were checking before, at the same
   time, and after which no process of theirs has an earlier lastcheck_. *)
LEMMA NobodyEnters ==
    ASSUME SpacedInv, TypeOK',
           \A t \in Threads : pc'[t] \in CheckSteps =>
               /\ pc[t] \in CheckSteps /\ tm'[t] = tm[t]
               /\ lastcheck'[ProcOf[t]] = lastcheck[ProcOf[t]]
    PROVE  SpacedInv'
  BY DEF SpacedInv, CheckedByThen, ChecksAreSpaced

LEMMA GateSpaced ==
    ASSUME SpacedInv, TypeOK', NEW u \in Threads, Gate(u)
    PROVE  SpacedInv'
  <1> USE ThreadsAssumption DEF SpacedInv, TypeOK, Goto
  <1>1. CASE pc'[u] \notin CheckSteps
    <2>1. \A t \in Threads : pc'[t] \in CheckSteps =>
             /\ pc[t] \in CheckSteps /\ tm'[t] = tm[t]
             /\ lastcheck'[ProcOf[t]] = lastcheck[ProcOf[t]]
      BY <1>1 DEF Gate, CheckSteps
    <2>2. QED BY <2>1, NobodyEnters
  <1>2. CASE pc'[u] \in CheckSteps
    <2>1. /\ lastcheck[ProcOf[u]] + CheckInterval <= tm[u]
          /\ lastcheck' = [lastcheck EXCEPT ![ProcOf[u]] = tm[u]]
          /\ tm' = tm /\ \A t \in Threads \ {u} : pc'[t] = pc[t]
      BY <1>2 DEF Gate, CheckSteps
    <2>2. \A t \in Threads : tm[t] \in Nat /\ lastcheck[ProcOf[t]] \in Nat
      BY DEF Times
    <2>3. CheckedByThen'
      BY <2>1, <2>2, SizesAssumption DEF CheckedByThen
    <2>4. \A t \in Threads \ {u} :
             ProcOf[t] = ProcOf[u] /\ pc'[t] \in CheckSteps
               => tm'[u] - tm'[t] >= CheckInterval
      BY <2>1, <2>2, SizesAssumption DEF CheckedByThen
    <2>5. ChecksAreSpaced'
      BY <2>1, <2>4 DEF ChecksAreSpaced
    <2>6. QED BY <2>3, <2>5
  <1>3. QED BY <1>1, <1>2

LEMMA NextSpaced == SpacedInv /\ [Next]_vars => SpacedInv'
  <1> SUFFICES ASSUME SpacedInv, [Next]_vars PROVE SpacedInv'
    OBVIOUS
  <1>0. TypeOK'
    BY NextType DEF SpacedInv
  <1>1. ASSUME NEW u \in Threads, Gate(u) PROVE SpacedInv'
    BY <1>0, <1>1, GateSpaced
  <1>2. CASE ~\E u \in Threads : Gate(u)
    <2> SUFFICES ASSUME NEW t \in Threads, pc'[t] \in CheckSteps
                 PROVE  /\ pc[t] \in CheckSteps /\ tm'[t] = tm[t]
                        /\ lastcheck'[ProcOf[t]] = lastcheck[ProcOf[t]]
      BY <1>0, NobodyEnters
    <2> USE ThreadsAssumption DEF SpacedInv, TypeOK, CheckSteps, shared, local
    <2>1. CASE \/ Tick \/ ClockStepsBack \/ TogglePermission
               \/ (\E n \in Names : OperatorTakes(n)) \/ UNCHANGED vars
      BY <2>1 DEF Tick, ClockStepsBack, TogglePermission, OperatorTakes, vars
    <2>2. CASE \E p \in Procs : Construct(p) \/ Crash(p)
      BY <2>2 DEF Construct, Crash
    <2>3. ASSUME NEW u \in Threads, ThreadStep(u)
          PROVE  /\ pc[t] \in CheckSteps /\ tm'[t] = tm[t]
                 /\ lastcheck'[ProcOf[t]] = lastcheck[ProcOf[t]]
      <3>1. CASE StartLog(u) \/ Write(u)
        BY <3>1 DEF StartLog, Write, Goto
      <3>2. CASE \/ FstatFd(u) \/ StatPath(u) \/ PickName(u) \/ StatAgain(u)
                 \/ Rename(u) \/ OpenLog(u) \/ Dup2(u)
        BY <3>2 DEF FstatFd, StatPath, PickName, StatAgain, Rename, OpenLog, Dup2,
                    Goto, LeaveCheck
      <3>3. QED BY <1>2, <2>3, <3>1, <3>2 DEF ThreadStep
    <2>4. QED BY <2>1, <2>2, <2>3 DEF Next
  <1>3. QED BY <1>1, <1>2

(* Threads of one process never check the file less than an interval apart. *)
THEOREM Spaced == Spec => []ChecksAreSpaced
  <1>1. SpacedInv => ChecksAreSpaced
    BY DEF SpacedInv
  <1>2. QED BY InitSpaced, NextSpaced, <1>1, PTL DEF Spec

-----------------------------------------------------------------------------
(* The descriptor of a live process never leaves the log files. *)

LEMMA StepKeepsDescriptor ==
    ASSUME TypeOK, [Next]_vars, NEW p \in Procs, up[p], up'[p], fd[p] \in Files
    PROVE  fd'[p] \in Files
  <1> USE DEF TypeOK, shared
  <1>1. CASE UNCHANGED fd
    BY <1>1
  <1>2. ASSUME NEW t \in Threads, Dup2(t) PROVE fd'[p] \in Files
    BY <1>2, ThreadsAssumption DEF Dup2, Checks
  <1>3. ASSUME NEW q \in Procs, Construct(q) \/ Crash(q) PROVE fd'[p] \in Files
    <2>1. q # p
      BY <1>3 DEF Construct, Crash
    <2>2. QED BY <1>3, <2>1 DEF Construct, Crash
  <1>4. ASSUME NEW t \in Threads, ThreadStep(t), ~Dup2(t) PROVE UNCHANGED fd
    BY <1>4 DEF ThreadStep, StartLog, Gate, FstatFd, StatPath, PickName, StatAgain,
                Rename, OpenLog, Write
  <1>5. CASE \/ Tick \/ ClockStepsBack \/ TogglePermission
             \/ (\E n \in Names : OperatorTakes(n)) \/ UNCHANGED vars
    BY <1>5 DEF Tick, ClockStepsBack, TogglePermission, OperatorTakes, vars
  <1>6. QED BY <1>1, <1>2, <1>3, <1>4, <1>5 DEF Next

(* Whatever fails in reopen(), fd_ stays on a log file once it is on one. *)
THEOREM DescriptorKept == Spec => DescriptorStaysValid
  <1>1. TypeOK /\ [Next]_vars =>
          [\A p \in Procs : up[p] /\ up'[p] /\ fd[p] \in Files => fd'[p] \in Files]_vars
    BY StepKeepsDescriptor
  <1>2. QED BY TypeCorrect, <1>1, PTL DEF Spec, DescriptorStaysValid

-----------------------------------------------------------------------------
(* Only full files are moved aside.  The double check under splitMutex_ matters
   here: a thread that renames still finds at the path the file it saw full,
   even when stat() of the new name cannot be trusted. *)

SingleProcess == \A p, q \in Procs : p = q

(* The file a thread looks a name for is full, and stays at the path while the
   thread renames it. *)
FullInv(t) ==
    /\ pc[t] \in {"pick", "split", "rename"} =>
         chk[t].stFile \in 1..nfiles /\ size[chk[t].stFile] = SplitSize
    /\ pc[t] = "rename" => splitMutex[ProcOf[t]] = t /\ dir[Path] = chk[t].stFile

RInv ==
    /\ TypeOK
    /\ taken = {}
    /\ \A n \in Names : dir[n] <= nfiles
    /\ RotatedWasFull
    /\ \A t \in Threads : FullInv(t)

LEMMA InitRInv == Init => RInv
  BY InitType DEF Init, RInv, FullInv, RotatedWasFull, None

LEMMA RInvHoldsMutex == RInv => RenameHoldsMutex
  BY DEF RInv, FullInv, RenameHoldsMutex

LEMMA NothingFull ==
    ASSUME NEW t \in Threads, pc'[t] \notin {"pick", "split", "rename"}
    PROVE  FullInv(t)'
  BY DEF FullInv

(* Lines are only appended to a file. *)
LEMMA FullStaysFull ==
    ASSUME TypeOK, [Next]_vars, NEW i \in Files, size[i] = SplitSize
    PROVE  size'[i] = SplitSize
  <1> USE DEF TypeOK, world
  <1>1. ASSUME NEW t \in Threads, Write(t) PROVE size'[i] = SplitSize
    BY <1>1, SizesAssumption DEF Write
  <1>2. ASSUME NEW t \in Threads, ThreadStep(t), ~Write(t) PROVE UNCHANGED size
    BY <1>2 DEF ThreadStep, StartLog, Gate, FstatFd, StatPath, PickName, StatAgain,
                Rename, OpenLog, Dup2
  <1>3. CASE ~\E t \in Threads : ThreadStep(t)
    BY <1>3 DEF Next, Tick, ClockStepsBack, TogglePermission, OperatorTakes, Construct,
                Crash, vars
  <1>4. QED BY <1>1, <1>2, <1>3

(* A thread that neither moves nor sees the path change keeps what it knows. *)
LEMMA UndisturbedFull ==
    ASSUME RInv, [Next]_vars, NEW t \in Threads, Undisturbed(t),
           nfiles' \in Nat, nfiles' >= nfiles,
           pc[t] = "rename" => dir'[Path] = dir[Path]
    PROVE  FullInv(t)'
  <1>1. nfiles \in Nat /\ nfiles <= MaxFiles
    BY SizesAssumption DEF RInv, TypeOK, Files
  <1>2. CASE pc[t] \in {"pick", "split", "rename"}
    <2>1. chk[t].stFile \in 1..nfiles /\ size[chk[t].stFile] = SplitSize
      BY <1>2 DEF RInv, FullInv
    <2>2. chk[t].stFile \in Files /\ chk[t].stFile \in 1..nfiles'
      BY <1>1, <2>1, SizesAssumption DEF Files
    <2>3. size'[chk[t].stFile] = SplitSize
      BY <2>1, <2>2, FullStaysFull DEF RInv
    <2>4. QED BY <1>2, <2>2, <2>3 DEF RInv, FullInv, Undisturbed
  <1>3. CASE pc[t] \notin {"pick", "split", "rename"}
    BY <1>3, NothingFull DEF Undisturbed
  <1>4. QED BY <1>2, <1>3

(* A step that moves no name to another file, but may create the log. *)
LEMMA NothingMoved ==
    ASSUME RInv, [Next]_vars, TypeOK',
           (dir' = dir /\ nfiles' = nfiles) \/ \E i \in Files : OpenLogFile(i)
    PROVE  /\ \A n \in Names : dir'[n] <= nfiles'
           /\ RotatedWasFull'
           /\ nfiles' \in Nat /\ nfiles' >= nfiles
           /\ dir[Path] # None => dir'[Path] = dir[Path]
  <1> USE SizesAssumption, PathIsName DEF RInv, TypeOK, None
  <1>0. nfiles \in Nat /\ nfiles' \in Nat
    BY DEF Files
  <1>1. /\ nfiles' >= nfiles
        /\ dir[Path] # None => dir'[Path] = dir[Path]
        /\ \A n \in Names \ {Path} : dir'[n] = dir[n]
        /\ dir'[Path] <= nfiles'
    <2>1. CASE dir' = dir /\ nfiles' = nfiles
      BY <1>0, <2>1
    <2>2. CASE \E i \in Files : OpenLogFile(i)
      BY <1>0, <2>2 DEF OpenLogFile
    <2>3. QED BY <2>1, <2>2
  <1>2. ASSUME NEW n \in Names PROVE dir'[n] <= nfiles'
    <2>1. dir[n] \in Int /\ dir[n] <= nfiles
      BY DEF Files
    <2>2. QED BY <1>0, <1>1, <2>1
  <1>3. RotatedWasFull'
    <2> SUFFICES ASSUME NEW n \in Names \ {Path}, dir'[n] # None
                 PROVE  size'[dir'[n]] = SplitSize
      BY DEF RotatedWasFull
    <2>1. dir'[n] = dir[n] /\ dir[n] \in Files /\ size[dir[n]] = SplitSize
      BY <1>1 DEF RotatedWasFull
    <2>2. QED BY <2>1, FullStaysFull
  <1>4. QED BY <1>0, <1>1, <1>2, <1>3

(* What a thread itself learns of the full file. *)
LEMMA SearchKnowsFull ==
    ASSUME RInv, NEW t \in Threads, StatPath(t) \/ PickName(t) \/ StatAgain(t)
    PROVE  FullInv(t)'
  <1> USE DEF Goto, LeaveCheck, world, RInv, TypeOK
  <1>1. CASE StatPath(t) /\ pc'[t] = "pick"
    <2>1. /\ chk'[t].stFile = dir[Path] /\ dir[Path] # None
          /\ size[dir[Path]] >= SplitSize
          /\ nfiles' = nfiles /\ size' = size
      BY <1>1 DEF StatPath, Checks
    <2>2. dir[Path] \in Files /\ dir[Path] \in 1..nfiles
      BY <2>1, PathIsName DEF None, Files
    <2>3. size[dir[Path]] = SplitSize
      BY <2>1, <2>2, SizesAssumption
    <2>4. QED BY <1>1, <2>1, <2>2, <2>3 DEF FullInv
  <1>2. CASE PickName(t) /\ pc'[t] \in {"pick", "split"}
    <2>1. /\ pc[t] = "pick" /\ chk'[t].stFile = chk[t].stFile
          /\ nfiles' = nfiles /\ size' = size
      BY <1>2 DEF PickName, Checks
    <2>2. QED BY <1>2, <2>1 DEF FullInv
  <1>3. CASE StatAgain(t) /\ pc'[t] = "rename"
    <2>1. /\ pc[t] = "split" /\ chk'[t] = chk[t] /\ dir'[Path] = chk[t].stFile
          /\ splitMutex'[ProcOf[t]] = t
          /\ nfiles' = nfiles /\ size' = size
      BY <1>3, ThreadsAssumption DEF StatAgain
    <2>2. QED BY <1>3, <2>1 DEF FullInv
  <1>4. CASE pc'[t] \notin {"pick", "split", "rename"}
    BY <1>4, NothingFull
  <1>5. QED BY <1>1, <1>2, <1>3, <1>4 DEF StatPath, PickName, StatAgain

(* Either thread t learns something of the full file, or it leaves the search
   for a new name or is not in it, or it does not notice the step. *)
LEMMA WhoLearns ==
    ASSUME TypeOK, RenameHoldsMutex, [Next]_vars, NEW t \in Threads
    PROVE  \/ StatPath(t) \/ PickName(t) \/ StatAgain(t)
           \/ Undisturbed(t)
           \/ pc'[t] \notin {"pick", "split", "rename"}
  <1>1. CASE \/ Tick \/ ClockStepsBack \/ TogglePermission
             \/ (\E n \in Names : OperatorTakes(n)) \/ UNCHANGED vars
    BY <1>1 DEF Tick, ClockStepsBack, TogglePermission, OperatorTakes, vars, shared, local,
                Undisturbed
  <1>2. ASSUME NEW p \in Procs, Construct(p) \/ Crash(p)
        PROVE  Undisturbed(t) \/ pc'[t] \notin {"pick", "split", "rename"}
    BY <1>2, ThreadsAssumption DEF Construct, Crash, Undisturbed, TypeOK
  <1>3. ASSUME NEW u \in Threads, u # t, ThreadStep(u) PROVE Undisturbed(t)
    BY <1>3, OthersUndisturbed
  <1>4. CASE \/ StartLog(t) \/ Gate(t) \/ FstatFd(t) \/ Rename(t) \/ OpenLog(t)
             \/ Dup2(t) \/ Write(t)
    BY <1>4 DEF StartLog, Gate, FstatFd, Rename, OpenLog, Dup2, Write, Goto, LeaveCheck, TypeOK
  <1>5. QED BY <1>1, <1>2, <1>3, <1>4 DEF Next, ThreadStep

(* One process, no operator: a step preserves RInv. *)
LEMMA NextRInv ==
    ASSUME SingleProcess, MaxTaken = 0, RInv, [Next]_vars
    PROVE  RInv'
  <1>0. TypeOK' /\ RenameHoldsMutex
    BY NextType, RInvHoldsMutex DEF RInv
  <1>1. taken' = {} /\ ~\E n \in Names : OperatorTakes(n)
    <2>1. ASSUME NEW n \in Names PROVE ~OperatorTakes(n)
      BY FS_EmptySet DEF OperatorTakes, RInv
    <2>2. taken' = taken
      BY <2>1 DEF Next, Tick, ClockStepsBack, TogglePermission, Construct, Crash, ThreadStep,
                  StartLog, Gate, FstatFd, StatPath, PickName, StatAgain, Rename, OpenLog,
                  Dup2, Write, vars, world
    <2>3. QED BY <2>1, <2>2 DEF RInv
  <1>2. ASSUME NEW u \in Threads, Rename(u) PROVE RInv'
    <2>0. /\ pc[u] = "rename" /\ pc'[u] = "open" /\ ThreadStep(u)
          /\ dir[Path] = chk[u].stFile /\ size[dir[Path]] = SplitSize
          /\ nfiles' = nfiles /\ nfiles \in Nat /\ size' = size
      BY <1>2, SizesAssumption
      DEF Rename, Goto, ThreadStep, RInv, TypeOK, FullInv, Files
    <2>1. /\ \A n \in Names : dir'[n] <= nfiles'
          /\ RotatedWasFull'
      <3>1. CASE dir' = dir
        BY <2>0, <3>1 DEF RInv, RotatedWasFull
      <3>2. CASE /\ Target(u) # Path
                 /\ dir' = [dir EXCEPT ![Target(u)] = dir[Path], ![Path] = None]
        BY <2>0, <3>2, PathIsName, TargetIsName DEF RInv, TypeOK, RotatedWasFull, None
      <3>3. QED BY <1>2, <3>1, <3>2 DEF Rename
    <2>2. ASSUME NEW t \in Threads PROVE FullInv(t)'
      <3>1. CASE t = u
        BY <2>0, <3>1, NothingFull
      <3>2. CASE t # u
        <4>1. Undisturbed(t)
          BY <1>0, <2>0, <3>2, OthersUndisturbed DEF RInv
        <4>2. pc[t] # "rename"
          BY <1>0, <2>0, <3>2, ThreadsAssumption DEF RenameHoldsMutex, SingleProcess
        <4>3. QED BY <2>0, <4>1, <4>2, UndisturbedFull
      <3>3. QED BY <3>1, <3>2
    <2>3. QED BY <1>0, <1>1, <2>1, <2>2 DEF RInv
  <1>3. CASE ~\E u \in Threads : Rename(u)
    <2>1. (dir' = dir /\ nfiles' = nfiles) \/ \E i \in Files : OpenLogFile(i)
      BY <1>1, <1>3 DEF Next, Tick, ClockStepsBack, TogglePermission, Construct, Crash,
           ThreadStep, StartLog, Gate, FstatFd, StatPath, PickName, StatAgain, OpenLog,
           OpenFails, Dup2, Write, vars, world
    <2>2. /\ \A n \in Names : dir'[n] <= nfiles'
          /\ RotatedWasFull'
          /\ nfiles' \in Nat /\ nfiles' >= nfiles
          /\ dir[Path] # None => dir'[Path] = dir[Path]
      BY <1>0, <2>1, NothingMoved
    <2>3. ASSUME NEW t \in Threads PROVE FullInv(t)'
      <3>1. pc[t] = "rename" => dir[Path] # None
        BY DEF RInv, FullInv, None
      <3>2. CASE Undisturbed(t)
        BY <2>2, <3>1, <3>2, UndisturbedFull
      <3>3. QED BY <1>0, <3>2, NothingFull, SearchKnowsFull, WhoLearns DEF RInv
    <2>4. QED BY <1>0, <1>1, <2>2, <2>3 DEF RInv
  <1>4. QED BY <1>2, <1>3

(* With one process and no operator only full files are moved aside, even when
   stat() fails, the clock steps back, permissions change and processes crash. *)
THEOREM OnlyFullFilesRotated ==
    ASSUME SingleProcess, MaxTaken = 0
    PROVE  Spec => []RotatedWasFull
  <1>1. RInv => RotatedWasFull
    BY DEF RInv
  <1>2. RInv /\ [Next]_vars => RInv'
    BY NextRInv
  <1>3. QED BY InitRInv, <1>1, <1>2, PTL DEF Spec

-----------------------------------------------------------------------------
(* The log is a store: beside IInv, no file has two names, and descriptors refer to
   files that were created. *)

OneNameEach == \A m, n \in Names : dir[m] = dir[n] /\ dir[m] # None => m = n

Opened ==
    /\ \A p \in Procs : fd[p] <= nfiles
    /\ \A t \in Threads : chk[t].newfd <= nfiles

SInv == IInv /\ OneNameEach /\ Opened

LEMMA OpenKeepsNames ==
    ASSUME SInv, NEW i \in Files, OpenLogFile(i)
    PROVE  OneNameEach' /\ i <= nfiles' /\ nfiles <= nfiles' /\ nfiles \in Nat /\ nfiles' \in Nat
  <1>1. /\ dir \in [Names -> {None} \cup Files] /\ Path \in Names
        /\ nfiles \in Nat /\ i \in Nat /\ \A n \in Names : dir[n] <= nfiles
    BY PathIsName DEF SInv, IInv, TypeOK, KnownFiles, Files, None
  <1>2. CASE dir[Path] # None
    <2>1. i = dir[Path] /\ dir' = dir /\ nfiles' = nfiles
      BY <1>2 DEF OpenLogFile
    <2>2. QED BY <1>1, <2>1 DEF SInv, OneNameEach
  <1>3. CASE dir[Path] = None
    <2>1. i = nfiles + 1 /\ nfiles' = i /\ dir' = [dir EXCEPT ![Path] = i]
      BY <1>3 DEF OpenLogFile
    <2>2. \A n \in Names : dir[n] # i
      BY <1>1, <2>1
    <2>3. QED BY <1>1, <2>1, <2>2 DEF SInv, OneNameEach
  <1>4. QED BY <1>2, <1>3

LEMMA InitSInv == Init => SInv
  BY InitIInv DEF Init, SInv, OneNameEach, Opened, NoCheck, None

LEMMA LocalStepOpened ==
    ASSUME SInv, NEW t \in Threads, chk' \in [Threads -> Checks], nfiles' = nfiles,
           \/ StartLog(t) \/ Gate(t) \/ FstatFd(t) \/ StatPath(t) \/ PickName(t)
           \/ StatAgain(t) \/ Rename(t) \/ Dup2(t) \/ Write(t)
    PROVE  \A u \in Threads : chk'[u].newfd <= nfiles'
  <1>1. chk \in [Threads -> Checks] /\ nfiles \in Nat /\ \A u \in Threads : chk[u].newfd <= nfiles
    BY DEF SInv, IInv, TypeOK, Opened, Files
  <1>2. \A u \in Threads : chk'[u].newfd \in {chk[u].newfd, None}
    BY <1>1 DEF StartLog, Gate, FstatFd, StatPath, PickName, StatAgain, Rename, Dup2, Write,
                LeaveCheck, NoCheck, local, Checks
  <1>3. QED BY <1>1, <1>2 DEF None

LEMMA NextSInv ==
    ASSUME NamesDoNotClash, "stat" \notin Faults, SInv, [Next]_vars
    PROVE  SInv'
  <1>0. IInv' /\ IInv /\ TypeOK /\ TypeOK' /\ nfiles \in Nat /\ nfiles' \in Nat
    <2>1. IInv /\ IInv'
      BY NextIInv DEF SInv
    <2>2. TypeOK /\ TypeOK'
      BY <2>1 DEF IInv
    <2>3. nfiles \in {0} \cup Files /\ nfiles' \in {0} \cup Files'
      BY <2>2 DEF TypeOK, Files
    <2>4. QED BY <2>1, <2>2, <2>3 DEF Files
  <1> SUFFICES OneNameEach' /\ Opened'
    BY <1>0 DEF SInv
  <1>1. CASE Tick \/ ClockStepsBack \/ TogglePermission \/ UNCHANGED vars
    BY <1>1 DEF Tick, ClockStepsBack, TogglePermission, vars, world, shared, local, SInv,
                OneNameEach, Opened
  <1>2. ASSUME NEW n \in Names, OperatorTakes(n) PROVE OneNameEach' /\ Opened'
    BY <1>0, <1>2 DEF OperatorTakes, SInv, OneNameEach, Opened, TypeOK, shared, local, None
  <1>3. ASSUME NEW p \in Procs, Construct(p) PROVE OneNameEach' /\ Opened'
    <2>1. CASE \E i \in Files : OpenLogFile(i) /\ fd' = [fd EXCEPT ![p] = i]
      <3>1. PICK i \in Files : OpenLogFile(i) /\ fd' = [fd EXCEPT ![p] = i]
        BY <2>1
      <3>2. OneNameEach' /\ i <= nfiles' /\ nfiles <= nfiles'
        BY <3>1, OpenKeepsNames
      <3>3. fd \in [Procs -> {StdErr, None} \cup Files] /\ chk \in [Threads -> Checks] /\ chk' = chk
        BY <1>0, <1>3 DEF TypeOK, Construct
      <3>4. \A q \in Procs : fd[q] \in Int /\ fd[q] <= nfiles
        BY <3>3 DEF SInv, Opened, StdErr, None, Files
      <3>5. \A u \in Threads : chk[u].newfd \in Int /\ chk[u].newfd <= nfiles
        BY <3>3 DEF SInv, Opened, Checks, None, Files
      <3>6. \A q \in Procs : fd'[q] <= nfiles'
        BY <1>0, <3>1, <3>2, <3>3, <3>4 DEF Files
      <3>7. \A u \in Threads : chk'[u].newfd <= nfiles'
        BY <1>0, <3>2, <3>3, <3>5
      <3>8. QED BY <3>2, <3>6, <3>7 DEF Opened
    <2>2. CASE OpenFails /\ fd' \in {[fd EXCEPT ![p] = StdErr], [fd EXCEPT ![p] = None]}
      <3>1. dir' = dir /\ nfiles' = nfiles /\ chk' = chk
        BY <1>3, <2>2 DEF OpenFails, Construct
      <3>2. \A q \in Procs : fd'[q] \in {fd[q], StdErr, None}
        BY <1>0, <2>2 DEF TypeOK
      <3>3. QED BY <1>0, <3>1, <3>2 DEF SInv, OneNameEach, Opened, StdErr, None
    <2>3. QED BY <1>3, <2>1, <2>2 DEF Construct
  <1>4. ASSUME NEW p \in Procs, Crash(p) PROVE OneNameEach' /\ Opened'
    <2>1. dir' = dir /\ nfiles' = nfiles
      BY <1>4 DEF Crash, Inject
    <2>2. /\ \A q \in Procs : fd'[q] \in {fd[q], None}
          /\ \A u \in Threads : chk'[u].newfd \in {chk[u].newfd, None}
      BY <1>0, <1>4 DEF Crash, TypeOK, NoCheck
    <2>3. QED BY <1>0, <2>1, <2>2 DEF SInv, OneNameEach, Opened, None
  <1>5. ASSUME NEW t \in Threads, Rename(t) PROVE OneNameEach' /\ Opened'
    <2>1. nfiles' = nfiles /\ fd' = fd
      BY <1>5 DEF Rename, shared
    <2>2. OneNameEach'
      <3>1. Target(t) \in Names /\ Path \in Names /\ dir \in [Names -> {None} \cup Files]
        BY <1>0, TargetIsName, PathIsName DEF TypeOK
      <3>2. QED BY <1>5, <3>1 DEF Rename, SInv, OneNameEach
    <2>3. QED BY <1>0, <1>5, <2>1, <2>2, LocalStepOpened DEF SInv, Opened, TypeOK
  <1>6. ASSUME NEW t \in Threads, OpenLog(t) PROVE OneNameEach' /\ Opened'
    <2>1. fd' = fd /\ chk \in [Threads -> Checks] /\ fd \in [Procs -> {StdErr, None} \cup Files]
      BY <1>0, <1>6 DEF OpenLog, shared, TypeOK
    <2>2. /\ \A q \in Procs : fd[q] \in Int /\ fd[q] <= nfiles
          /\ \A u \in Threads : chk[u].newfd \in Int /\ chk[u].newfd <= nfiles
      BY <2>1 DEF SInv, Opened, StdErr, None, Files, Checks
    <2>3. CASE \E i \in Files : OpenLogFile(i) /\ chk' = [chk EXCEPT ![t].newfd = i]
      <3>1. PICK i \in Files : OpenLogFile(i) /\ chk' = [chk EXCEPT ![t].newfd = i]
        BY <2>3
      <3>2. OneNameEach' /\ i <= nfiles' /\ nfiles <= nfiles'
        BY <3>1, OpenKeepsNames
      <3>3. \A u \in Threads : chk'[u].newfd \in {chk[u].newfd, i}
        BY <2>1, <3>1 DEF Checks
      <3>4. \A u \in Threads : chk'[u].newfd <= nfiles'
        BY <1>0, <2>2, <3>2, <3>3 DEF Files
      <3>5. \A q \in Procs : fd'[q] <= nfiles'
        BY <1>0, <2>1, <2>2, <3>2
      <3>6. QED BY <3>2, <3>4, <3>5 DEF Opened
    <2>4. CASE OpenFails /\ chk' = [chk EXCEPT ![t].newfd = None]
      <3>1. \A u \in Threads : chk'[u].newfd \in {chk[u].newfd, None}
        BY <2>1, <2>4 DEF Checks
      <3>2. QED BY <1>0, <2>1, <2>4, <3>1 DEF OpenFails, SInv, OneNameEach, Opened, None
    <2>5. QED BY <1>6, <2>3, <2>4 DEF OpenLog
  <1>7. ASSUME NEW t \in Threads, Dup2(t) PROVE OneNameEach' /\ Opened'
    <2>1. dir' = dir /\ nfiles' = nfiles
      BY <1>7 DEF Dup2, world
    <2>2. \A q \in Procs : fd'[q] \in {fd[q], chk[t].newfd}
      BY <1>0, <1>7 DEF Dup2, TypeOK
    <2>3. \A u \in Threads : chk'[u].newfd <= nfiles'
      BY <1>0, <1>7, <2>1, LocalStepOpened DEF TypeOK
    <2>4. QED BY <2>1, <2>2, <2>3 DEF SInv, OneNameEach, Opened
  <1>8. ASSUME NEW t \in Threads,
               \/ StartLog(t) \/ Gate(t) \/ FstatFd(t) \/ StatPath(t) \/ PickName(t)
               \/ StatAgain(t) \/ Write(t)
        PROVE  OneNameEach' /\ Opened'
    <2>1. dir' = dir /\ nfiles' = nfiles /\ fd' = fd
      BY <1>8 DEF StartLog, Gate, FstatFd, StatPath, PickName, StatAgain, Write, world, shared
    <2>2. \A u \in Threads : chk'[u].newfd <= nfiles'
      BY <1>0, <1>8, <2>1, LocalStepOpened DEF TypeOK
    <2>3. QED BY <2>1, <2>2 DEF SInv, OneNameEach, Opened
  <1>9. QED BY <1>1, <1>2, <1>3, <1>4, <1>5, <1>6, <1>7, <1>8 DEF Next, ThreadStep

LEMMA StoreInit == Init => Store!Init
  BY PathIsName DEF Init, Store!Init, Archived

(* A step that leaves the files, their names and their lines. *)
StoreKept == UNCHANGED <<nfiles, dir, taken, size>>

LEMMA KeepsStore ==
    ASSUME StoreKept
    PROVE  UNCHANGED Store!storeVars
  BY DEF StoreKept, Store!storeVars, Archived

LEMMA OpenStores ==
    ASSUME SInv, NEW i \in Files, OpenLogFile(i), taken' = taken, size' = size
    PROVE  [Store!Next]_Store!storeVars
  <1>1. /\ dir \in [Names -> {None} \cup Files] /\ Path \in Names /\ nfiles \in Nat
    BY PathIsName DEF SInv, IInv, TypeOK, Files
  <1>2. CASE dir[Path] # None
    BY <1>2, KeepsStore DEF OpenLogFile, StoreKept
  <1>3. CASE dir[Path] = None
    <2>1. /\ i = nfiles + 1 /\ nfiles' = nfiles + 1 /\ dir' = [dir EXCEPT ![Path] = i]
          /\ nfiles + 1 \in Files
      BY <1>1, <1>3 DEF OpenLogFile, Files
    <2>2. \A n \in Names \ {Path} : dir'[n] = dir[n]
      BY <1>1, <2>1
    <2>3. Archived' = Archived
      BY <2>2 DEF Archived
    <2>4. dir'[Path] = nfiles + 1
      BY <1>1, <2>1
    <2>5. Store!Create
      BY <1>3, <2>1, <2>3, <2>4 DEF Store!Create
    <2>6. QED BY <2>5 DEF Store!Next
  <1>4. QED BY <1>2, <1>3

LEMMA RemoveStores ==
    ASSUME SInv, NEW n \in Names, OperatorTakes(n)
    PROVE  [Store!Next]_Store!storeVars
  <1>1. dir \in [Names -> {None} \cup Files] /\ Path \in Names
    BY PathIsName DEF SInv, IInv, TypeOK
  <1>2. /\ dir[n] # None /\ taken' = taken \cup {dir[n]} /\ dir' = [dir EXCEPT ![n] = None]
        /\ UNCHANGED <<nfiles, size>>
    BY DEF OperatorTakes
  <1>3. CASE n = Path
    <2>1. dir'[Path] = None /\ \A m \in Names \ {Path} : dir'[m] = dir[m]
      BY <1>1, <1>2, <1>3
    <2>2. Archived' = Archived
      BY <2>1 DEF Archived
    <2>3. QED BY <1>2, <1>3, <2>1, <2>2 DEF Store!Next, Store!Remove
  <1>4. CASE n # Path
    <2>1. dir'[Path] = dir[Path] /\ dir[n] \in Archived
      BY <1>1, <1>2, <1>4 DEF Archived
    <2>2. \A m \in Names : dir'[m] = IF m = n THEN None ELSE dir[m]
      BY <1>1, <1>2
    <2>3. \A m \in Names : m # n => dir[m] # dir[n]
      BY <1>2 DEF SInv, OneNameEach
    <2>4. Archived' = Archived \ {dir[n]}
      BY <2>2, <2>3 DEF Archived
    <2>5. Store!Remove
      BY <1>2, <2>1, <2>4 DEF Store!Remove
    <2>6. QED BY <2>5 DEF Store!Next
  <1>5. QED BY <1>3, <1>4

(* rename() archives the current file: its new name is free, so that no other file
   leaves the store. *)
LEMMA RenameStores ==
    ASSUME SInv, NEW t \in Threads, Rename(t)
    PROVE  [Store!Next]_Store!storeVars
  <1>1. UNCHANGED <<nfiles, taken, size>>
    BY DEF Rename
  <1>2. CASE dir' = dir
    BY <1>1, <1>2, KeepsStore DEF StoreKept
  <1>3. CASE /\ dir[Path] # None /\ Target(t) # Path
             /\ dir' = [dir EXCEPT ![Target(t)] = dir[Path], ![Path] = None]
    <2>1. dir \in [Names -> {None} \cup Files] /\ Path \in Names /\ Target(t) \in Names
      BY PathIsName, TargetIsName DEF SInv, IInv, TypeOK
    <2>2. dir[Target(t)] = None
      BY DEF SInv, IInv, RenameIsSafe, Rename, Goto
    <2>3. /\ dir'[Path] = None /\ dir'[Target(t)] = dir[Path]
          /\ \A m \in Names \ {Path, Target(t)} : dir'[m] = dir[m]
      BY <1>3, <2>1
    <2>4. Archived' = Archived \cup {dir[Path]}
      BY <1>3, <2>1, <2>2, <2>3 DEF Archived
    <2>5. Store!Archive
      BY <1>1, <1>3, <2>3, <2>4 DEF Store!Archive
    <2>6. QED BY <2>5 DEF Store!Next
  <1>4. QED BY <1>2, <1>3 DEF Rename

LEMMA WriteStores ==
    ASSUME SInv, NEW t \in Threads, Write(t)
    PROVE  [Store!Next]_Store!storeVars
  <1>1. PICK f \in {StdErr, None} \cup Files : f = fd[ProcOf[t]] /\ f <= nfiles
    BY ThreadsAssumption DEF SInv, IInv, TypeOK, Opened
  <1>2. /\ UNCHANGED <<dir, nfiles, taken>>
        /\ size' = [i \in Files |-> IF i = f /\ size[i] < SplitSize THEN size[i] + 1 ELSE size[i]]
        /\ size \in [Files -> 0 .. SplitSize]
    BY <1>1 DEF Write, SInv, IInv, TypeOK
  <1>3. Archived' = Archived
    BY <1>2 DEF Archived
  <1>4. CASE f \in Files /\ size[f] < SplitSize
    <2>0. f \in 1 .. nfiles
      <3>1. nfiles \in Int /\ f \in Int /\ f >= 1
        BY <1>4 DEF Files, SInv, IInv, TypeOK
      <3>2. QED BY <1>1, <3>1
    <2>1. size' = [size EXCEPT ![f] = @ + 1] /\ f \in 1 .. nfiles
      <3>1. \A i \in Files : size'[i] = [size EXCEPT ![f] = @ + 1][i]
        BY <1>2, <1>4
      <3>2. QED BY <1>2, <2>0, <3>1
    <2>2. Store!WriteLine
      BY <1>2, <1>3, <2>1 DEF Store!WriteLine
    <2>3. QED BY <2>2 DEF Store!Next
  <1>5. CASE ~(f \in Files /\ size[f] < SplitSize)
    <2>1. size' = size
      BY <1>2, <1>5
    <2>2. QED BY <1>2, <2>1, KeepsStore DEF StoreKept
  <1>6. QED BY <1>4, <1>5

LEMMA StoreStep ==
    ASSUME SInv, [Next]_vars
    PROVE  [Store!Next]_Store!storeVars
  <1>1. CASE Tick \/ ClockStepsBack \/ TogglePermission \/ UNCHANGED vars
    <2>1. StoreKept
      BY <1>1 DEF Tick, ClockStepsBack, TogglePermission, vars, world, StoreKept
    <2>2. QED BY <2>1, KeepsStore
  <1>2. ASSUME NEW p \in Procs, Construct(p) PROVE [Store!Next]_Store!storeVars
    <2>1. CASE \E i \in Files : OpenLogFile(i)
      BY <1>2, <2>1, OpenStores DEF Construct
    <2>2. CASE OpenFails
      BY <1>2, <2>2, KeepsStore DEF Construct, OpenFails, StoreKept
    <2>3. QED BY <1>2, <2>1, <2>2 DEF Construct
  <1>3. ASSUME NEW p \in Procs, Crash(p) PROVE [Store!Next]_Store!storeVars
    BY <1>3, KeepsStore DEF Crash, Inject, StoreKept
  <1>4. ASSUME NEW t \in Threads, OpenLog(t) PROVE [Store!Next]_Store!storeVars
    <2>1. CASE \E i \in Files : OpenLogFile(i)
      BY <1>4, <2>1, OpenStores DEF OpenLog
    <2>2. CASE OpenFails
      BY <1>4, <2>2, KeepsStore DEF OpenLog, OpenFails, StoreKept
    <2>3. QED BY <1>4, <2>1, <2>2 DEF OpenLog
  <1>5. ASSUME NEW t \in Threads,
               \/ StartLog(t) \/ Gate(t) \/ FstatFd(t) \/ StatPath(t) \/ PickName(t)
               \/ StatAgain(t) \/ Dup2(t)
        PROVE  [Store!Next]_Store!storeVars
    <2>1. StoreKept
      BY <1>5 DEF StartLog, Gate, FstatFd, StatPath, PickName, StatAgain, Dup2, world, StoreKept
    <2>2. QED BY <2>1, KeepsStore
  <1>6. QED
    BY <1>1, <1>2, <1>3, <1>4, <1>5, RemoveStores, RenameStores, WriteStores
    DEF Next, ThreadStep

(* Whatever the interleaving, the crashes, the permissions and the operator do, all
   processes together keep a log store, under the conditions of NeverLost. *)
THEOREM KeepsLogStore ==
    ASSUME NamesDoNotClash, "stat" \notin Faults
    PROVE  Spec => StoreSpec
  <1>1. SInv /\ [Next]_vars => SInv'
    BY NextSInv
  <1>2. SInv /\ [Next]_vars => [Store!Next]_Store!storeVars
    BY StoreStep
  <1>3. QED BY InitSInv, StoreInit, <1>1, <1>2, PTL DEF Spec, StoreSpec, Store!Spec
===============================================================================
