------------------------- MODULE LoggerRegistryProofs --------------------------
(***************************************************************************)
(* What LoggerRegistry guarantees for any configuration, any number of     *)
(* threads and any sequence of calls of init().                            *)
(***************************************************************************)
EXTENDS LoggerRegistry, TLAPS

-----------------------------------------------------------------------------
(* Types. *)

LEMMA Bounds == MaxAppenders \in Nat /\ MaxInits \in Nat /\ MaxLines \in Nat
  BY BoundsAssumption

LEMMA InitType == Init => TypeOK
  <1>1. <<>> \in Seq(Entries)
    OBVIOUS
  <1> SUFFICES ASSUME Init PROVE TypeOK
    OBVIOUS
  <1>2. /\ nappenders = 0 /\ inits = 0 /\ handlers = 0
        /\ nappenders \in 0..MaxAppenders /\ inits \in 0..MaxInits /\ handlers \in 0..inits
    BY Bounds DEF Init
  <1>3. logMap \in [Names -> 0..nappenders] /\ appenderMap \in [Paths -> 0..nappenders]
    BY <1>2 DEF Init, None
  <1>4. queued \in [Appenders -> 0..MaxLines]
    BY Bounds DEF Init
  <1>5. QED BY <1>1, <1>2, <1>3, <1>4 DEF Init, TypeOK

LEMMA AppenderForType ==
    ASSUME TypeOK, NEW path \in Paths, NEW a \in Appenders, AppenderFor(path, a)
    PROVE  /\ nappenders' \in 0..MaxAppenders /\ nappenders <= nappenders'
           /\ a \in 1..nappenders'
           /\ appenderMap' \in [Paths -> 0..nappenders']
           /\ file' \in [Appenders -> Paths \cup {NoFile}]
           /\ live' \subseteq 1..nappenders' /\ running' \subseteq 1..nappenders'
  <1> USE Bounds DEF TypeOK, Appenders, None
  <1>0. nappenders \in Nat
    OBVIOUS
  <1>1. CASE appenderMap[path] # None
    <2>1. /\ a = appenderMap[path] /\ nappenders' = nappenders
          /\ appenderMap' = appenderMap /\ file' = file
          /\ live' = live /\ running' = running
      BY <1>1 DEF AppenderFor, appenders
    <2>2. a \in 0..nappenders /\ a # 0
      BY <1>1, <2>1
    <2>3. QED BY <1>0, <2>1, <2>2
  <1>2. CASE appenderMap[path] = None
    <2>1. /\ a = nappenders + 1 /\ nappenders' = a
          /\ appenderMap' = [appenderMap EXCEPT ![path] = a]
          /\ file' = [file EXCEPT ![a] = path]
          /\ live' = live \cup {a} /\ running' \subseteq running \cup {a}
      BY <1>2 DEF AppenderFor
    <2>2. a \in 1..nappenders' /\ nappenders' \in 0..MaxAppenders /\ nappenders <= nappenders'
      BY <1>0, <2>1
    <2>3. 0..nappenders \subseteq 0..nappenders' /\ 1..nappenders \subseteq 1..nappenders'
      BY <1>0, <2>1
    <2>4. appenderMap' \in [Paths -> 0..nappenders']
      BY <2>1, <2>2, <2>3
    <2>5. file' \in [Appenders -> Paths \cup {NoFile}]
      BY <2>1
    <2>6. QED BY <2>1, <2>2, <2>3, <2>4, <2>5
  <1>3. QED BY <1>1, <1>2

LEMMA NextType == TypeOK /\ [Next]_vars => TypeOK'
  <1> SUFFICES ASSUME TypeOK, [Next]_vars PROVE TypeOK'
    OBVIOUS
  <1> USE Bounds, NamesAssumption
      DEF TypeOK, Appenders, None, process, registry, appenders
  <1>1. ASSUME NEW conf \in Confs, NEW isAsync \in BOOLEAN, CallInit(conf, isAsync)
        PROVE TypeOK'
    <2>1. todo' \in Seq(Entries) /\ async' \in BOOLEAN
      BY <1>1, ConfsAssumption DEF CallInit
    <2>2. inits' \in 0..MaxInits /\ handlers' \in 0..inits' /\ main' \in {main, "configuring"}
      BY <1>1 DEF CallInit
    <2>3. main' = "configuring" => status' = "up" /\ handlers' < inits'
      BY <1>1 DEF CallInit
    <2>4. QED BY <1>1, <2>1, <2>2, <2>3 DEF CallInit
  <1>2. CASE SkipEmptyEntry
    <2>1. todo' \in Seq(Entries)
      BY <1>2 DEF SkipEmptyEntry
    <2>2. QED BY <1>2, <2>1 DEF SkipEmptyEntry
  <1>3. CASE RejectEntry
    <2>1. todo' \in Seq(Entries)
      BY <1>3 DEF RejectEntry
    <2>2. QED BY <1>3, <2>1 DEF RejectEntry
  <1>4. CASE ConfigureInstance
    <2>1. Head(todo) \in Entries /\ Tail(todo) \in Seq(Entries)
      BY <1>4 DEF ConfigureInstance
    <2>2. PICK a \in Appenders :
            /\ AppenderFor(Head(todo).path, a)
            /\ logMap' = [logMap EXCEPT ![Head(todo).name] = a]
      BY <1>4 DEF ConfigureInstance
    <2>3. Head(todo).path \in Paths /\ Head(todo).name \in Names
      BY <2>1 DEF Entries
    <2>4. /\ nappenders' \in 0..MaxAppenders /\ nappenders <= nappenders'
          /\ a \in 1..nappenders'
          /\ appenderMap' \in [Paths -> 0..nappenders']
          /\ file' \in [Appenders -> Paths \cup {NoFile}]
          /\ live' \subseteq 1..nappenders' /\ running' \subseteq 1..nappenders'
      BY <2>2, <2>3, AppenderForType DEF Appenders
    <2>5. logMap' \in [Names -> 0..nappenders']
      BY <2>2, <2>3, <2>4
    <2>6. QED BY <1>4, <2>1, <2>4, <2>5 DEF ConfigureInstance
  <1>5. CASE InitReturns
    BY <1>5 DEF InitReturns
  <1>6. ASSUME NEW t \in Threads, ThreadStep(t) PROVE TypeOK'
    <2>1. ASSUME NEW n \in Names, GetInstance(t, n) PROVE TypeOK'
      BY <2>1 DEF GetInstance
    <2>2. CASE StartLog(t)
      BY <2>2 DEF StartLog
    <2>3. CASE Output(t)
      <3> DEFINE a == logMap[ref[t]]
      <3>1. CASE UNCHANGED queued
        BY <2>3, <3>1 DEF Output
      <3>2. CASE queued[a] < MaxLines /\ queued' = [queued EXCEPT ![a] = @ + 1]
        <4>1. ASSUME NEW b \in Appenders PROVE queued'[b] \in 0..MaxLines
          BY SMTT(30), <3>2
        <4>2. queued' \in [Appenders -> 0..MaxLines]
          BY <3>2, <4>1
        <4>3. QED BY <2>3, <4>2 DEF Output
      <3>3. QED BY <2>3, <3>1, <3>2 DEF Output
    <2>4. CASE OutputOfDeleted(t)
      BY <2>4 DEF OutputOfDeleted
    <2>5. QED BY <1>6, <2>1, <2>2, <2>3, <2>4 DEF ThreadStep
  <1>7. ASSUME NEW a \in Appenders, Worker(a) PROVE TypeOK'
    <2>1. queued' \in [Appenders -> 0..MaxLines]
      BY SMTT(30), <1>7 DEF Worker
    <2>2. QED BY <1>7, <2>1 DEF Worker
  <1>8. CASE MainReturns
    BY <1>8 DEF MainReturns
  <1>9. CASE ExitStep
    <2>1. CASE DestroyBegins
      BY <2>1 DEF DestroyBegins
    <2>2. CASE LoggersDeleted
      BY <2>2 DEF LoggersDeleted
    <2>3. CASE DestroyReturns
      <3>1. appenderMap' \in [Paths -> 0..nappenders]
        BY <2>3 DEF DestroyReturns
      <3>2. QED BY <2>3, <3>1 DEF DestroyReturns
    <2>4. CASE ProcessEnds
      BY <2>4 DEF ProcessEnds
    <2>5. ASSUME NEW n \in Names, DeleteLogger(n) PROVE TypeOK'
      <3>1. freed' \subseteq Names /\ running' \subseteq 1..nappenders
        BY <2>5 DEF DeleteLogger
      <3>2. queued' \in [Appenders -> 0..MaxLines]
        <4>1. queued' = [a \in Appenders |->
                           IF a = logMap[n] /\ a \in running THEN 0 ELSE queued[a]]
          BY <2>5 DEF DeleteLogger
        <4>2. QED BY <4>1
      <3>3. QED BY <2>5, <3>1, <3>2 DEF DeleteLogger
    <2>6. ASSUME NEW f \in Paths, DeleteAppender(f) PROVE TypeOK'
      BY <2>6 DEF DeleteAppender
    <2>7. QED BY <1>9, <2>1, <2>2, <2>3, <2>4, <2>5, <2>6 DEF ExitStep
  <1>10. CASE UNCHANGED vars
    BY <1>10 DEF vars
  <1>11. QED
    BY <1>1, <1>2, <1>3, <1>4, <1>5, <1>6, <1>7, <1>8, <1>9, <1>10 DEF Next

(* The type invariant of LoggerRegistry. *)
THEOREM TypeCorrect == Spec => []TypeOK
  BY InitType, NextType, PTL DEF Spec

-----------------------------------------------------------------------------
(* One file, one appender: appenderMap_ leads from the file of an appender to it
   for as long as it exists. *)

MapFindsLive == \A a \in live : file[a] \in Paths /\ appenderMap[file[a]] = a

MInv == TypeOK /\ MapFindsLive

LEMMA NextMInv == MInv /\ [Next]_vars => MInv'
  <1> SUFFICES ASSUME MInv, [Next]_vars PROVE MapFindsLive'
    BY NextType DEF MInv
  <1>1. CASE ConfigureInstance
    <2>1. Head(todo).path \in Paths
      <3>1. Head(todo) \in Entries
        BY <1>1 DEF ConfigureInstance, MInv, TypeOK
      <3>2. QED BY <3>1 DEF Entries
    <2>2. PICK a \in Appenders : AppenderFor(Head(todo).path, a)
      BY <1>1 DEF ConfigureInstance
    <2> DEFINE path == Head(todo).path
    <2>3. CASE appenderMap[path] # None
      BY <2>2, <2>3 DEF AppenderFor, appenders, MInv, MapFindsLive
    <2>4. CASE appenderMap[path] = None
      <3>1. /\ a = nappenders + 1
            /\ file' = [file EXCEPT ![a] = path]
            /\ live' = live \cup {a}
            /\ appenderMap' = [appenderMap EXCEPT ![path] = a]
        BY <2>2, <2>4 DEF AppenderFor
      <3>2. a \notin live /\ None \notin live /\ a \notin 0..nappenders
        BY <3>1 DEF MInv, TypeOK, None
      <3>3. ASSUME NEW b \in live'
            PROVE  file'[b] \in Paths /\ appenderMap'[file'[b]] = b
        <4>1. CASE b = a
          BY <2>1, <3>1, <4>1 DEF MInv, TypeOK
        <4>2. CASE b # a
          BY <2>1, <2>4, <3>1, <3>2, <3>3, <4>2 DEF MInv, TypeOK, MapFindsLive
        <4>3. QED BY <4>1, <4>2
      <3>4. QED BY <3>3 DEF MapFindsLive
    <2>5. QED BY <2>3, <2>4
  <1>2. ASSUME NEW f \in Paths, DeleteAppender(f) PROVE MapFindsLive'
    BY <1>2 DEF DeleteAppender, registry, MInv, MapFindsLive
  <1>3. CASE DestroyReturns
    <2>1. live = {}
      BY <1>3 DEF DestroyReturns, MInv, MapFindsLive
    <2>2. QED BY <1>3, <2>1 DEF DestroyReturns, appenders, MapFindsLive
  <1>4. CASE UNCHANGED <<appenderMap, file, live>>
    BY <1>4 DEF MInv, MapFindsLive
  <1>5. QED
    <2>1. ASSUME NEW t \in Threads, ThreadStep(t) PROVE UNCHANGED <<appenderMap, file, live>>
      BY <2>1 DEF ThreadStep, GetInstance, StartLog, Output, OutputOfDeleted, registry, appenders
    <2>2. ASSUME ExitStep,
                 ~DestroyReturns, ~\E f \in Paths : DeleteAppender(f)
          PROVE  UNCHANGED <<appenderMap, file, live>>
      BY <2>2 DEF ExitStep, DestroyBegins, LoggersDeleted, ProcessEnds, DeleteLogger,
                  registry, appenders
    <2>3. CASE \/ \E conf \in Confs, isAsync \in BOOLEAN : CallInit(conf, isAsync)
               \/ SkipEmptyEntry \/ RejectEntry \/ InitReturns \/ MainReturns
               \/ \E a \in Appenders : Worker(a)
               \/ UNCHANGED vars
      BY <1>4, <2>3 DEF CallInit, SkipEmptyEntry, RejectEntry, InitReturns, MainReturns, Worker,
                        registry, appenders, vars
    <2>4. QED BY <1>1, <1>2, <1>3, <1>4, <2>1, <2>2, <2>3 DEF Next

(* However often init() is called and whatever the configuration, a process has
   one appender for a file. *)
THEOREM FileHasOneAppender == Spec => []OneAppenderPerFile
  <1>1. Init => MInv
    BY InitType DEF Init, MInv, MapFindsLive
  <1>2. MInv => OneAppenderPerFile
    BY DEF MInv, MapFindsLive, OneAppenderPerFile
  <1>3. QED BY <1>1, <1>2, NextMInv, PTL DEF Spec

-----------------------------------------------------------------------------
(* The life of loggers and appenders. *)

Phases ==
    /\ status = "up" => freed = {} /\ main \in {"idle", "configuring"}
    /\ status = "exited" => handlers = 0 /\ main = "idle"
    /\ main = "configuring" => status = "up"
    /\ main \in {"loggers", "appenders"} => mutex

(* What the two maps lead to exists, and until destroy() empties logMap_ an
   appender in appenderMap_ belongs to a logger. *)
MapsLive ==
    /\ \A n \in Names : logMap[n] # None => logMap[n] \in live /\ main # "appenders"
    /\ main # "appenders" =>
         \A f \in Paths : appenderMap[f] # None => appenderMap[f] \in live
    /\ status = "up" =>
         \A f \in Paths : appenderMap[f] # None => \E n \in Names : logMap[n] = appenderMap[f]

(* A worker runs only for a logger that is still to be deleted. *)
RunningIsUsed ==
    \A a \in running :
        /\ a \in live /\ main # "appenders"
        /\ \E n \in Names : logMap[n] = a /\ n \notin freed

(* Until exit() is called, a thread gets a logger only after init() has returned;
   exit(1) in init() finds no thread that has one. *)
ThreadsKnow ==
    \A t \in Threads :
        /\ pc[t] = "output" => ref[t] \in Names
        /\ ref[t] \in Names /\ status = "up" =>
             main # "configuring" /\ logMap[ref[t]] # None

LInv == TypeOK /\ Phases /\ MapsLive /\ RunningIsUsed /\ ThreadsKnow

LEMMA InitLInv == Init => LInv
  BY InitType, NamesAssumption 
  DEF Init, LInv, Phases, MapsLive, RunningIsUsed, ThreadsKnow

LEMMA NextPhases == LInv /\ [Next]_vars => Phases'
  <1> SUFFICES ASSUME LInv, [Next]_vars PROVE Phases'
    OBVIOUS
  <1> USE DEF LInv, Phases, TypeOK, process, registry
  <1>1. ASSUME NEW t \in Threads, ThreadStep(t) PROVE Phases'
    <2>1. OutputOfDeleted(t) => main # "configuring"
      BY <1>1 DEF OutputOfDeleted, ThreadsKnow
    <2>2. QED BY <1>1, <2>1 DEF ThreadStep, GetInstance, StartLog, Output, OutputOfDeleted
  <1>2. CASE ExitStep
    BY <1>2 DEF ExitStep, DestroyBegins, LoggersDeleted, DestroyReturns, ProcessEnds,
                DeleteLogger, DeleteAppender
  <1>3. CASE \E conf \in Confs, isAsync \in BOOLEAN : CallInit(conf, isAsync)
    BY <1>3 DEF CallInit
  <1>4. CASE SkipEmptyEntry \/ RejectEntry \/ ConfigureInstance \/ InitReturns \/ MainReturns
    BY <1>4 DEF SkipEmptyEntry, RejectEntry, ConfigureInstance, InitReturns, MainReturns
  <1>5. CASE (\E a \in Appenders : Worker(a)) \/ UNCHANGED vars
    BY <1>5 DEF Worker, vars
  <1>6. QED BY <1>1, <1>2, <1>3, <1>4, <1>5 DEF Next

(* The one step that adds to the maps. *)
LEMMA ConfigureLInv ==
    ASSUME LInv, ConfigureInstance
    PROVE  MapsLive' /\ RunningIsUsed' /\ ThreadsKnow'
  <1> DEFINE name == Head(todo).name
             path == Head(todo).path
  <1>1. /\ main = "configuring" /\ main' = main /\ status' = status /\ status = "up"
        /\ freed = {} /\ freed' = {}
        /\ logMap[name] = None /\ pc' = pc /\ ref' = ref
    BY DEF ConfigureInstance, LInv, TypeOK, Phases
  <1>2. name \in Names /\ path \in Paths
    <2>1. Head(todo) \in Entries
      BY DEF ConfigureInstance, LInv, TypeOK
    <2>2. QED BY <2>1 DEF Entries
  <1>3. PICK a \in Appenders :
          AppenderFor(path, a) /\ logMap' = [logMap EXCEPT ![name] = a]
    BY DEF ConfigureInstance
  <1>4. /\ a \in live' /\ live \subseteq live' /\ appenderMap'[path] = a
        /\ \A f \in Paths \ {path} : appenderMap'[f] = appenderMap[f]
        /\ running' \subseteq running \cup {a}
    <2>1. CASE appenderMap[path] # None
      BY <1>1, <1>2, <1>3, <2>1 DEF AppenderFor, appenders, LInv, MapsLive, TypeOK
    <2>2. CASE appenderMap[path] = None
      BY <1>2, <1>3, <2>2 DEF AppenderFor, LInv, TypeOK
    <2>3. QED BY <2>1, <2>2
  <1>5. /\ logMap'[name] = a
        /\ \A n \in Names : logMap[n] # None => logMap'[n] = logMap[n]
        /\ \A n \in Names \ {name} : logMap'[n] = logMap[n]
    BY <1>1, <1>2, <1>3 DEF LInv, TypeOK
  <1>6. MapsLive'
    BY <1>1, <1>2, <1>4, <1>5 DEF LInv, MapsLive
  <1>7. RunningIsUsed'
    <2> SUFFICES ASSUME NEW b \in running'
                 PROVE  b \in live' /\ \E n \in Names : logMap'[n] = b
      BY <1>1 DEF RunningIsUsed
    <2>1. CASE b = a
      BY <1>2, <1>4, <1>5, <2>1
    <2>2. CASE b \in running
      <3>1. b \in live /\ b # None
        BY <2>2 DEF LInv, RunningIsUsed, TypeOK, None
      <3>2. PICK n \in Names : logMap[n] = b
        BY <2>2 DEF LInv, RunningIsUsed
      <3>3. QED BY <1>4, <1>5, <3>1, <3>2
    <2>3. QED BY <1>4, <2>1, <2>2
  <1>8. ThreadsKnow'
    BY <1>1 DEF LInv, ThreadsKnow
  <1>9. QED BY <1>6, <1>7, <1>8

LEMMA ExitLInv ==
    ASSUME LInv, ExitStep
    PROVE  MapsLive' /\ RunningIsUsed' /\ ThreadsKnow'
  <1>1. status # "up" /\ status' # "up" /\ pc' = pc /\ ref' = ref
    BY DEF ExitStep, DestroyBegins, LoggersDeleted, DestroyReturns, ProcessEnds,
           DeleteLogger, DeleteAppender, process, LInv, Phases
  <1>2. ThreadsKnow'
    BY <1>1 DEF LInv, ThreadsKnow
  <1>3. CASE DestroyBegins \/ ProcessEnds
    <2>1. /\ main = "idle" /\ main' # "appenders"
          /\ UNCHANGED <<logMap, freed, appenderMap, live, running>>
      BY <1>3 DEF DestroyBegins, ProcessEnds, registry, appenders
    <2>2. QED BY <1>1, <1>2, <2>1 DEF LInv, MapsLive, RunningIsUsed
  <1>4. CASE LoggersDeleted
    <2>1. running = {}
      BY <1>4 DEF LoggersDeleted, LInv, RunningIsUsed, TypeOK, None
    <2>2. running' = {} /\ main' = "appenders" /\ \A n \in Names : logMap'[n] = None
      BY <1>4, <2>1 DEF LoggersDeleted, appenders
    <2>3. QED BY <1>1, <1>2, <2>2 DEF MapsLive, RunningIsUsed
  <1>5. ASSUME NEW n \in Names, DeleteLogger(n) PROVE MapsLive' /\ RunningIsUsed'
    <2>1. MapsLive'
      BY <1>1, <1>5 DEF DeleteLogger, process, LInv, MapsLive
    <2>2. ASSUME NEW b \in running'
          PROVE  /\ b \in live' /\ main' # "appenders"
                 /\ \E m \in Names : logMap'[m] = b /\ m \notin freed'
      <3>1. b \in running /\ b # logMap[n] /\ logMap' = logMap /\ live' = live
            /\ main' = main /\ freed' = freed \cup {n}
        BY <1>5, <2>2 DEF DeleteLogger, process
      <3>2. PICK m \in Names : logMap[m] = b /\ m \notin freed
        BY <3>1 DEF LInv, RunningIsUsed
      <3>3. QED BY <3>1, <3>2 DEF LInv, RunningIsUsed
    <2>3. QED BY <2>1, <2>2 DEF RunningIsUsed
  <1>6. ASSUME NEW f \in Paths, DeleteAppender(f) PROVE MapsLive' /\ RunningIsUsed'
    BY <1>1, <1>6 DEF DeleteAppender, process, registry, LInv, MapsLive, RunningIsUsed
  <1>7. CASE DestroyReturns
    <2>1. /\ main = "appenders" /\ logMap' = logMap /\ running' = running
          /\ \A f \in Paths : appenderMap'[f] = None
      BY <1>7 DEF DestroyReturns, appenders
    <2>2. running = {} /\ \A n \in Names : logMap[n] = None
      BY <2>1 DEF LInv, MapsLive, RunningIsUsed
    <2>3. QED BY <1>1, <1>2, <2>1, <2>2 DEF MapsLive, RunningIsUsed
  <1>8. QED BY <1>2, <1>3, <1>4, <1>5, <1>6, <1>7 DEF ExitStep

LEMMA NextLInv == LInv /\ [Next]_vars => LInv'
  <1> SUFFICES ASSUME LInv, [Next]_vars PROVE MapsLive' /\ RunningIsUsed' /\ ThreadsKnow'
    BY NextType, NextPhases DEF LInv
  <1>1. ASSUME NEW t \in Threads, ThreadStep(t)
        PROVE MapsLive' /\ RunningIsUsed' /\ ThreadsKnow'
    <2>1. /\ UNCHANGED <<main, registry, appenders>>
          /\ status' = status \/ status' = "crashed"
      BY <1>1 DEF ThreadStep, GetInstance, StartLog, Output, OutputOfDeleted, process
    <2>2. MapsLive' /\ RunningIsUsed'
      BY <2>1 DEF registry, appenders, LInv, MapsLive, RunningIsUsed
    <2>3. ASSUME NEW n \in Names, GetInstance(t, n) PROVE ThreadsKnow'
      BY <2>1, <2>3, NamesAssumption
         DEF GetInstance, process, registry, LInv, TypeOK, ThreadsKnow
    <2>4. CASE StartLog(t) \/ Output(t) \/ OutputOfDeleted(t)
      <3>1. /\ ref' = ref /\ main' = main /\ logMap' = logMap
            /\ \A u \in Threads \ {t} : pc'[u] = pc[u]
        BY <2>1, <2>4 DEF StartLog, Output, OutputOfDeleted, process, registry, LInv, TypeOK
      <3>2. pc'[t] = "output" => ref[t] \in Names
        BY <2>4 DEF StartLog, Output, OutputOfDeleted, LInv, TypeOK, ThreadsKnow
      <3>3. ASSUME NEW u \in Threads PROVE pc'[u] = "output" => ref[u] \in Names
        <4>1. CASE u = t
          BY <3>2, <4>1
        <4>2. CASE u # t
          BY <3>1, <4>2 DEF LInv, ThreadsKnow
        <4>3. QED BY <4>1, <4>2
      <3>4. ASSUME NEW u \in Threads, ref[u] \in Names, status' = "up"
            PROVE  main # "configuring" /\ logMap[ref[u]] # None
        BY <2>1, <3>4 DEF LInv, ThreadsKnow
      <3>5. ThreadsKnow'
        BY <3>1, <3>3, <3>4, Zenon DEF ThreadsKnow
      <3>6. QED BY <2>2, <3>5
    <2>5. QED BY <1>1, <2>2, <2>3, <2>4 DEF ThreadStep
  <1>2. ASSUME NEW conf \in Confs, NEW isAsync \in BOOLEAN, CallInit(conf, isAsync)
        PROVE MapsLive' /\ RunningIsUsed' /\ ThreadsKnow'
    <2>1. main = "idle" /\ main' # "appenders" /\ UNCHANGED <<status, logMap, freed, appenderMap, appenders, pc, ref>>
      BY <1>2 DEF CallInit
    <2>2. ThreadsKnow'
      BY <1>2, <2>1 DEF CallInit, Inited, LInv, ThreadsKnow
    <2>3. QED BY <2>1, <2>2 DEF appenders, LInv, MapsLive, RunningIsUsed
  <1>3. CASE SkipEmptyEntry \/ RejectEntry \/ InitReturns \/ MainReturns
    <2>1. UNCHANGED <<logMap, freed, appenderMap, appenders, pc, ref>>
      BY <1>3 DEF SkipEmptyEntry, RejectEntry, InitReturns, MainReturns, registry
    <2>2. main' # "appenders" /\ main # "appenders" /\ status = "up"
      BY <1>3 DEF SkipEmptyEntry, RejectEntry, InitReturns, MainReturns, LInv, TypeOK, Phases
    <2>3. ThreadsKnow'
      BY <1>3, <2>1, <2>2 DEF SkipEmptyEntry, RejectEntry, InitReturns, MainReturns, LInv, TypeOK,
                              ThreadsKnow
    <2>4. QED BY <2>1, <2>2, <2>3 DEF appenders, LInv, MapsLive, RunningIsUsed
  <1>4. CASE (\E a \in Appenders : Worker(a)) \/ UNCHANGED vars
    BY <1>4 DEF Worker, vars, process, registry, appenders, LInv, MapsLive, RunningIsUsed,
                ThreadsKnow
  <1>5. QED BY <1>1, <1>2, <1>3, <1>4, ConfigureLInv, ExitLInv DEF Next

(* No appender is deleted while its worker runs. *)
THEOREM StopsBeforeDeleting == Spec => []StoppedBeforeDeleted
  <1>1. LInv => StoppedBeforeDeleted
    BY DEF LInv, RunningIsUsed, StoppedBeforeDeleted
  <1>2. QED BY InitLInv, NextLInv, <1>1, PTL DEF Spec

-----------------------------------------------------------------------------
(* What a lookup finds: while nobody holds the mutex, logMap_ leads to no deleted
   logger. *)

LookupsSafe == ~mutex => \A n \in Names : logMap[n] # None => n \notin freed

UInv == LInv /\ LookupsSafe

LEMMA InitUInv == Init => UInv
  BY InitLInv DEF Init, UInv, LookupsSafe

LEMMA NextUInv == UInv /\ [Next]_vars => UInv'
  <1> SUFFICES ASSUME UInv, [Next]_vars PROVE LookupsSafe'
    BY NextLInv DEF UInv
  <1> USE DEF UInv, LookupsSafe
  <1>1. CASE UNCHANGED <<mutex, logMap, freed>>
    BY <1>1
  <1>2. CASE ConfigureInstance
    BY <1>2, NextLInv DEF ConfigureInstance, LInv, Phases, TypeOK
  <1>3. CASE DestroyBegins
    BY <1>3 DEF DestroyBegins
  <1>4. ASSUME NEW n \in Names, DeleteLogger(n) PROVE LookupsSafe'
    BY <1>4 DEF DeleteLogger, process, LInv, Phases
  <1>5. CASE LoggersDeleted
    BY <1>5 DEF LoggersDeleted
  <1>6. CASE DestroyReturns
    BY <1>6 DEF DestroyReturns, LInv, MapsLive
  <1>7. ASSUME NEW t \in Threads, ThreadStep(t) PROVE UNCHANGED <<mutex, logMap, freed>>
    BY <1>7 DEF ThreadStep, GetInstance, StartLog, Output, OutputOfDeleted, process, registry
  <1>8. CASE \/ \E conf \in Confs, isAsync \in BOOLEAN : CallInit(conf, isAsync)
             \/ SkipEmptyEntry \/ RejectEntry \/ InitReturns \/ MainReturns \/ ProcessEnds
             \/ (\E a \in Appenders : Worker(a)) \/ (\E f \in Paths : DeleteAppender(f))
             \/ UNCHANGED vars
    BY <1>1, <1>8 DEF CallInit, SkipEmptyEntry, RejectEntry, InitReturns, MainReturns, ProcessEnds,
                      Worker, DeleteAppender, process, registry, vars
  <1>9. QED BY <1>1, <1>2, <1>3, <1>4, <1>5, <1>6, <1>7, <1>8 DEF Next, ExitStep

(* GetInstance() never returns a deleted logger, whenever threads call it and however
   often destroy() runs. *)
THEOREM LookupsAreSafe == Spec => LookupIsLive
  <1>1. ASSUME UInv, [Next]_vars, NEW t \in Threads, NEW n \in Names, GetInstance(t, n)
        PROVE  ref'[t] \notin freed
    <2>1. ref'[t] = IF logMap[n] # None THEN n ELSE DummyLogger
      BY <1>1 DEF GetInstance, UInv, LInv, TypeOK
    <2>2. DummyLogger \notin freed
      BY <1>1, NamesAssumption DEF UInv, LInv, TypeOK
    <2>3. QED BY <1>1, <2>1, <2>2 DEF GetInstance, UInv, LookupsSafe
  <1>2. UInv /\ [Next]_vars =>
          [\A t \in Threads, n \in Names : GetInstance(t, n) => ref'[t] \notin freed]_vars
    BY <1>1
  <1>3. QED BY InitUInv, NextUInv, <1>2, PTL DEF Spec, LookupIsLive

-----------------------------------------------------------------------------
(* What is queued at exit. *)

(* Loggers that threads can get are deleted at exit. *)
Registered ==
    status = "up" /\ main # "configuring" /\ Inited => handlers > 0

AsyncRuns ==
    status = "up" /\ async => \A n \in Names : logMap[n] # None => logMap[n] \in running

(* A line waits only for a worker that a destroy() to come, or the one that
   deletes the loggers now, will stop. *)
WaitsForWorker ==
    \A a \in Appenders :
        queued[a] > 0 => a \in running /\ (handlers > 0 \/ main = "loggers")

QInv == LInv /\ Registered /\ AsyncRuns /\ WaitsForWorker

LEMMA InitQInv == Init => QInv
  BY InitLInv DEF Init, QInv, Registered, AsyncRuns, WaitsForWorker, Inited

LEMMA NextRegistered == QInv /\ [Next]_vars => Registered'
  <1> SUFFICES ASSUME QInv, [Next]_vars PROVE Registered'
    OBVIOUS
  <1> USE DEF QInv, Registered, Inited
  <1>1. CASE status # "up"
    <2>1. status' # "up"
      BY <1>1 DEF Next, CallInit, SkipEmptyEntry, RejectEntry, ConfigureInstance, InitReturns,
                  ThreadStep, GetInstance, StartLog, Output, OutputOfDeleted, Worker, MainReturns,
                  ExitStep, DestroyBegins, LoggersDeleted, DestroyReturns, ProcessEnds,
                  DeleteLogger, DeleteAppender, process, vars, LInv, TypeOK
    <2>2. QED BY <2>1
  <1>2. ASSUME status = "up", ExitStep PROVE FALSE
    BY <1>2 DEF ExitStep, DestroyBegins, LoggersDeleted, DestroyReturns, ProcessEnds,
                DeleteLogger, DeleteAppender, LInv, Phases
  <1>3. CASE InitReturns
    BY <1>3 DEF InitReturns, LInv, TypeOK
  <1>4. CASE ConfigureInstance
    BY <1>4 DEF ConfigureInstance
  <1>5. CASE SkipEmptyEntry \/ RejectEntry \/ MainReturns
    BY <1>5 DEF SkipEmptyEntry, RejectEntry, MainReturns
  <1>6. ASSUME NEW conf \in Confs, NEW isAsync \in BOOLEAN, CallInit(conf, isAsync)
        PROVE Registered'
    BY <1>6 DEF CallInit
  <1>7. CASE (\E t \in Threads : ThreadStep(t)) \/ (\E a \in Appenders : Worker(a))
             \/ UNCHANGED vars
    BY <1>7 DEF ThreadStep, GetInstance, StartLog, Output, OutputOfDeleted, Worker, process, registry, vars
  <1>8. QED BY <1>1, <1>2, <1>3, <1>4, <1>5, <1>6, <1>7 DEF Next

LEMMA NextAsyncRuns == QInv /\ [Next]_vars => AsyncRuns'
  <1> SUFFICES ASSUME QInv, [Next]_vars, status' = "up", async', NEW n \in Names, logMap'[n] # None
               PROVE  logMap'[n] \in running'
    BY DEF AsyncRuns
  <1> USE DEF QInv, AsyncRuns
  <1>1. CASE ConfigureInstance
    <2> DEFINE name == Head(todo).name
               path == Head(todo).path
    <2>1. name \in Names /\ path \in Paths
      <3>1. Head(todo) \in Entries
        BY <1>1 DEF ConfigureInstance, LInv, TypeOK
      <3>2. QED BY <3>1 DEF Entries
    <2>2. PICK a \in Appenders :
            AppenderFor(path, a) /\ logMap' = [logMap EXCEPT ![name] = a]
      BY <1>1 DEF ConfigureInstance
    <2>3. status = "up" /\ async
      BY <1>1 DEF ConfigureInstance
    <2>4. a \in running' /\ running \subseteq running'
      <3>1. CASE appenderMap[path] # None
        <4>1. a = appenderMap[path] /\ running' = running
          BY <2>2, <3>1 DEF AppenderFor, appenders
        <4>2. PICK m \in Names : logMap[m] = a
          BY <2>1, <2>3, <3>1, <4>1 DEF LInv, MapsLive
        <4>3. QED BY <2>3, <3>1, <4>1, <4>2
      <3>2. CASE appenderMap[path] = None
        BY <2>2, <2>3, <3>2 DEF AppenderFor
      <3>3. QED BY <3>1, <3>2
    <2>5. CASE n = name
      BY <2>1, <2>2, <2>4, <2>5 DEF LInv, TypeOK
    <2>6. CASE n # name
      BY <2>2, <2>3, <2>4, <2>6 DEF LInv, TypeOK
    <2>7. QED BY <2>5, <2>6
  <1>2. ASSUME NEW conf \in Confs, NEW isAsync \in BOOLEAN, CallInit(conf, isAsync)
        PROVE logMap'[n] \in running'
    BY <1>2 DEF CallInit, Inited, appenders
  <1>3. CASE SkipEmptyEntry \/ RejectEntry \/ InitReturns \/ MainReturns
    BY <1>3 DEF SkipEmptyEntry, RejectEntry, InitReturns, MainReturns, registry, appenders
  <1>4. CASE (\E t \in Threads : ThreadStep(t)) \/ (\E a \in Appenders : Worker(a))
             \/ UNCHANGED vars
    BY <1>4 DEF ThreadStep, GetInstance, StartLog, Output, OutputOfDeleted, Worker, process, registry,
                appenders, vars
  <1>5. ASSUME ExitStep PROVE FALSE
    BY <1>5 DEF ExitStep, DestroyBegins, LoggersDeleted, DestroyReturns, ProcessEnds,
                DeleteLogger, DeleteAppender, process, LInv, Phases
  <1>6. QED BY <1>1, <1>2, <1>3, <1>4, <1>5 DEF Next

LEMMA NextWaitsForWorker == QInv /\ [Next]_vars => WaitsForWorker'
  <1> SUFFICES ASSUME QInv, [Next]_vars, NEW a \in Appenders, queued'[a] > 0
               PROVE  a \in running' /\ (handlers' > 0 \/ main' = "loggers")
    BY DEF WaitsForWorker
  <1> USE DEF QInv, WaitsForWorker
  <1>0. queued[a] \in Nat /\ handlers \in Nat
    BY Bounds DEF LInv, TypeOK
  <1>1. ASSUME NEW t \in Threads, ThreadStep(t)
        PROVE  a \in running' /\ (handlers' > 0 \/ main' = "loggers")
    <2>1. UNCHANGED <<running, handlers, main>>
      BY <1>1 DEF ThreadStep, GetInstance, StartLog, Output, OutputOfDeleted, process, appenders
    <2>2. CASE queued[a] > 0
      BY <2>1, <2>2
    <2>3. CASE ~(queued[a] > 0)
      <3>1. Output(t) /\ async /\ status = "up" /\ queued' = [queued EXCEPT ![logMap[ref[t]]] = @ + 1]
        BY <1>1, <2>3 DEF ThreadStep, GetInstance, StartLog, Output, OutputOfDeleted
      <3>2. a = logMap[ref[t]]
        BY <2>3, <3>1 DEF LInv, TypeOK
      <3>3. ref[t] \in Names /\ status = "up" /\ main # "configuring" /\ logMap[ref[t]] # None
        BY <3>1 DEF Output, LInv, ThreadsKnow
      <3>4. QED BY <2>1, <3>1, <3>2, <3>3 DEF AsyncRuns, Registered, Inited
    <2>4. QED BY <2>2, <2>3
  <1>2. ASSUME NEW b \in Appenders, Worker(b)
        PROVE  a \in running' /\ (handlers' > 0 \/ main' = "loggers")
    <2>1. queued[a] > 0
      BY <1>0, <1>2 DEF Worker, LInv, TypeOK
    <2>2. QED BY <1>2, <2>1 DEF Worker, process, appenders
  <1>3. CASE SkipEmptyEntry \/ RejectEntry \/ MainReturns \/ UNCHANGED vars
    BY <1>3 DEF SkipEmptyEntry, RejectEntry, MainReturns, vars, process, appenders, LInv, Phases,
                TypeOK
  <1>4. CASE InitReturns
    BY <1>0, <1>4 DEF InitReturns, appenders
  <1>5. ASSUME NEW conf \in Confs, NEW isAsync \in BOOLEAN, CallInit(conf, isAsync)
        PROVE  a \in running' /\ (handlers' > 0 \/ main' = "loggers")
    BY <1>5 DEF CallInit, appenders
  <1>6. CASE ConfigureInstance
    <2>1. queued' = queued /\ handlers' = handlers /\ main' = main
      BY <1>6 DEF ConfigureInstance
    <2>2. running \subseteq running'
      BY <1>6 DEF ConfigureInstance, AppenderFor, appenders
    <2>3. QED BY <2>1, <2>2
  <1>7. CASE DestroyBegins
    BY <1>7 DEF DestroyBegins, appenders
  <1>8. CASE LoggersDeleted
    <2>1. running = {}
      BY <1>8 DEF LoggersDeleted, LInv, RunningIsUsed, TypeOK, None
    <2>2. QED BY <1>8, <2>1 DEF LoggersDeleted, appenders
  <1>9. ASSUME NEW n \in Names, DeleteLogger(n)
        PROVE  a \in running' /\ (handlers' > 0 \/ main' = "loggers")
    BY <1>0, <1>9 DEF DeleteLogger, process
  <1>10. CASE DestroyReturns \/ ProcessEnds \/ \E f \in Paths : DeleteAppender(f)
    BY <1>10 DEF DestroyReturns, ProcessEnds, DeleteAppender, process, LInv, RunningIsUsed
  <1>11. QED
    BY <1>1, <1>2, <1>3, <1>4, <1>5, <1>6, <1>7, <1>8, <1>9, <1>10 DEF Next, ExitStep

(* At the end of the process no line waits in a queue. *)
THEOREM LosesNothingAtExit == Spec => []NothingLostAtExit
  <1>1. QInv /\ [Next]_vars => QInv'
    BY NextLInv, NextRegistered, NextAsyncRuns, NextWaitsForWorker DEF QInv
  <1>2. QInv => NothingLostAtExit
    <2> SUFFICES ASSUME QInv, status = "exited", NEW a \in Appenders PROVE queued[a] = 0
      BY DEF NothingLostAtExit
    <2>1. handlers = 0 /\ main = "idle"
      BY DEF QInv, LInv, Phases
    <2>2. queued[a] \in Nat
      BY Bounds DEF QInv, LInv, TypeOK
    <2>3. ~(queued[a] > 0)
      BY <2>1 DEF QInv, WaitsForWorker
    <2>4. QED BY <2>2, <2>3
  <1>3. QED BY InitQInv, <1>1, <1>2, PTL DEF Spec

-----------------------------------------------------------------------------
(* The logger for warnings. *)

LEMMA NextWf == LInv /\ WfLoggerIsCurrent /\ [Next]_vars => WfLoggerIsCurrent'
  <1> SUFFICES ASSUME LInv, WfLoggerIsCurrent, [Next]_vars PROVE WfLoggerIsCurrent'
    OBVIOUS
  <1> USE DEF WfLoggerIsCurrent
  <1>1. ASSUME NEW conf \in Confs, NEW isAsync \in BOOLEAN, CallInit(conf, isAsync)
        PROVE WfLoggerIsCurrent'
    BY <1>1 DEF CallInit
  <1>2. CASE SkipEmptyEntry \/ RejectEntry \/ ConfigureInstance \/ InitReturns \/ MainReturns
    BY <1>2 DEF SkipEmptyEntry, RejectEntry, ConfigureInstance, InitReturns, MainReturns
  <1>3. CASE (\E t \in Threads : ThreadStep(t)) \/ (\E a \in Appenders : Worker(a))
             \/ UNCHANGED vars
    BY <1>3 DEF ThreadStep, GetInstance, StartLog, Output, OutputOfDeleted, Worker, process, registry, vars
  <1>4. ASSUME ExitStep PROVE status' # "up"
    BY <1>4 DEF ExitStep, DestroyBegins, LoggersDeleted, DestroyReturns, ProcessEnds,
                DeleteLogger, DeleteAppender, process, LInv, Phases
  <1>5. QED BY <1>1, <1>2, <1>3, <1>4 DEF Next

(* Between calls of init() the logger for warnings is the configured one. *)
THEOREM WfStaysCurrent == Spec => []WfLoggerIsCurrent
  <1>1. Init => WfLoggerIsCurrent
    BY DEF Init, WfLoggerIsCurrent
  <1>2. QED BY InitLInv, NextLInv, <1>1, NextWf, PTL DEF Spec
===============================================================================
