-------------------------------- MODULE Startup --------------------------------
(***************************************************************************)
(* How init() gets from the text of the configuration to the instances and *)
(* their files (Log.cc): TextConfig reads the lines, splitCheck() divides  *)
(* an instance into its fields, and RealPath finds its file.  What init()  *)
(* then makes of them is LoggerRegistry's subject.                         *)
(***************************************************************************)
EXTENDS TextConfig, RealPath

CONSTANTS
    Value,                      \* the numerals, and the number each stands for
    LogOf,                      \* a lexeme with ".log" behind it: a component
    LevelAll,                   \* LEVEL_ALL
    MinSplit, MaxSplit, DefaultSplit    \* MIN_, MAX_ and DEFAULT_SPLITSIZE

ASSUME LexemesAssumption ==
    /\ {"log.prefix", "log.instance"} \subseteq Lexemes
    /\ LogOf \in [Lexemes -> Names]
ASSUME NumbersAssumption ==
    /\ \A numeral \in DOMAIN Value : Value[numeral] \in Int
    /\ LevelAll \in Nat
    /\ MinSplit \in Nat \ {0} /\ MaxSplit \in Nat /\ DefaultSplit \in MinSplit .. MaxSplit

PrefixKey == <<"log.prefix">>
InstanceKey == <<"log.instance">>

VARIABLES
    phase,      \* what init() does
    todo,       \* the instances still to be configured
    instances,  \* logMap_: file, format and level of each
    sizes       \* appenderMap_: the size at which each file is split

initVars == <<phase, todo, instances, sizes>>
vars == <<confVars, pathVars, initVars>>

Init ==
    /\ ConfInit /\ PathInit
    /\ phase = "reading" /\ todo = <<>> /\ instances = <<>> /\ sizes = <<>>

(* atoi(), and strtoul() with a number that it makes a huge one of. *)
Number(s) == IF s # <<>> /\ Head(s) \in DOMAIN Value THEN Value[Head(s)] ELSE 0
Unsigned(s) == IF Number(s) < 0 THEN MaxSplit + 1 ELSE Number(s)

(* The size that FileAppender's constructor makes of the one it is given. *)
SplitSize(n) ==
    IF n = 0 THEN DefaultSplit
    ELSE IF n < MinSplit THEN MinSplit ELSE IF n > MaxSplit THEN MaxSplit ELSE n

(* The fields between the commas, the first "count" of them. *)
NextCut(s, p) == Min({c \in Places(s, Comma) : c > p} \cup {Len(s) + 1})
split(s, count) ==
    LET cut[k \in 0 .. count] == IF k = 0 THEN 0 ELSE NextCut(s, cut[k - 1])
    IN  [k \in {f \in 1 .. count : cut[f - 1] <= Len(s)} |-> SubSeq(s, cut[k - 1] + 1, cut[k] - 1)]

(* The five fields, or nothing when there are fewer or one that must not be empty is. *)
splitCheck(s) ==
    LET f == split(s, 5)
        field == [i \in DOMAIN f |-> trim(f[i])]
    IN  IF Len(f) # 5 \/ <<>> \in {field[1], field[2], field[3]} THEN <<>> ELSE field

Level(s) == IF s = <<>> \/ Number(s) \notin 0 .. LevelAll THEN LevelAll ELSE Number(s)

ConfRead ==
    /\ phase = "reading" /\ lines = <<>>
    /\ phase' = "configuring" /\ todo' = getStrings(InstanceKey)
    /\ UNCHANGED <<confVars, pathVars, instances, sizes>>

Entry == splitCheck(Head(todo))
Accepted == Entry # <<>> /\ Entry[1] \notin DOMAIN instances

(* The name of an instance with ".log" behind it. *)
LogName(n) == (IF Last(n) = Slash THEN n ELSE Front(n)) \o <<LogOf[Last(n)]>>

SkipEmpty ==
    /\ phase = "configuring" /\ todo # <<>> /\ Head(todo) = <<>>
    /\ todo' = Tail(todo)
    /\ UNCHANGED <<confVars, pathVars, phase, instances, sizes>>

(* exit(1): the entry is wrong, or the second of its name. *)
Reject ==
    /\ phase = "configuring" /\ todo # <<>> /\ Head(todo) # <<>>
    /\ ~Accepted
    /\ phase' = "exited"
    /\ UNCHANGED <<confVars, pathVars, todo, instances, sizes>>

(* The file of the next entry: init() calls toRealPath(). *)
FindFile ==
    /\ phase = "configuring" /\ todo # <<>> /\ Head(todo) # <<>>
    /\ Accepted
    /\ phase' = "resolving"
    /\ toRealPath([old |-> Entry[3],
                   prefix |-> OrElse(getString(PrefixKey), <<".", Slash>>),
                   default |-> LogName(Entry[1])])
    /\ UNCHANGED <<confVars, todo, instances, sizes>>

\* Faulty variant: the size is that of the last instance.
AddInstanceResizing ==
    /\ phase = "resolving" /\ step = "done"
    /\ phase' = "configuring" /\ todo' = Tail(todo)
    /\ sizes' = [f \in DOMAIN sizes \cup {rpath} |->
                   IF f # rpath THEN sizes[f] ELSE SplitSize(Unsigned(Entry[4]))]
    /\ instances' = [n \in DOMAIN instances \cup {Entry[1]} |->
                       IF n \in DOMAIN instances THEN instances[n]
                       ELSE [file |-> rpath, format |-> Entry[2], level |-> Level(Entry[5])]]
    /\ UNCHANGED <<confVars, pathVars>>

(* Instances with the same file share its appender, which has the size that the
   first of them asked for. *)
AddInstance ==
    /\ phase = "resolving" /\ step = "done"
    /\ phase' = "configuring" /\ todo' = Tail(todo)
    /\ sizes' = [f \in DOMAIN sizes \cup {rpath} |->
                   IF f \in DOMAIN sizes THEN sizes[f] ELSE SplitSize(Unsigned(Entry[4]))]
    /\ instances' = [n \in DOMAIN instances \cup {Entry[1]} |->
                       IF n \in DOMAIN instances THEN instances[n]
                       ELSE [file |-> rpath, format |-> Entry[2], level |-> Level(Entry[5])]]
    /\ UNCHANGED <<confVars, pathVars>>

Configured ==
    /\ phase = "configuring" /\ todo = <<>> /\ phase' = "done"
    /\ UNCHANGED <<confVars, pathVars, todo, instances, sizes>>

Next ==
    \/ ReadLine /\ UNCHANGED <<pathVars, initVars>>
    \/ ResolveStep /\ UNCHANGED <<confVars, initVars>>
    \/ ConfRead \/ SkipEmpty \/ Reject \/ FindFile \/ AddInstance \/ Configured

Spec == Init /\ [][Next]_vars

-------------------------------------------------------------------------------
(* What init() makes of the configuration. *)

(* Control is where it can be, and the path that is put together is described by
   the offsets of its components. *)
TypeOK ==
    /\ phase \in {"reading", "configuring", "resolving", "done", "exited"}
    /\ step \in {"idle", "begin", "resolve", "done", "failed"}
    /\ home \in Homes /\ cwd \in Cwds
    /\ dest \in Nat /\ limit \in Nat
    /\ DOMAIN rpath \subseteq 0 .. dest - 1 /\ \A o \in DOMAIN rpath : rpath[o] \in Tokens
    /\ step \in {"begin", "resolve", "failed"} => phase = "resolving"

(* The reference: an entry is fields with commas between them. *)
ConsistsOf(text, fields) ==
    LET end[k \in 0 .. Len(fields)] == IF k = 0 THEN 0 ELSE end[k - 1] + Len(fields[k]) + 1
    IN  /\ end[Len(fields)] = Len(text) + 1
        /\ \A k \in 1 .. Len(fields) :
             /\ fields[k] = SubSeq(text, end[k - 1] + 1, end[k] - 1)
             /\ Places(fields[k], Comma) = {}
             /\ k < Len(fields) => text[end[k]] = Comma

(* A file comes with the entries that it has, each with its fields and with what the
   first three of them are without the blanks around them. *)
ASSUME EntriesAssumption ==
    \A f \in Files :
        LET texts == ValuesOf(f.settings, InstanceKey) IN
        /\ DOMAIN f.entries = DOMAIN texts
        /\ \A k \in DOMAIN texts :
             LET e == f.entries[k] IN
             /\ e.fields \in Seq(Seq(Lexemes)) \ {<<>>} /\ ConsistsOf(texts[k], e.fields)
             /\ {e.name, e.format, e.path} \subseteq Seq(Lexemes)
             /\ Len(e.fields) >= 5 => /\ Padded(e.fields[1], e.name)
                                      /\ Padded(e.fields[2], e.format)
                                      /\ Padded(e.fields[3], e.path)

(* The entries that are not empty, and the file that one of them means. *)
Written == {k \in DOMAIN file.entries : file.entries[k].fields # <<<<>>>>}
MeantBy(e) ==
    LET prefixes == ValuesOf(file.settings, PrefixKey)
    IN  Meant([old |-> e.path, prefix |-> IF prefixes = <<>> THEN <<>> ELSE Head(prefixes),
               default |-> LogName(e.name)])

WellFormed(e) == Len(e.fields) >= 5 /\ <<>> \notin {e.name, e.format, e.path}

HasLevel(inst, e) ==
    /\ inst.level \in 0 .. LevelAll
    /\ Padded(e.fields[5], <<>>) => inst.level = LevelAll
    /\ \A n \in DOMAIN Value : Padded(e.fields[5], <<n>>) =>
         inst.level = IF Value[n] \in 0 .. LevelAll THEN Value[n] ELSE LevelAll

HasSize(f, e) ==
    \A n \in DOMAIN Value :
        Padded(e.fields[4], <<n>>) /\ Value[n] \in MinSplit .. MaxSplit => sizes[f] = Value[n]

(* When init() has returned, every entry of the file was a proper one and no two had
   one name, and its instance has the format, the level and the file it was given:
   the same file as another one just if the paths mean the same, however they are
   spelled (hidden names apart, which RealPath says nothing of).  The file is split at a permitted size, that of the first instance that
   has it if it asks for one. *)
AsWritten ==
    phase = "done" =>
        LET entry(k) == file.entries[k]
            found(k) == instances[entry(k).name]
        IN  /\ DOMAIN instances = {entry(k).name : k \in Written}
            /\ \A k \in Written :
                 /\ WellFormed(entry(k)) /\ HasLevel(found(k), entry(k))
                 /\ found(k).format = entry(k).format
                 /\ ~IsHidden(entry(k).path) => Components(found(k).file) = MeantBy(entry(k))
                 /\ sizes[found(k).file] \in MinSplit .. MaxSplit
                 /\ \/ HasSize(found(k).file, entry(k))
                    \/ \E j \in Written : j < k /\ found(j).file = found(k).file
            /\ \A j, k \in Written :
                 /\ entry(j).name = entry(k).name => j = k
                 /\ /\ ~IsHidden(entry(j).path) /\ ~IsHidden(entry(k).path)
                    /\ MeantBy(entry(j)) = MeantBy(entry(k))
                    => found(j).file = found(k).file
===============================================================================
