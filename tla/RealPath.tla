------------------------------- MODULE RealPath --------------------------------
(***************************************************************************)
(* How the name of a log file becomes the path by which the registry knows *)
(* it (StrUtil.cc): toRealPath() puts prefix and default name to it, and   *)
(* _realpath() resolves it, component by component, in a buffer that grows *)
(* when a name does not fit.  Links are not followed.                      *)
(*                                                                         *)
(* A name is a sequence of components and slashes.  The buffer is          *)
(* described by the component or slash that begins at each of its offsets, *)
(* so that "/ab/c" is [0 |-> "/", 1 |-> "ab", 3 |-> "/", 4 |-> "c"].       *)
(***************************************************************************)
EXTENDS Integers, Sequences, FiniteSets, SequencesExt

CONSTANTS
    Names,              \* components other than "." and ".."
    Size,               \* the length of each of them
    Hidden, DotEnded,   \* those that begin, and those that end, with a dot
    DefaultLog,         \* "default.log"
    PathMax,            \* PATH_MAX
    Homes, Cwds         \* texts that HOME may hold and getcwd() may return

Slash == "/"
Tokens == {Slash, ".", "..", "~"} \cup Names
Length(c) == IF c \in Names THEN Size[c] ELSE IF c = ".." THEN 2 ELSE 1

(* The contents of a buffer, and the offset of its end. *)
Text(at, end) == [at |-> at, end |-> end]
Slashes(at) == {o \in DOMAIN at : at[o] = Slash}

(* An absolute path without ".", ".." or double slashes.  A slash at the end is
   left to the caller. *)
Tidy(at, end) ==
    /\ DOMAIN at \subseteq 0 .. end - 1 /\ 0 \in Slashes(at)
    /\ \A o \in DOMAIN at :
         /\ at[o] \in Tokens \ {".", ".."}
         /\ LET next == o + Length(at[o]) IN
              /\ \A p \in DOMAIN at : o < p => next <= p
              /\ next # end => next \in DOMAIN at /\ (at[next] = Slash <=> at[o] # Slash)

ASSUME NamesAssumption ==
    /\ Names \cap {Slash, ".", "..", "~"} = {}
    /\ DefaultLog \in Names \ Hidden /\ Hidden \subseteq Names /\ DotEnded \subseteq Names
    /\ Size \in [Names -> Nat \ {0}]
    /\ PathMax \in Nat \ {0, 1}
(* HOME is set to an absolute tidy path, though a slash may be at its end.  _realpath()
   copies it unchecked, so this is a demand on the environment; getcwd() keeps to it. *)
ASSUME TextsAssumption ==
    \A text \in Homes \cup Cwds : text.end \in Nat \ {0} /\ Tidy(text.at, text.end)

VARIABLES
    home, cwd,      \* HOME, and the current directory
    args,           \* the arguments of toRealPath()
    step,           \* what _realpath() does
    name,           \* the part of the name still to be resolved
    rpath,          \* the contents of the buffer
    dest,           \* the offset of the end of the path in it
    limit           \* the size of the buffer

environment == <<home, cwd>>
buffer == <<rpath, dest, limit>>
pathVars == <<environment, args, step, name, buffer>>

NoArgs == [old |-> <<>>, prefix |-> <<>>, default |-> <<>>]

PathInit ==
    /\ home \in Homes /\ cwd \in Cwds
    /\ args = NoArgs /\ step = "idle" /\ name = <<>>
    /\ rpath = <<>> /\ dest = 0 /\ limit = 0

-------------------------------------------------------------------------------
(* toRealPath(): the name that is resolved. *)

BeginsSpecial(path) == Head(path) \in {Slash, ".", "..", "~"} \cup Hidden
EndsInDot(path) == Last(path) \in {".", ".."} \cup DotEnded
OrElse(path, other) == IF path = <<>> THEN other ELSE path

\* Faulty variant: a name that ends with a dot is taken for a file.
FullNameOfDots(a) ==
    LET prefix == OrElse(a.prefix, <<".", Slash>>)
        path == OrElse(a.old, prefix)
        file == IF Last(path) = Slash THEN path \o OrElse(a.default, <<DefaultLog>>) ELSE path
    IN  IF BeginsSpecial(file) THEN file
        ELSE IF Last(prefix) = Slash THEN prefix \o file ELSE prefix \o <<Slash>> \o file

FullName(a) ==
    LET prefix == OrElse(a.prefix, <<".", Slash>>)
        default == OrElse(a.default, <<DefaultLog>>)
        path == OrElse(a.old, prefix)
        named == IF EndsInDot(path) THEN path \o <<Slash>> \o default ELSE path
        file == IF Last(named) = Slash THEN named \o default ELSE named
    IN  IF BeginsSpecial(file) THEN file
        ELSE IF Last(prefix) = Slash THEN prefix \o file ELSE prefix \o <<Slash>> \o file

toRealPath(a) ==
    /\ step \in {"idle", "done"}
    /\ args' = a /\ name' = FullName(a) /\ step' = "begin"
    /\ UNCHANGED <<environment, buffer>>

-------------------------------------------------------------------------------
(* _realpath() *)

(* It returns NULL, and the assert in toRealPath() ends the program. *)
Fail ==
    /\ step' = "failed"
    /\ UNCHANGED <<environment, args, name, buffer>>

NoMemory == step = "begin" /\ Fail

BeginWith(text, rest) ==
    /\ rpath' = text.at /\ dest' = text.end /\ limit' = PathMax
    /\ name' = rest /\ step' = "resolve"
    /\ UNCHANGED <<environment, args>>

BeginAtRoot ==
    /\ step = "begin" /\ Head(name) = Slash
    /\ BeginWith(Text([o \in {0} |-> Slash], 1), name)

\* Faulty variant: a text as long as the buffer is let in.
BeginAtHomeWithoutNul ==
    /\ step = "begin" /\ Head(name) = "~"
    /\ \/ home.end <= PathMax /\ BeginWith(home, Tail(name))
       \/ home.end > PathMax /\ Fail

BeginAtHome ==
    /\ step = "begin" /\ Head(name) = "~"
    /\ \/ home.end < PathMax /\ BeginWith(home, Tail(name))
       \/ home.end >= PathMax /\ Fail

(* getcwd() fails when the directory does not fit. *)
BeginAtCwd ==
    /\ step = "begin" /\ Head(name) \notin {Slash, "~"}
    /\ \/ cwd.end < PathMax /\ BeginWith(cwd, name)
       \/ cwd.end >= PathMax /\ Fail

NextIs(c) == step = "resolve" /\ name # <<>> /\ Head(name) \in c /\ name' = Tail(name)

(* Slashes are skipped, and "." is nothing. *)
Skip ==
    /\ NextIs({Slash, "."})
    /\ UNCHANGED <<environment, args, step, buffer>>

\* Faulty variant: ".." takes off what is behind the last slash, be it nothing.
BackUpOnce ==
    /\ NextIs({".."})
    /\ dest' = IF dest > 1 THEN Max(Slashes(rpath)) + 1 ELSE dest
    /\ rpath' = Restrict(rpath, {o \in DOMAIN rpath : o < dest'})
    /\ UNCHANGED <<environment, args, step, limit>>

\* Faulty variant: the root is not an exception.
BackUpAtRoot ==
    /\ NextIs({".."})
    /\ dest' = LET before == {o \in Slashes(rpath) : o + 1 < dest}
               IN  IF before = {} THEN -1 ELSE Max(before) + 1
    /\ rpath' = Restrict(rpath, {o \in DOMAIN rpath : o < dest'})
    /\ UNCHANGED <<environment, args, step, limit>>

(* "..": back to behind the slash before, which must not be searched for in front
   of the buffer. *)
BackUp ==
    /\ NextIs({".."})
    /\ dest' = IF dest <= 1 THEN dest
               ELSE LET before == {o \in Slashes(rpath) : o + 1 < dest}
                    IN  IF before = {} THEN -1 ELSE Max(before) + 1
    /\ rpath' = Restrict(rpath, {o \in DOMAIN rpath : o < dest'})
    /\ UNCHANGED <<environment, args, step, limit>>

(* Where the next component begins: behind a slash. *)
Start == IF dest - 1 \in Slashes(rpath) THEN dest ELSE dest + 1

Larger == {PathMax, Length(Head(name)) + 1}

\* Faulty variant: the byte for NUL is forgotten.
RoomWithoutNul ==
    limit' = IF Start + Length(Head(name)) > limit THEN limit + Max(Larger) ELSE limit

(* realloc(): PATH_MAX bytes more, or as many as the component needs. *)
Room ==
    limit' = IF Start + Length(Head(name)) >= limit THEN limit + Max(Larger) ELSE limit

(* A slash, unless one is there, the room, and the component with a NUL. *)
AddComponent ==
    /\ NextIs({"~"} \cup Names)
    /\ Room
    /\ dest' = Start + Length(Head(name))
    /\ rpath' = [o \in DOMAIN rpath \cup {Start - 1, Start} |->
                   IF o = Start THEN Head(name)
                   ELSE IF o = Start - 1 THEN Slash ELSE rpath[o]]
    /\ UNCHANGED <<environment, args, step>>

NoRoom ==
    /\ step = "resolve" /\ name # <<>> /\ Head(name) \in {"~"} \cup Names
    /\ Start + Length(Head(name)) >= limit
    /\ Fail

\* Faulty variant: a slash at the end stays.
FinishWithSlash ==
    /\ step = "resolve" /\ name = <<>>
    /\ step' = "done"
    /\ UNCHANGED <<environment, args, name, buffer>>

(* The end of the name: a slash at the end of the path is taken off. *)
Finish ==
    /\ step = "resolve" /\ name = <<>>
    /\ dest' = IF dest > 1 /\ dest - 1 \in Slashes(rpath) THEN dest - 1 ELSE dest
    /\ rpath' = Restrict(rpath, {o \in DOMAIN rpath : o < dest'})
    /\ step' = "done"
    /\ UNCHANGED <<environment, args, name, limit>>

ResolveStep ==
    \/ NoMemory \/ BeginAtRoot \/ BeginAtHome \/ BeginAtCwd
    \/ Skip \/ BackUp \/ AddComponent \/ NoRoom \/ Finish

-------------------------------------------------------------------------------
(* What the resolution guarantees. *)

(* While a path is put together it and the NUL behind it are inside the buffer, and
   no search for a slash runs out of it at the front. *)
InBuffer == step \in {"resolve", "done"} => dest \in 1 .. limit - 1

(* A path that has been resolved has no ".", "..", double slashes or slash at its
   end: a directory has one spelling. *)
Canonical ==
    step = "done" => Tidy(rpath, dest) /\ (dest > 1 => dest - 1 \notin Slashes(rpath))

(* The reference: the components that a walk along a path leads to. *)
Enter(dir, c) ==
    CASE c \in {Slash, "."} -> dir
      [] c = ".." -> IF dir = <<>> THEN dir ELSE Front(dir)
      [] OTHER -> Append(dir, c)

Walk(dir, path) ==
    LET after[n \in 0 .. Len(path)] ==
          IF n = 0 THEN dir ELSE Enter(after[n - 1], path[n])
    IN  after[Len(path)]

(* The components in a buffer, from its start to its end. *)
AndAt(dir, at, o) == IF o \in DOMAIN at \ Slashes(at) THEN Append(dir, at[o]) ELSE dir
ComponentsBelow(at, end) ==
    LET below[n \in 0 .. end] == IF n = 0 THEN <<>> ELSE AndAt(below[n - 1], at, n - 1)
    IN  below[end]
Components(at) == ComponentsBelow(at, Max(DOMAIN at) + 1)

(* The walk along a path, which begins at the directory "plain" unless its first
   component says otherwise. *)
From(path, plain) ==
    CASE Head(path) = Slash -> Walk(<<>>, path)
      [] Head(path) = "~" -> Walk(Components(home.at), Tail(path))
      [] Head(path) \in {".", ".."} -> Walk(Components(cwd.at), path)
      [] OTHER -> Walk(plain, path)

(* What example.conf says of the file of an instance: a relative path is one in the
   directory of the prefix (line 26), but test.log there and ./log/test.log are
   one file with the prefix ./log (line 25), so that "." is the current directory. *)
Meant(a) ==
    LET here == Components(cwd.at)
        prefixDir == IF a.prefix = <<>> THEN here ELSE From(a.prefix, here)
        isDir == Last(a.old) = Slash \/ EndsInDot(a.old)
    IN  From(IF isDir THEN Append(a.old, Slash) \o a.default ELSE a.old, prefixDir)

(* A hidden name is relative as well, but the code looks at its dot only and does
   not put the prefix in front of it: nothing is said of these names. *)
IsHidden(path) == Head(path) \in Hidden

(* A path that has been resolved is the one meant: the file of that name in the
   directory of the prefix, unless it begins with ".", ".." or "~", and
   with the default name if it is that of a directory. *)
Resolved == step = "done" /\ ~IsHidden(args.old) => Components(rpath) = Meant(args)
===============================================================================
