------------------------------ MODULE TextConfig ------------------------------
(***************************************************************************)
(* Reading the configuration (Conf.cc): line by line a comment is cut off, *)
(* the key is divided from its value, both are trimmed, and the value is   *)
(* added to those the key already has.                                     *)
(*                                                                         *)
(* A line is a sequence of tokens, among them the four that are looked     *)
(* for.  A file comes with the settings it was written to express.         *)
(***************************************************************************)
EXTENDS Integers, Sequences, FiniteSets, SequencesExt

CONSTANTS
    Lexemes,    \* what lines consist of
    Files       \* what the configuration file may be: [lines, settings]

Colon == ":"  Hash == "#"  Comma == ","  Blank == " "

VARIABLES
    file,       \* the file that is read
    lines,      \* its lines still to be read
    confMap     \* confMap_

confVars == <<file, lines, confMap>>

ConfInit == file \in Files /\ lines = file.lines /\ confMap = <<>>

Places(s, c) == {i \in DOMAIN s : s[i] = c}
Before(s, c) == IF Places(s, c) = {} THEN s ELSE SubSeq(s, 1, Min(Places(s, c)) - 1)
After(s, c) == IF Places(s, c) = {} THEN <<>> ELSE SubSeq(s, Min(Places(s, c)) + 1, Len(s))

trim(s) ==
    LET kept == DOMAIN s \ Places(s, Blank)
    IN  IF kept = {} THEN <<>> ELSE SubSeq(s, Min(kept), Max(kept))

getStrings(key) == IF key \in DOMAIN confMap THEN confMap[key] ELSE <<>>
getString(key) == IF getStrings(key) = <<>> THEN <<>> ELSE Head(getStrings(key))

\* Faulty variant: a later line replaces an earlier one with the same key.
PutReplacing(key, value) ==
    confMap' = [k \in DOMAIN confMap \cup {key} |-> IF k = key THEN <<value>> ELSE confMap[k]]

Put(key, value) ==
    confMap' = [k \in DOMAIN confMap \cup {key} |->
                  IF k = key THEN Append(getStrings(key), value) ELSE confMap[k]]

ReadLine ==
    /\ lines # <<>> /\ lines' = Tail(lines)
    /\ LET text == Before(Head(lines), Hash)
           key == trim(Before(text, Colon))
       IN  IF key = <<>> THEN UNCHANGED confMap ELSE Put(key, trim(After(text, Colon)))
    /\ UNCHANGED file

-------------------------------------------------------------------------------
(* The reference: what a line expresses. *)

(* A text is "s" with blanks around it. *)
Padded(text, s) ==
    /\ s # <<>> => s[1] # Blank /\ s[Len(s)] # Blank
    /\ \E before \in 0 .. Len(text) - Len(s) :
         /\ \A i \in 1 .. Len(s) : text[before + i] = s[i]
         /\ \A i \in 1 .. Len(text) : i \notin before + 1 .. before + Len(s) => text[i] = Blank

(* In front of the comment there are the key and, behind a colon, the value.  Without a
   key a line expresses nothing. *)
Expresses(line, setting) ==
    \E end \in 0 .. Len(line) : \E key \in 0 .. end :
        /\ end = Len(line) \/ line[end + 1] = Hash
        /\ \A i \in 1 .. end : line[i] # Hash
        /\ \A i \in 1 .. key : line[i] # Colon
        /\ Padded(SubSeq(line, 1, key), setting.key)
        /\ \/ key = end /\ (setting.key # <<>> => setting.value = <<>>)
           \/ /\ key < end /\ line[key + 1] = Colon
              /\ setting.key # <<>> => Padded(SubSeq(line, key + 2, end), setting.value)

(* A file comes with the settings it was written to express, one for every line. *)
ASSUME FilesAssumption ==
    \A f \in Files :
        /\ f.lines \in Seq(Seq(Lexemes))
        /\ f.settings \in Seq([key : Seq(Lexemes), value : Seq(Lexemes)])
        /\ Len(f.settings) = Len(f.lines)
        /\ \A i \in 1 .. Len(f.lines) : Expresses(f.lines[i], f.settings[i])

(* The values that a key is given, in their order. *)
AndValue(values, setting, key) ==
    IF setting.key = key THEN Append(values, setting.value) ELSE values
ValuesOf(settings, key) ==
    LET upTo[n \in 0 .. Len(settings)] ==
          IF n = 0 THEN <<>> ELSE AndValue(upTo[n - 1], settings[n], key)
    IN  upTo[Len(settings)]

(* What was written is what is read: for every key the values of its settings in
   their order, whatever blanks, comments and empty lines are around them. *)
ReadsSettings ==
    lines = <<>> =>
        /\ <<>> \notin DOMAIN confMap
        /\ \A key \in ({s.key : s \in Range(file.settings)} \cup DOMAIN confMap) \ {<<>>} :
             getStrings(key) = ValuesOf(file.settings, key)
===============================================================================
