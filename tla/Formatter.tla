-------------------------------- MODULE Formatter -------------------------------
(***************************************************************************)
(* How a line is made: the constructor of Formatter takes the format       *)
(* apart, format() writes the values of the directives into a buffer of a  *)
(* fixed size, and CLogger::writeLog ends the line and passes it on.       *)
(*                                                                         *)
(* A string is a sequence of characters.  What a directive stands for is   *)
(* any sequence of the set Texts, so that a line may fit, fill or exceed   *)
(* the buffer at any place.  snprintf ends what it writes with NUL and     *)
(* memcpy does not; either is given the room that is left.                 *)
(***************************************************************************)
EXTENDS FormatParser

CONSTANTS
    Texts,      \* the values of the directives: functions on Directives
    Sizes,      \* the sizes of a buffer, for MAX_SIZE_PER_LOG
    MaxLines    \* the lines written, a bound of the model

Message == "M"
LineNumber == "l"
Printed == {Message, LineNumber}    \* written by snprintf, the others by memcpy

Newline == "NEWLINE"
Unset == "UNSET"        \* what malloc() left in the buffer
Garbage == "GARBAGE"    \* what a message reads behind its arguments

(* The characters of formats and values. *)
Character == STRING \ {EndOfString, Unset}

ASSUME CharactersAssumption ==
    /\ {" ", ":", "(", ")", Newline, Garbage} \subseteq Character
    /\ {EndOfString, Unset} \subseteq STRING
ASSUME LettersAssumption == Directives = {"L", "N", "P", "T", "t", "l", "F", "f", "M"}
ASSUME TextsAssumption ==
    /\ Formats \subseteq Seq(Character)
    /\ Texts \subseteq [Directives -> Seq(Character)]
ASSUME SizesAssumption == Sizes \subseteq Nat \ {0}
ASSUME MaxLinesAssumption == MaxLines \in Nat

VARIABLES
    step,       \* where the constructor, format() or writeLog() is
    special,    \* special_format_
    size,       \* dst_size
    text,       \* the values of the directives for this line
    buf, ret,   \* the buffer, and how much of it is written
    it,         \* the piece under the iterator
    argsRead,   \* whether a message has consumed the arguments
    failed,     \* whether an snprintf of this line failed
    overrun,    \* whether a byte outside a buffer was written
    line,       \* the last line passed to the appender
    lines       \* the lines written so far

lineVars == <<size, text, buf, ret, it, argsRead, failed, overrun, line, lines>>
vars == <<parserVars, step, special, lineVars>>

--------------------------------------------------------------------------------
(* The special formats: what parseFormat compares with, and the header that   *)
(* the function for it prints before the message.                             *)
VerboseFormat == <<"%", "L", " ", "%", "N", " ", "%", "T", " ", "%", "P", ":", "%", "t", " ",
                   "%", "f", "(", "%", "F", ":", "%", "l", ")", " ", "%", "M">>
DetailFormat == <<"%", "L", " ", "%", "T", " ", "%", "P", ":", "%", "t", " ",
                  "%", "f", "(", "%", "F", ":", "%", "l", ")", " ", "%", "M">>
MiddleFormat == <<"%", "L", " ", "%", "T", " ", "%", "P", " ",
                  "%", "f", "(", "%", "F", ":", "%", "l", ")", " ", "%", "M">>
SimpleFormat == <<"%", "L", " ", "%", "T", " ", "%", "P", " ",
                  "%", "F", ":", "%", "l", " ", "%", "M">>

(* Faulty variant: the comparison meant for "detail" selects its header for "verbose". *)
SpecialOfWrongHeader(f) ==
    CASE f = VerboseFormat -> "middle"
      [] f = MiddleFormat  -> "middle"
      [] f = SimpleFormat  -> "simple"
      [] OTHER             -> "none"

(* The second comparison repeats the first, so that "detail" is never chosen. *)
SpecialOf(f) ==
    CASE f = VerboseFormat -> "verbose"
      [] f = MiddleFormat  -> "middle"
      [] f = SimpleFormat  -> "simple"
      [] OTHER             -> "none"

verbose_format(t) ==
    t["L"] \o <<" ">> \o t["N"] \o <<" ">> \o t["T"] \o <<" ">> \o t["P"] \o <<":">> \o t["t"]
        \o <<" ">> \o t["f"] \o <<"(">> \o t["F"] \o <<":">> \o t["l"] \o <<")", " ">>
middle_format(t) ==
    t["L"] \o <<" ">> \o t["T"] \o <<" ">> \o t["P"] \o <<" ">> \o t["f"] \o <<"(">>
        \o t["F"] \o <<":">> \o t["l"] \o <<")", " ">>
simple_format(t) ==
    t["L"] \o <<" ">> \o t["T"] \o <<" ">> \o t["P"] \o <<" ">> \o t["F"] \o <<":">>
        \o t["l"] \o <<" ">>

HeaderOf(s, t) ==
    CASE s = "verbose" -> verbose_format(t)
      [] s = "middle"  -> middle_format(t)
      [] OTHER         -> simple_format(t)

--------------------------------------------------------------------------------
AtMost(m, n) == IF m <= n THEN m ELSE n
Room == size - ret      \* a size_t: ret must not exceed size

(* What memcpy_minsize and snprintf write; both are counted as AtMost(Len(t), Room). *)
Copied(t) == SubSeq(t, 1, AtMost(Len(t), Room))
Printf(t) == Append(SubSeq(t, 1, AtMost(Len(t), Room - 1)), EndOfString)

Put(b, from, t) ==
    [i \in DOMAIN b |-> IF i - from \in DOMAIN t THEN t[i - from] ELSE b[i]]

(* Bytes are written behind ret, and n of them belong to the line. *)
Store(bytes, n) ==
    /\ buf' = Put(buf, ret, bytes)
    /\ overrun' = (overrun \/ ret + Len(bytes) > size)
    /\ ret' = ret + n

(* The loop of format() goes to the next piece, or ends. *)
NextPiece == it' = it + 1 /\ step' = IF it = Len(formats) THEN "newline" ELSE "raw"
LeaveLoop == it' = it /\ step' = "newline"

Init ==
    /\ ParserInit
    /\ step = "new" /\ special = "none"
    /\ size \in Sizes /\ text \in Texts
    /\ buf = [i \in 1 .. size |-> Unset]
    /\ ret = 0 /\ it = 1 /\ argsRead = FALSE /\ failed = FALSE /\ overrun = FALSE
    /\ line = <<>> /\ lines = 0

Construct ==
    /\ step = "new" /\ step' = "parse"
    /\ \E f \in Formats : StartParse(f)
    /\ UNCHANGED <<special, lineVars>>

(* parseFormat(): the loop, and behind it the choice of a special format. *)
parseFormat ==
    /\ step = "parse"
    /\ ParseStep
    /\ IF parsing' THEN UNCHANGED <<step, special>>
       ELSE step' = "idle" /\ special' = SpecialOf(format)
    /\ UNCHANGED lineVars

(* writeLog(): a new buffer, and values for this line. *)
StartLine ==
    /\ step = "idle" /\ lines < MaxLines
    /\ step' = IF special = "none" THEN "raw" ELSE "header"
    /\ text' \in Texts
    /\ buf' = [i \in 1 .. size |-> Unset] /\ ret' = 0 /\ it' = 1
    /\ argsRead' = FALSE /\ failed' = FALSE
    /\ UNCHANGED <<parserVars, special, size, overrun, line, lines>>

(* The text in front of a directive. *)
AddRaw ==
    /\ step = "raw"
    /\ LET str == formats[it].str IN Store(Copied(str), AtMost(Len(str), Room))
    /\ step' = IF ret' >= size THEN "newline" ELSE "handler"
    /\ UNCHANGED <<parserVars, special, size, text, it, argsRead, failed, line, lines>>

(* The handler of a directive.  va_list is an array, so that a second message  *)
(* reads on behind the arguments.                                              *)
AddDirective ==
    /\ step = "handler"
    /\ LET type == formats[it].type
           t == IF type = Raw THEN <<>>
                ELSE IF type = Message /\ argsRead THEN <<Garbage>> ELSE text[type]
       IN  /\ Store(IF type \in Printed THEN Printf(t) ELSE Copied(t), AtMost(Len(t), Room))
           /\ argsRead' = (argsRead \/ type = Message)
    /\ IF ret' >= size THEN LeaveLoop ELSE NextPiece
    /\ UNCHANGED <<parserVars, special, size, text, failed, line, lines>>

(* The second message may also follow a pointer that is none. *)
Crash ==
    /\ step = "handler" /\ formats[it].type = Message /\ argsRead
    /\ step' = "crashed"
    /\ UNCHANGED <<parserVars, special, lineVars>>

(* Faulty variant: the result of snprintf is not tested for -1, which as a    *)
(* size_t exceeds the room.                                                   *)
HandlerFailsUntested ==
    /\ step = "handler" /\ formats[it].type \in Printed
    /\ buf' = [i \in 1 .. size |-> IF i <= ret THEN buf[i] ELSE Unset]
    /\ failed' = TRUE
    /\ argsRead' = (argsRead \/ formats[it].type = Message)
    /\ ret' = size /\ LeaveLoop
    /\ UNCHANGED <<parserVars, special, size, text, overrun, line, lines>>

(* snprintf fails: what it wrote is not counted, and could be anything. *)
HandlerFails ==
    /\ step = "handler" /\ formats[it].type \in Printed
    /\ buf' = [i \in 1 .. size |-> IF i <= ret THEN buf[i] ELSE Unset]
    /\ failed' = TRUE
    /\ argsRead' = (argsRead \/ formats[it].type = Message)
    /\ NextPiece
    /\ UNCHANGED <<parserVars, special, size, text, ret, overrun, line, lines>>

(* The header of a special format, and then the message. *)
AddHeader ==
    /\ step = "header"
    /\ LET t == HeaderOf(special, text) IN Store(Printf(t), AtMost(Len(t), Room))
    /\ step' = IF ret' >= size THEN "newline" ELSE "message"
    /\ UNCHANGED <<parserVars, special, size, text, it, argsRead, failed, line, lines>>

AddMessage ==
    /\ step = "message" /\ step' = "newline"
    /\ Store(Printf(text[Message]), AtMost(Len(text[Message]), Room))
    /\ UNCHANGED <<parserVars, special, size, text, it, argsRead, failed, line, lines>>

SpecialFails ==
    /\ step \in {"header", "message"} /\ step' = "newline"
    /\ buf' = [i \in 1 .. size |-> IF i <= ret THEN buf[i] ELSE Unset]
    /\ failed' = TRUE
    /\ UNCHANGED <<parserVars, special, size, text, ret, it, argsRead, overrun, line, lines>>

(* Faulty variant: the length of a full buffer is not reduced for the newline. *)
EndLineWithoutCap ==
    /\ step = "newline" /\ step' = "idle"
    /\ line' = Append(SubSeq(buf, 1, ret), Newline)
    /\ overrun' = (overrun \/ ret + 1 > size)
    /\ lines' = lines + 1
    /\ UNCHANGED <<parserVars, special, size, text, buf, ret, it, argsRead, failed>>

(* writeLog(): the newline needs one byte, and replaces the last one of a full buffer. *)
EndLine ==
    /\ step = "newline" /\ step' = "idle"
    /\ LET msg_len == IF ret >= size THEN size - 1 ELSE ret
       IN  /\ line' = Append(SubSeq(buf, 1, msg_len), Newline)
           /\ overrun' = (overrun \/ msg_len + 1 > size)
    /\ lines' = lines + 1
    /\ UNCHANGED <<parserVars, special, size, text, buf, ret, it, argsRead, failed>>

format_ == AddRaw \/ AddDirective \/ HandlerFails \/ Crash \/ AddHeader \/ AddMessage \/ SpecialFails
Next == Construct \/ parseFormat \/ StartLine \/ format_ \/ EndLine
Spec == Init /\ [][Next]_vars
FairSpec == Spec /\ WF_vars(parseFormat)

--------------------------------------------------------------------------------
TypeOK ==
    /\ ParserTypeOK
    /\ step \in {"new", "parse", "idle", "raw", "handler", "header", "message", "newline", "crashed"}
    /\ special \in {"none", "verbose", "middle", "simple"}
    /\ size \in Sizes /\ text \in Texts
    /\ buf \in [1 .. size -> STRING]
    /\ ret \in Nat /\ it \in Nat \ {0} /\ lines \in Nat
    /\ {argsRead, failed, overrun} \subseteq BOOLEAN
    /\ line \in Seq(STRING)

(* No byte outside the buffer is written, and dst_size-ret, the room passed   *)
(* on as a size_t, never goes below zero (the assert in format()).            *)
StaysInBuffer == ~overrun /\ ret <= size

(* What the appender gets was written by format(): no byte that malloc() or a *)
(* failed snprintf left behind, and no NUL of an snprintf.                     *)
NothingUnset ==
    \A i \in 1 .. Len(line) : line[i] \notin {Unset, EndOfString}

(* What a character of a format stands for when the directives have the values *)
(* t, and the line that the format describes, all of it.                        *)
Stands(f, i, t) ==
    IF IsDirective(f, i) THEN <<>>
    ELSE IF IsDirective(f, i - 1) THEN t[f[i]] ELSE <<f[i]>>
Described(f, t) ==
    LET upTo[n \in 0 .. Len(f)] == IF n = 0 THEN <<>> ELSE upTo[n - 1] \o Stands(f, n, t)
    IN  upTo[Len(f)]
Meant == Described(format, text)

MessageAt(i) == IsDirective(format, i) /\ format[i + 1] = Message
OneMessage == \A i, j \in DOMAIN format : MessageAt(i) /\ MessageAt(j) => i = j

(* A line is what its format describes, cut off where the buffer has one byte *)
(* left for the newline, however it was produced: by the loop over the pieces *)
(* or by the function for a special format.  A format has one message at      *)
(* most, and no snprintf failed.                                              *)
LineIsMeant ==
    (step = "idle" /\ lines > 0 /\ ~failed /\ OneMessage) =>
        line = Append(SubSeq(Meant, 1, AtMost(Len(Meant), size - 1)), Newline)
=================================================================================
