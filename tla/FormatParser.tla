------------------------------ MODULE FormatParser ------------------------------
(***************************************************************************)
(* The loop that takes a format apart.  Formatter::parseFormat reads       *)
(* log.format and FileAppender::parseSplitFormat log.splitFormat with the  *)
(* same loop; they differ in the letters that may follow a percent sign.   *)
(* The result is a list of pieces: a text and the directive behind it.     *)
(*                                                                         *)
(* Positions count from 0, as in the code.  The branch for                 *)
(* use+1 == npos is left out: use is the index of a character, so that     *)
(* use+1 is never npos, and a percent sign at the end is an ordinary       *)
(* character whose successor is the terminating NUL.  find_pos is only     *)
(* read by the find() that follows its assignment, so it is no variable.   *)
(***************************************************************************)
EXTENDS Integers, Sequences

CONSTANTS
    Directives, \* the letters that make a directive
    Formats     \* the formats to parse: sequences of characters

Percent == "%"
EndOfString == "NUL"
Raw == "raw"    \* the type of a piece without a directive

ASSUME DirectivesAssumption ==
    /\ Directives \subseteq STRING
    /\ {Percent, EndOfString, Raw} \cap Directives = {}
ASSUME FormatsAssumption == Formats \subseteq Seq(STRING)

VARIABLES
    format,     \* the string that is parsed
    pos,        \* the end of what the pieces cover
    use,        \* the percent sign under examination, or NPos
    formats,    \* formats_, the pieces so far
    parsing     \* whether the loop runs

parserVars == <<format, pos, use, formats, parsing>>

NPos == -1
CharAt(i) == IF i < Len(format) THEN format[i + 1] ELSE EndOfString
Substr(from, n) == SubSeq(format, from + 1, from + n)

(* f.find('%', from) *)
Find(f, from) ==
    LET found == {i \in from .. Len(f) - 1 : f[i + 1] = Percent}
    IN  IF found = {} THEN NPos ELSE CHOOSE i \in found : \A j \in found : i <= j

Piece == [str : Seq(STRING), type : Directives \cup {Raw}]

ParserInit ==
    /\ format = <<>> /\ pos = 0 /\ use = NPos
    /\ formats = <<>> /\ parsing = FALSE

(* The function is entered; it does not clear formats_. *)
StartParse(f) ==
    /\ ~parsing
    /\ format' = f /\ pos' = 0 /\ use' = Find(f, 0) /\ parsing' = TRUE
    /\ UNCHANGED formats

(* Faulty variant: after a directive the search starts at its percent sign again. *)
ParseDirectiveSearchingAgain ==
    /\ parsing /\ use # NPos /\ CharAt(use + 1) \in Directives
    /\ formats' = Append(formats, [str |-> Substr(pos, use - pos), type |-> CharAt(use + 1)])
    /\ pos' = use + 2
    /\ use' = Find(format, use)
    /\ UNCHANGED <<format, parsing>>

(* A percent sign and a directive: they end a piece. *)
ParseDirective ==
    /\ parsing /\ use # NPos /\ CharAt(use + 1) \in Directives
    /\ formats' = Append(formats, [str |-> Substr(pos, use - pos), type |-> CharAt(use + 1)])
    /\ pos' = use + 2
    /\ use' = Find(format, use + 2)
    /\ UNCHANGED <<format, parsing>>

(* Faulty variant: the character behind a percent sign is skipped with it. *)
SkipPercentAndNext ==
    /\ parsing /\ use # NPos /\ CharAt(use + 1) \notin Directives
    /\ use' = Find(format, use + 2)
    /\ UNCHANGED <<format, pos, formats, parsing>>

(* Faulty variant: the search after an ordinary percent sign does not move on. *)
SkipPercentStandingStill ==
    /\ parsing /\ use # NPos /\ CharAt(use + 1) \notin Directives
    /\ use' = Find(format, use)
    /\ UNCHANGED <<format, pos, formats, parsing>>

(* Faulty variant: an unknown letter ends a piece as a directive does. *)
SkipPercentPushing ==
    /\ parsing /\ use # NPos /\ CharAt(use + 1) \notin Directives
    /\ formats' = Append(formats, [str |-> Substr(pos, use - pos), type |-> CharAt(use + 1)])
    /\ pos' = use + 1
    /\ use' = Find(format, use + 1)
    /\ UNCHANGED <<format, parsing>>

(* A percent sign that belongs to the text: the next search starts behind it. *)
SkipPercent ==
    /\ parsing /\ use # NPos /\ CharAt(use + 1) \notin Directives
    /\ use' = Find(format, use + 1)
    /\ UNCHANGED <<format, pos, formats, parsing>>

(* The text behind the last directive, possibly empty, is a piece without one. *)
ParseRest ==
    /\ parsing /\ use = NPos
    /\ formats' = Append(formats, [str |-> Substr(pos, Len(format) - pos), type |-> Raw])
    /\ parsing' = FALSE
    /\ UNCHANGED <<format, pos, use>>

ParseStep == ParseDirective \/ SkipPercent \/ ParseRest

ParserTypeOK ==
    /\ format \in Formats \cup {<<>>}
    /\ pos \in Nat /\ use \in Nat \cup {NPos}
    /\ formats \in Seq(Piece)
    /\ parsing \in BOOLEAN

--------------------------------------------------------------------------------
(* What a format means, without the loop: a percent sign with a directive      *)
(* behind it is that directive, and any other character is itself.  No letter  *)
(* is a percent sign, so that two directives have no character in common.      *)
IsDirective(f, i) == i \in DOMAIN f /\ f[i] = Percent /\ i < Len(f) /\ f[i + 1] \in Directives

(* The assert(pos <= use) of the loop holds, and substr() is never asked for a *)
(* start behind the end of the format, for which it throws.                    *)
PositionsInOrder ==
    parsing => /\ pos <= Len(format)
               /\ use # NPos => pos <= use /\ use < Len(format)

(* The loop comes to its end on every format (while(use != npos)). *)
ParsingEnds == parsing ~> ~parsing
=================================================================================
