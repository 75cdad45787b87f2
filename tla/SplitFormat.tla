------------------------------ MODULE SplitFormat -------------------------------
(***************************************************************************)
(* The format of the names of rotated files (FileAppender).  The           *)
(* constructor parses it, and setSplitFormat() parses another one on an    *)
(* appender in use.  getNewFilename() builds a name from the pieces, which *)
(* FileAppender models as a function of the values of the directives.      *)
(***************************************************************************)
EXTENDS FormatParser

CONSTANT MaxCalls   \* how often a format is given, a bound of the model

VARIABLE calls      \* the formats given so far
vars == <<parserVars, calls>>

Init == ParserInit /\ calls = 0

(* The constructor, and then setSplitFormat(). *)
SetSplitFormat ==
    /\ calls < MaxCalls
    /\ \E f \in Formats : StartParse(f)
    /\ calls' = calls + 1

parseSplitFormat == ParseStep /\ UNCHANGED calls

Next == SetSplitFormat \/ parseSplitFormat
Spec == Init /\ [][Next]_vars

(* A format as a sequence of tokens, pairs of what one is and its character,  *)
(* and the same of the pieces.                                                *)
Tokens(f) ==
    LET kept == SelectSeq([i \in 1 .. Len(f) |-> i], LAMBDA i : ~IsDirective(f, i))
    IN  [k \in DOMAIN kept |->
           <<IF IsDirective(f, kept[k] - 1) THEN "directive" ELSE "text", f[kept[k]]>>]

TokensOfPiece(p) ==
    [i \in 1 .. Len(p.str) |-> <<"text", p.str[i]>>]
        \o (IF p.type = Raw THEN <<>> ELSE <<<<"directive", p.type>>>>)

TokensOfPieces(ps) ==
    LET upTo[n \in 0 .. Len(ps)] ==
            IF n = 0 THEN <<>> ELSE upTo[n - 1] \o TokensOfPiece(ps[n])
    IN  upTo[Len(ps)]

(* The pieces say what the format says that getSplitFormat() returns: every   *)
(* directive is found, no other text is taken for one, nothing is dropped.    *)
NameFollowsFormat ==
    ~parsing => TokensOfPieces(formats) = Tokens(format)
=================================================================================
