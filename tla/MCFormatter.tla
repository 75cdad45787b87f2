------------------------------ MODULE MCFormatter -------------------------------
(***************************************************************************)
(* The instance of Formatter for TLC: every format of up to four           *)
(* characters over a percent sign, an ordinary character and three         *)
(* directives, and the special formats, with the one that should be one.   *)
(***************************************************************************)
EXTENDS Formatter, TLC

AllDirectives == {"L", "N", "P", "T", "t", "l", "F", "f", "M"}
Characters == {"%", "x", "L", "l", "M"}
ShortFormats == UNION {[1 .. n -> Characters] : n \in 0 .. 4}
SomeFormats == ShortFormats \cup {VerboseFormat, DetailFormat, MiddleFormat, SimpleFormat}

(* The values have one character each, but for three that differ in length. *)
Value(d, n) == [i \in 1 .. n |-> d \o ToString(i)]
TextOf(level, number, message) ==
    [d \in AllDirectives |->
        Value(d, CASE d = "L" -> level [] d = "l" -> number [] d = Message -> message
                   [] OTHER -> 1)]
SomeTexts == {TextOf(1, 1, 1), TextOf(2, 1, 0), TextOf(1, 2, 3)}
=================================================================================
