----------------------------- MODULE FormatterProofs ----------------------------
(***************************************************************************)
(* TLAPS proofs about Formatter, for formats and values of any length and  *)
(* a buffer of any size: the parser's positions stay in order, no byte     *)
(* outside the buffer is written, and every byte of a line was set.        *)
(***************************************************************************)
EXTENDS Formatter, Recursion, TLAPS

(* find() yields npos, or the index of a percent sign not before the start. *)
LEMMA FindIsRight ==
    ASSUME NEW f \in Seq(STRING), NEW from \in Nat
    PROVE  Find(f, from) = NPos \/ Find(f, from) \in from .. Len(f) - 1
  <1> DEFINE found == {i \in from .. Len(f) - 1 : f[i + 1] = Percent}
  <1>1. CASE found = {}
    BY <1>1 DEF Find
  <1>2. CASE found # {}
    <2>1. found \subseteq Nat
      OBVIOUS
    <2>2. \E i \in found : \A j \in found : i <= j
      BY <1>2, <2>1, LeastOf
    <2>3. Find(f, from) = CHOOSE i \in found : \A j \in found : i <= j
      BY <1>2 DEF Find
    <2>4. Find(f, from) \in found
      <3> HIDE DEF found
      <3>1. QED BY <2>2, <2>3
    <2>5. QED BY <2>4
  <1>3. QED BY <1>1, <1>2

(* A string of characters is a string. *)
LEMMA CharactersAreStrings == Seq(Character) \subseteq Seq(STRING)
  <1> SUFFICES ASSUME NEW s \in Seq(Character) PROVE s \in Seq(STRING)
    OBVIOUS
  <1>1. Len(s) \in Nat /\ \A i \in 1 .. Len(s) : s[i] \in STRING
    BY DEF Character
  <1>2. s = [i \in 1 .. Len(s) |-> s[i]]
    OBVIOUS
  <1>3. QED BY <1>1, <1>2

LEMMA SubstrOfSeq ==
    ASSUME NEW S, NEW s \in Seq(S), NEW m \in Nat, NEW n \in Nat, n <= Len(s)
    PROVE  SubSeq(s, m + 1, n) \in Seq(S)
  <1>1. \A i \in (m + 1) .. n : s[i] \in S
    OBVIOUS
  <1>2. QED BY <1>1

LEMMA AppendOfSeq ==
    ASSUME NEW S, NEW s \in Seq(S), NEW x \in S
    PROVE  Append(s, x) \in Seq(S)
  OBVIOUS

LEMMA ShortSeqs ==
    ASSUME NEW S, NEW x \in S, NEW y \in S
    PROVE  <<>> \in Seq(S) /\ <<x>> \in Seq(S) /\ <<x, y>> \in Seq(S)
  OBVIOUS

LEMMA ConcatOfSeq ==
    ASSUME NEW S, NEW s \in Seq(S), NEW t \in Seq(S)
    PROVE  s \o t \in Seq(S)
  OBVIOUS

--------------------------------------------------------------------------------
(* The parser. *)

CleanPiece == [str : Seq(Character), type : Directives \cup {Raw}]

(* The inductive invariant of the parser. *)
ParserInv ==
    /\ format \in Formats \cup {<<>>} /\ format \in Seq(Character)
    /\ pos \in Nat /\ use \in Nat \cup {NPos}
    /\ formats \in Seq(CleanPiece)
    /\ parsing \in BOOLEAN
    /\ PositionsInOrder

LEMMA ParserStarts == ParserInit => ParserInv
  <1>1. <<>> \in Seq(Character) /\ <<>> \in Seq(CleanPiece)
    OBVIOUS
  <1>2. ParserInit => PositionsInOrder
    BY Zenon DEF ParserInit, PositionsInOrder
  <1>3. ParserInit => parsing \in BOOLEAN
    BY Zenon DEF ParserInit
  <1>4. QED BY <1>1, <1>2, <1>3 DEF ParserInit, ParserInv

LEMMA StartKeepsParserInv ==
    ASSUME ParserInv, NEW f \in Formats, StartParse(f)
    PROVE  ParserInv'
  <1>1. f \in Seq(Character) /\ f \in Seq(STRING)
    BY TextsAssumption, CharactersAreStrings
  <1>2. Find(f, 0) = NPos \/ Find(f, 0) \in 0 .. Len(f) - 1
    BY <1>1, FindIsRight
  <1>3. QED BY <1>1, <1>2 DEF ParserInv, StartParse, PositionsInOrder, NPos

LEMMA ParseStepKeepsParserInv ==
    ASSUME ParserInv, ParseStep
    PROVE  ParserInv'
  <1> USE DEF ParserInv, PositionsInOrder
  <1>0. format \in Seq(STRING) /\ Len(format) \in Nat
    BY CharactersAreStrings
  <1>1. CASE ParseDirective
    <2>1. use \in Nat /\ pos <= use /\ use + 1 < Len(format)
      BY <1>0, <1>1, DirectivesAssumption DEF ParseDirective, CharAt, NPos
    <2>2. Find(format, use + 2) = NPos \/ Find(format, use + 2) \in (use + 2) .. Len(format) - 1
      BY <1>0, <2>1, FindIsRight
    <2>3. Substr(pos, use - pos) \in Seq(Character)
      BY <1>0, <2>1, SubstrOfSeq DEF Substr
    <2>4. formats' \in Seq(CleanPiece)
      BY <1>1, <2>3 DEF ParseDirective, CleanPiece
    <2>5. QED BY <1>0, <1>1, <2>1, <2>2, <2>4 DEF ParseDirective, NPos
  <1>2. CASE SkipPercent
    <2>1. use \in Nat /\ pos <= use /\ use < Len(format)
      BY <1>0, <1>2 DEF SkipPercent, NPos
    <2>2. Find(format, use + 1) = NPos \/ Find(format, use + 1) \in (use + 1) .. Len(format) - 1
      BY <1>0, <2>1, FindIsRight
    <2>3. QED BY <1>0, <1>2, <2>1, <2>2 DEF SkipPercent, NPos
  <1>3. CASE ParseRest
    <2>1. Substr(pos, Len(format) - pos) \in Seq(Character)
      BY <1>0, <1>3, SubstrOfSeq DEF Substr, ParseRest
    <2>2. formats' \in Seq(CleanPiece)
      BY <1>3, <2>1 DEF ParseRest, CleanPiece
    <2>3. QED BY <1>3, <2>2 DEF ParseRest
  <1>4. QED BY <1>1, <1>2, <1>3 DEF ParseStep

LEMMA ParserFrame ==
    ASSUME ParserInv, UNCHANGED parserVars
    PROVE  ParserInv'
  BY DEF ParserInv, PositionsInOrder, parserVars

--------------------------------------------------------------------------------
(* The buffer. *)

(* The bytes of the line in the buffer: the last one of a full buffer gives    *)
(* way to the newline.                                                         *)
Kept == 1 .. AtMost(ret, size - 1)

BufferInv ==
    /\ size \in Nat \ {0}
    /\ buf \in [1 .. size -> STRING]
    /\ ret \in Nat /\ ret <= size
    /\ overrun = FALSE
    /\ \A i \in Kept : buf[i] \in Character

(* Writing bytes behind ret, of which n are counted and of these all but one   *)
(* in the last place of the buffer are characters, keeps BufferInv.            *)
LEMMA StoreKeepsBufferInv ==
    ASSUME BufferInv, size' = size,
           NEW bytes \in Seq(STRING), NEW n \in Nat,
           n <= Len(bytes), ret + Len(bytes) <= size,
           \A i \in 1 .. n : ret + i < size => bytes[i] \in Character,
           Store(bytes, n)
    PROVE  BufferInv' /\ ret' = ret + n
  <1> USE DEF BufferInv, AtMost, Kept
  <1>1. /\ buf' = [i \in 1 .. size |-> IF i - ret \in 1 .. Len(bytes) THEN bytes[i - ret] ELSE buf[i]]
        /\ ret' = ret + n /\ overrun' = FALSE
    <2>1. ~(ret + Len(bytes) > size)
      OBVIOUS
    <2>2. overrun' = FALSE
      BY <2>1, Zenon DEF Store
    <2>3. DOMAIN bytes = 1 .. Len(bytes) /\ DOMAIN buf = 1 .. size
      OBVIOUS
    <2>4. QED BY <2>2, <2>3 DEF Store, Put
  <1>2. buf' \in [1 .. size -> STRING]
    BY <1>1
  <1>3. ret' \in Nat /\ ret' <= size
    BY <1>1
  <1>4. ASSUME NEW i \in Kept' PROVE buf'[i] \in Character
    <2>1. i \in 1 .. size /\ i <= ret + n /\ i < size
      BY <1>1
    <2>2. CASE i <= ret
      BY <1>1, <2>1, <2>2
    <2>3. CASE i > ret
      <3>1. i - ret \in 1 .. n /\ ret + (i - ret) < size
        BY <2>1, <2>3
      <3>2. buf'[i] = bytes[i - ret]
        BY <1>1, <2>1, <3>1
      <3>3. QED BY <3>1, <3>2
    <2>4. QED BY <2>1, <2>2, <2>3
  <1>5. QED BY <1>1, <1>2, <1>3, <1>4

(* What memcpy and snprintf write fits into the room, and their counted bytes  *)
(* are characters but for the NUL that snprintf puts at the end of the buffer. *)
LEMMA CopiedFits ==
    ASSUME BufferInv, NEW t \in Seq(Character)
    PROVE  LET n == AtMost(Len(t), Room)
               bytes == Copied(t)
           IN  /\ bytes \in Seq(STRING) /\ n \in Nat
               /\ n <= Len(bytes) /\ ret + Len(bytes) <= size
               /\ \A i \in 1 .. n : bytes[i] \in Character
  <1>1. Room \in Nat /\ AtMost(Len(t), Room) \in 0 .. Len(t)
    BY DEF BufferInv, AtMost, Room
  <1>2. Copied(t) \in Seq(Character) /\ Len(Copied(t)) = AtMost(Len(t), Room)
    BY <1>1, SubstrOfSeq DEF Copied
  <1>3. Copied(t) \in Seq(STRING)
    BY <1>2, CharactersAreStrings
  <1>4. AtMost(Len(t), Room) <= Room
    BY <1>1 DEF AtMost
  <1>5. QED BY <1>1, <1>2, <1>3, <1>4 DEF BufferInv, Room

LEMMA PrintfFits ==
    ASSUME BufferInv, ret < size, NEW t \in Seq(Character)
    PROVE  LET n == AtMost(Len(t), Room)
               bytes == Printf(t)
           IN  /\ bytes \in Seq(STRING) /\ n \in Nat
               /\ n <= Len(bytes) /\ ret + Len(bytes) <= size
               /\ \A i \in 1 .. n : ret + i < size => bytes[i] \in Character
  <1> DEFINE m == AtMost(Len(t), Room - 1)
             s == SubSeq(t, 1, m)
  <1>1. Room \in Nat \ {0} /\ m \in 0 .. Len(t) /\ m <= Room - 1
    BY DEF BufferInv, AtMost, Room
  <1>2. s \in Seq(Character) /\ Len(s) = m
    BY <1>1, SubstrOfSeq
  <1>3. s \in Seq(STRING)
    BY <1>2, CharactersAreStrings
  <1>4. Printf(t) \in Seq(STRING) /\ Len(Printf(t)) = m + 1
        /\ \A i \in 1 .. m : Printf(t)[i] = s[i]
    <2> HIDE DEF m, s
    <2>1. Printf(t) = Append(s, EndOfString)
      BY DEF Printf, m, s
    <2>2. EndOfString \in STRING
      BY CharactersAssumption
    <2>3. Len(s) \in Nat
      BY <1>3
    <2>4. Append(s, EndOfString) \in Seq(STRING)
      BY <1>3, <2>2, AppendOfSeq
    <2>5. Len(Append(s, EndOfString)) = Len(s) + 1
      BY <1>3
    <2>6. \A i \in 1 .. Len(s) : Append(s, EndOfString)[i] = s[i]
      BY <1>3
    <2>7. QED BY <1>2, <2>1, <2>4, <2>5, <2>6
  <1>5. AtMost(Len(t), Room) \in Nat /\ AtMost(Len(t), Room) <= m + 1
    BY <1>1 DEF AtMost
  <1>6. ret + (m + 1) <= size
    BY <1>1 DEF BufferInv, Room
  <1>7. ASSUME NEW i \in 1 .. AtMost(Len(t), Room), ret + i < size
        PROVE  Printf(t)[i] \in Character
    <2>1. i \in 1 .. m
      BY <1>1, <1>5, <1>7 DEF BufferInv, Room, AtMost
    <2>2. s[i] \in Character
      BY <1>2, <2>1
    <2>3. QED BY <1>4, <2>1, <2>2
  <1> HIDE DEF m, s
  <1>8. QED BY <1>4, <1>5, <1>6, <1>7

LEMMA CopyKeepsBufferInv ==
    ASSUME BufferInv, size' = size, NEW t \in Seq(Character),
           Store(Copied(t), AtMost(Len(t), Room))
    PROVE  BufferInv'
  BY CopiedFits, StoreKeepsBufferInv

LEMMA PrintKeepsBufferInv ==
    ASSUME BufferInv, size' = size, ret < size, NEW t \in Seq(Character),
           Store(Printf(t), AtMost(Len(t), Room))
    PROVE  BufferInv'
  BY PrintfFits, StoreKeepsBufferInv

(* The headers of the special formats consist of characters. *)
LEMMA HeaderIsSeq ==
    ASSUME text \in Texts
    PROVE  HeaderOf(special, text) \in Seq(Character)
  <1>1. \A d \in {"L", "N", "T", "P", "t", "f", "F", "l"} : text[d] \in Seq(Character)
    BY TextsAssumption, LettersAssumption
  <1>2. /\ <<" ">> \in Seq(Character) /\ <<":">> \in Seq(Character)
        /\ <<"(">> \in Seq(Character) /\ <<")", " ">> \in Seq(Character)
    BY CharactersAssumption, ShortSeqs
  <1>3. verbose_format(text) \in Seq(Character)
    BY <1>1, <1>2, ConcatOfSeq DEF verbose_format
  <1>4. middle_format(text) \in Seq(Character)
    BY <1>1, <1>2, ConcatOfSeq DEF middle_format
  <1>5. simple_format(text) \in Seq(Character)
    BY <1>1, <1>2, ConcatOfSeq DEF simple_format
  <1>6. QED BY <1>3, <1>4, <1>5 DEF HeaderOf

--------------------------------------------------------------------------------
(* The inductive invariant, with the types that its own proof needs.           *)

Steps == {"new", "parse", "idle", "raw", "handler", "header", "message", "newline", "crashed"}

IInv ==
    /\ ParserInv
    /\ BufferInv
    /\ step \in Steps /\ special \in {"none", "verbose", "middle", "simple"}
    /\ size \in Sizes /\ text \in Texts
    /\ step \notin {"new", "parse"} => formats # <<>>
    /\ it \in Nat \ {0}
    /\ step \in {"raw", "handler"} => it <= Len(formats)
    /\ step \in {"raw", "handler", "header", "message"} => ret < size
    /\ line \in Seq(Character)

LEMMA IInvInit == Init => IInv
  <1> SUFFICES ASSUME Init PROVE IInv
    OBVIOUS
  <1>1. ParserInv
    BY ParserStarts DEF Init
  <1>2. size \in Nat \ {0}
    BY SizesAssumption DEF Init
  <1>3. buf \in [1 .. size -> STRING]
    BY CharactersAssumption DEF Init
  <1>4. Kept = {}
    BY <1>2 DEF Init, Kept, AtMost
  <1>5. overrun = FALSE
    BY DEF Init
  <1>6. BufferInv
    BY <1>2, <1>3, <1>4, <1>5 DEF Init, BufferInv
  <1>7. <<>> \in Seq(Character)
    OBVIOUS
  <1>8. QED BY <1>1, <1>6, <1>7 DEF Init, IInv, Steps

(* The steps that do not write to the buffer. *)
LEMMA ConstructorKeepsIInv ==
    ASSUME IInv, Construct \/ parseFormat
    PROVE  IInv'
  <1>1. ParserInv'
    BY StartKeepsParserInv, ParseStepKeepsParserInv DEF IInv, Construct, parseFormat
  <1>2. BufferInv'
    BY DEF IInv, Construct, parseFormat, BufferInv, Kept, lineVars
  <1>3. CASE Construct
    BY <1>1, <1>2, <1>3 DEF Construct, IInv, Steps, lineVars
  <1>4. CASE parseFormat
    <2>1. step' \in {"parse", "idle"} /\ special' \in {"none", "verbose", "middle", "simple"}
      BY <1>4 DEF parseFormat, IInv, SpecialOf
    <2>2. ASSUME step' = "idle" PROVE formats' # <<>>
      <3>1. ~parsing'
        BY <1>4, <2>2, Zenon DEF parseFormat
      <3>2. parsing
        BY <1>4 DEF parseFormat, ParseStep, ParseDirective, SkipPercent, ParseRest
      <3>3. ParseRest
        BY <1>4, <3>1, <3>2 DEF parseFormat, ParseStep, ParseDirective, SkipPercent
      <3>4. formats \in Seq(CleanPiece)
        BY DEF IInv, ParserInv
      <3>5. QED BY <3>3, <3>4 DEF ParseRest
    <2>3. QED BY <1>1, <1>2, <1>4, <2>1, <2>2 DEF parseFormat, IInv, Steps, lineVars
  <1>5. QED BY <1>3, <1>4

LEMMA StartLineKeepsIInv ==
    ASSUME IInv, StartLine
    PROVE  IInv'
  <1>1. ParserInv'
    BY ParserFrame DEF IInv, StartLine
  <1>2. size' = size /\ size \in Nat \ {0} /\ ret' = 0 /\ overrun' = overrun
    BY DEF IInv, BufferInv, StartLine
  <1>3. buf' \in [1 .. size -> STRING]
    BY CharactersAssumption DEF StartLine
  <1>4. Kept' = {}
    BY <1>2 DEF Kept, AtMost
  <1>5. BufferInv'
    BY <1>2, <1>3, <1>4 DEF BufferInv, IInv
  <1>6. Len(formats) \in Nat \ {0}
    BY DEF IInv, ParserInv, StartLine
  <1>7. QED BY <1>1, <1>2, <1>5, <1>6 DEF IInv, Steps, StartLine, parserVars

(* The steps that write to the buffer. *)
LEMMA PieceIsClean ==
    ASSUME IInv, step \in {"raw", "handler"}
    PROVE  formats[it] \in CleanPiece
  <1>1. formats \in Seq(CleanPiece) /\ it \in 1 .. Len(formats)
    BY DEF IInv, ParserInv
  <1>2. QED BY <1>1

LEMMA AddRawKeepsIInv ==
    ASSUME IInv, AddRaw
    PROVE  IInv'
  <1>1. ParserInv'
    BY ParserFrame DEF IInv, AddRaw
  <1>2. formats[it].str \in Seq(Character)
    BY PieceIsClean DEF AddRaw, CleanPiece
  <1>3. BufferInv'
    BY <1>2, CopyKeepsBufferInv DEF IInv, AddRaw
  <1>4. ret' >= size \/ ret' < size
    BY <1>3 DEF BufferInv, AddRaw
  <1>5. QED BY <1>1, <1>3, <1>4 DEF IInv, Steps, AddRaw, parserVars

LEMMA AddDirectiveKeepsIInv ==
    ASSUME IInv, AddDirective
    PROVE  IInv'
  <1> DEFINE type == formats[it].type
             t == IF type = Raw THEN <<>>
                  ELSE IF type = Message /\ argsRead THEN <<Garbage>> ELSE text[type]
  <1>1. ParserInv'
    BY ParserFrame DEF IInv, AddDirective
  <1>2. type \in Directives \cup {Raw}
    BY PieceIsClean DEF AddDirective, CleanPiece
  <1>3. t \in Seq(Character)
    <2>1. <<>> \in Seq(Character) /\ <<Garbage>> \in Seq(Character)
      BY CharactersAssumption, ShortSeqs
    <2>2. type # Raw => text[type] \in Seq(Character)
      BY <1>2, TextsAssumption DEF IInv
    <2>3. QED BY <2>1, <2>2
  <1>4. Store(IF type \in Printed THEN Printf(t) ELSE Copied(t), AtMost(Len(t), Room))
    BY DEF AddDirective
  <1>5. size' = size /\ ret < size
    BY DEF AddDirective, IInv
  <1> HIDE DEF type, t
  <1>6. BufferInv'
    BY <1>3, <1>4, <1>5, CopyKeepsBufferInv, PrintKeepsBufferInv DEF IInv
  <1>7. ret' >= size \/ ret' < size
    BY <1>6 DEF BufferInv, AddDirective
  <1>8. Len(formats) \in Nat /\ it <= Len(formats)
    BY DEF IInv, ParserInv, AddDirective
  <1>9. QED BY <1>1, <1>6, <1>7, <1>8
            DEF IInv, Steps, AddDirective, NextPiece, LeaveLoop, parserVars

(* A failed snprintf changes only bytes that are not counted. *)
LEMMA FailureKeepsIInv ==
    ASSUME IInv, HandlerFails \/ SpecialFails
    PROVE  IInv'
  <1>1. ParserInv'
    BY ParserFrame DEF IInv, HandlerFails, SpecialFails
  <1>2. /\ size' = size /\ ret' = ret /\ overrun' = overrun
        /\ buf' = [i \in 1 .. size |-> IF i <= ret THEN buf[i] ELSE Unset]
    BY DEF HandlerFails, SpecialFails
  <1>3. buf' \in [1 .. size -> STRING]
    BY <1>2, CharactersAssumption DEF IInv, BufferInv
  <1>4. \A i \in Kept' : buf'[i] \in Character
    BY <1>2 DEF IInv, BufferInv, Kept, AtMost
  <1>5. BufferInv'
    BY <1>2, <1>3, <1>4 DEF IInv, BufferInv
  <1>6. Len(formats) \in Nat
    BY DEF IInv, ParserInv
  <1>7. QED BY <1>1, <1>2, <1>5, <1>6
            DEF IInv, Steps, HandlerFails, SpecialFails, NextPiece, parserVars

LEMMA SpecialKeepsIInv ==
    ASSUME IInv, AddHeader \/ AddMessage
    PROVE  IInv'
  <1>1. ParserInv'
    BY ParserFrame DEF IInv, AddHeader, AddMessage
  <1>2. size' = size /\ ret < size
    BY DEF IInv, AddHeader, AddMessage
  <1>3. BufferInv'
    <2>1. HeaderOf(special, text) \in Seq(Character)
      BY HeaderIsSeq DEF IInv
    <2>2. text[Message] \in Seq(Character)
      BY TextsAssumption, LettersAssumption DEF IInv, Message
    <2>3. QED BY <1>2, <2>1, <2>2, PrintKeepsBufferInv DEF IInv, AddHeader, AddMessage
  <1>4. ret' >= size \/ ret' < size
    BY <1>2, <1>3 DEF BufferInv
  <1>5. QED BY <1>1, <1>3, <1>4 DEF IInv, Steps, AddHeader, AddMessage, parserVars

LEMMA EndLineKeepsIInv ==
    ASSUME IInv, EndLine
    PROVE  IInv'
  <1> DEFINE msg_len == IF ret >= size THEN size - 1 ELSE ret
  <1>1. ParserInv'
    BY ParserFrame DEF IInv, EndLine
  <1>2. size \in Nat \ {0} /\ msg_len \in Nat /\ msg_len + 1 <= size /\ 1 .. msg_len = Kept
    BY DEF IInv, BufferInv, Kept, AtMost
  <1>3. overrun' = FALSE
    <2>1. ~(msg_len + 1 > size)
      BY <1>2
    <2>2. QED BY <2>1, Zenon DEF IInv, BufferInv, EndLine
  <1>4. BufferInv'
    BY <1>3 DEF IInv, BufferInv, Kept, EndLine
  <1>5. line' \in Seq(Character)
    <2>1. line' = Append(SubSeq(buf, 1, msg_len), Newline)
      BY DEF EndLine
    <2>2. SubSeq(buf, 1, msg_len) = [i \in 1 .. msg_len |-> buf[i]]
      BY <1>2 DEF IInv, BufferInv
    <2>3. \A i \in 1 .. msg_len : buf[i] \in Character
      BY <1>2 DEF IInv, BufferInv
    <2> HIDE DEF msg_len
    <2>4. [i \in 1 .. msg_len |-> buf[i]] \in Seq(Character)
      BY <1>2, <2>3
    <2>5. QED BY <2>1, <2>2, <2>4, CharactersAssumption, AppendOfSeq
  <1>6. QED BY <1>1, <1>4, <1>5 DEF IInv, Steps, EndLine, parserVars

THEOREM IInvStep == IInv /\ [Next]_vars => IInv'
  <1> SUFFICES ASSUME IInv, [Next]_vars PROVE IInv'
    OBVIOUS
  <1>1. CASE Construct \/ parseFormat
    BY <1>1, ConstructorKeepsIInv
  <1>2. CASE StartLine
    BY <1>2, StartLineKeepsIInv
  <1>3. CASE AddRaw
    BY <1>3, AddRawKeepsIInv
  <1>4. CASE AddDirective
    BY <1>4, AddDirectiveKeepsIInv
  <1>5. CASE HandlerFails \/ SpecialFails
    BY <1>5, FailureKeepsIInv
  <1>6. CASE AddHeader \/ AddMessage
    BY <1>6, SpecialKeepsIInv
  <1>7. CASE Crash
    <2>1. ParserInv'
      BY <1>7, ParserFrame DEF IInv, Crash
    <2>2. QED BY <1>7, <2>1 DEF Crash, IInv, BufferInv, Kept, Steps, lineVars, parserVars
  <1>8. CASE EndLine
    BY <1>8, EndLineKeepsIInv
  <1>9. CASE UNCHANGED vars
    <2>1. ParserInv'
      BY <1>9, ParserFrame DEF IInv, vars
    <2>2. QED BY <1>9, <2>1 DEF vars, IInv, BufferInv, Kept, lineVars, parserVars
  <1>10. QED BY <1>1, <1>2, <1>3, <1>4, <1>5, <1>6, <1>7, <1>8, <1>9 DEF Next, format_

LEMMA Inductive == Spec => []IInv
  BY IInvInit, IInvStep, PTL DEF Spec

(* Every variable has its type: what IInv does not say of them is simple. *)
RestTyped ==
    /\ lines \in Nat
    /\ argsRead \in BOOLEAN /\ failed \in BOOLEAN

LEMMA RestTypedStep ==
    ASSUME RestTyped, [Next]_vars
    PROVE  RestTyped'
  <1> USE DEF RestTyped
  <1>1. CASE Construct
    BY <1>1 DEF Construct, StartParse, lineVars
  <1>2. CASE parseFormat
    BY <1>2 DEF parseFormat, lineVars
  <1>3. CASE StartLine
    BY <1>3 DEF StartLine
  <1>4. CASE AddRaw \/ AddHeader \/ AddMessage
    BY <1>4 DEF AddRaw, AddHeader, AddMessage
  <1>5. CASE AddDirective \/ HandlerFails
    <2>1. lines' = lines
      BY <1>5 DEF AddDirective, HandlerFails
    <2>2. argsRead' \in BOOLEAN /\ failed' \in BOOLEAN
      BY <1>5, Zenon DEF AddDirective, HandlerFails
    <2>3. QED BY <2>1, <2>2, Zenon
  <1>6. CASE SpecialFails
    BY <1>6 DEF SpecialFails
  <1>7. CASE Crash
    BY <1>7 DEF Crash, lineVars, parserVars
  <1>8. CASE EndLine
    BY <1>8 DEF EndLine
  <1>9. CASE UNCHANGED vars
    BY <1>9 DEF vars, lineVars, parserVars
  <1>10. QED BY <1>1, <1>2, <1>3, <1>4, <1>5, <1>6, <1>7, <1>8, <1>9 DEF Next, format_

(* Every variable keeps its type, whatever the format and the values of directives. *)
THEOREM TypeCorrect == Spec => []TypeOK
  <1>1. Init => RestTyped
    <2> SUFFICES ASSUME Init PROVE RestTyped
      OBVIOUS
    <2>1. lines = 0 /\ argsRead = FALSE /\ failed = FALSE
      BY DEF Init
    <2>2. QED BY <2>1 DEF RestTyped
  <1>2. RestTyped /\ [Next]_vars => RestTyped'
    BY RestTypedStep
  <1>3. IInv /\ RestTyped => TypeOK
    <2> SUFFICES ASSUME IInv, RestTyped PROVE TypeOK
      OBVIOUS
    <2>1. Seq(CleanPiece) \subseteq Seq(Piece)
      <3>1. \A p \in CleanPiece : p \in Piece
        BY CharactersAreStrings DEF CleanPiece, Piece
      <3>2. QED BY <3>1
    <2>2. ParserTypeOK
      BY <2>1 DEF ParserTypeOK, IInv, ParserInv, RestTyped
    <2>3. line \in Seq(STRING)
      BY CharactersAreStrings DEF IInv
    <2>4. ret \in Nat /\ buf \in [1 .. size -> STRING]
      BY DEF IInv, BufferInv
    <2>5. argsRead \in BOOLEAN /\ failed \in BOOLEAN /\ overrun \in BOOLEAN
      BY Zenon DEF IInv, BufferInv, RestTyped
    <2>6. {argsRead, failed, overrun} \subseteq BOOLEAN
      BY <2>5, Zenon
    <2>7. QED BY <2>2, <2>3, <2>4, <2>6 DEF TypeOK, IInv, Steps, RestTyped
  <1>4. QED BY <1>1, <1>2, <1>3, Inductive, PTL DEF Spec

(* The assert of the parser's loop holds for every format, and its substr()   *)
(* calls do not throw (Formatter.cc, lines 252-395).                           *)
THEOREM ParserStaysInOrder == Spec => []PositionsInOrder
  <1>1. IInv => PositionsInOrder
    BY DEF IInv, ParserInv
  <1>2. QED BY <1>1, Inductive, PTL

(* Whatever the format, the values and the size of the buffer, and whether an *)
(* snprintf fails or not, format() and writeLog() write inside the buffer.     *)
THEOREM WritesInsideBuffer == Spec => []StaysInBuffer
  <1>1. IInv => StaysInBuffer
    <2>1. IInv => ~overrun
      BY Zenon DEF IInv, BufferInv
    <2>2. IInv => ret <= size
      BY DEF IInv, BufferInv
    <2>3. QED BY <2>1, <2>2 DEF StaysInBuffer
  <1>2. QED BY <1>1, Inductive, PTL

(* Every byte of every line that reaches an appender was set by format() or   *)
(* is the newline of writeLog(), and none is a NUL.                            *)
THEOREM LinesAreSet == Spec => []NothingUnset
  <1>1. IInv => NothingUnset
    <2> SUFFICES ASSUME IInv, NEW i \in 1 .. Len(line)
                 PROVE  line[i] \notin {Unset, EndOfString}
      BY DEF NothingUnset
    <2>1. line \in Seq(Character)
      BY DEF IInv
    <2>2. line[i] \in Character
      BY <2>1
    <2>3. QED BY <2>2 DEF Character
  <1>2. QED BY <1>1, Inductive, PTL

--------------------------------------------------------------------------------
(* The line that the first characters of a format describe.                    *)
LineUpTo(f, t) ==
    CHOOSE upTo : upTo = [n \in 0 .. Len(f) |->
                            IF n = 0 THEN <<>> ELSE upTo[n - 1] \o Stands(f, n, t)]

LEMMA DescribedIsLast ==
    ASSUME NEW f, NEW t
    PROVE  Described(f, t) = LineUpTo(f, t)[Len(f)]
  BY Zenon DEF Described, LineUpTo

LEMMA StandsIsSeq ==
    ASSUME NEW f \in Seq(Character), NEW t \in [Directives -> Seq(Character)],
           NEW n \in 1 .. Len(f)
    PROVE  Stands(f, n, t) \in Seq(Character)
  <1>1. <<>> \in Seq(Character) /\ <<f[n]>> \in Seq(Character)
    OBVIOUS
  <1>2. IsDirective(f, n - 1) => t[f[n]] \in Seq(Character)
    BY DEF IsDirective
  <1>3. QED BY <1>1, <1>2 DEF Stands

LEMMA LineUpToIs ==
    ASSUME NEW f \in Seq(Character), NEW t \in [Directives -> Seq(Character)]
    PROVE  /\ LineUpTo(f, t)[0] = <<>>
           /\ \A n \in 1 .. Len(f) : LineUpTo(f, t)[n] = LineUpTo(f, t)[n - 1] \o Stands(f, n, t)
           /\ \A n \in 0 .. Len(f) : LineUpTo(f, t)[n] \in Seq(Character)
  <1>1. PICK S : S = Seq(Character)
    OBVIOUS
  <1>2. PICK m \in Nat : m = Len(f)
    OBVIOUS
  <1>3. PICK w : w = [n \in 1 .. m |-> Stands(f, n, t)]
    OBVIOUS
  <1> DEFINE next == [n \in 1 .. m |-> [s \in S |-> s \o w[n]]]
  <1>4. \A n \in 1 .. m : \A s \in S : next[n][s] \in S /\ next[n][s] = s \o w[n]
    <2> SUFFICES ASSUME NEW n \in 1 .. m, NEW s \in S
                 PROVE  next[n][s] \in S /\ next[n][s] = s \o w[n]
      OBVIOUS
    <2>1. w[n] \in Seq(Character) /\ s \in Seq(Character)
      BY <1>1, <1>2, <1>3, StandsIsSeq
    <2>2. s \o w[n] \in Seq(Character)
      BY <2>1, ConcatOfSeq
    <2>3. QED BY <1>1, <2>2
  <1>5. PICK g : IsRun(g, S, <<>>, m, next)
    <2> HIDE DEF next
    <2>1. <<>> \in S
      BY <1>1
    <2>2. QED BY <1>4, <2>1, RecursionExists, Zenon
  <1> HIDE DEF next
  <1>6. g \in [0 .. m -> S] /\ g[0] = <<>> /\ \A n \in 1 .. m : g[n] = next[n][g[n - 1]]
    BY <1>5 DEF IsRun
  <1>7. \A n \in 1 .. m : g[n - 1] \in S
    BY <1>6
  <1>8. \A n \in 1 .. m : g[n] = g[n - 1] \o w[n]
    BY <1>4, <1>6, <1>7
  <1>9. \A n \in 1 .. m : g[n] = g[n - 1] \o Stands(f, n, t)
    BY <1>3, <1>8
  <1>10. g = [n \in 0 .. Len(f) |-> IF n = 0 THEN <<>> ELSE g[n - 1] \o Stands(f, n, t)]
    BY <1>2, <1>6, <1>9
  <1>11. PICK u : u = LineUpTo(f, t)
    OBVIOUS
  <1>12. u = [n \in 0 .. Len(f) |-> IF n = 0 THEN <<>> ELSE u[n - 1] \o Stands(f, n, t)]
    BY <1>10, <1>11 DEF LineUpTo
  <1>13. u[0] = <<>> /\ \A n \in 1 .. m : u[n] = u[n - 1] \o w[n]
    <2>1. u[0] = <<>>
      BY <1>2, <1>12
    <2>2. ASSUME NEW n \in 1 .. m PROVE u[n] = u[n - 1] \o w[n]
      <3>1. n \in 0 .. Len(f) /\ n # 0
        BY <1>2
      <3>2. u[n] = u[n - 1] \o Stands(f, n, t)
        BY <1>12, <3>1
      <3>3. w[n] = Stands(f, n, t)
        BY <1>3
      <3>4. QED BY <3>2, <3>3
    <2>3. QED BY <2>1, <2>2
  <1> DEFINE Good == {n \in Nat : n <= m => u[n] \in S}
  <1>14. Nat \subseteq Good
    <2>1. 0 \in Good
      <3>1. u[0] \in S
        BY <1>1, <1>13
      <3>2. QED BY <3>1
    <2>2. ASSUME NEW n \in Nat, n \in Good PROVE n + 1 \in Good
      <3> SUFFICES ASSUME n + 1 <= m PROVE u[n + 1] \in S
        OBVIOUS
      <3>1. n + 1 \in 1 .. m /\ u[n] \in S /\ (n + 1) - 1 = n
        BY <2>2
      <3>2. u[n + 1] = u[n] \o w[n + 1]
        <4>1. u[n + 1] = u[(n + 1) - 1] \o w[n + 1]
          BY <1>13, <3>1
        <4>2. QED BY <3>1, <4>1
      <3>3. next[n + 1][u[n]] \in S /\ next[n + 1][u[n]] = u[n] \o w[n + 1]
        BY <1>4, <3>1
      <3>4. QED BY <3>2, <3>3
    <2> HIDE DEF Good
    <2>3. QED BY <2>1, <2>2, Induction
  <1>15. QED BY <1>1, <1>2, <1>3, <1>11, <1>13, <1>14

--------------------------------------------------------------------------------
(* Runs of it.                                                                  *)
Begins(s, whole) == Len(s) <= Len(whole) /\ \A i \in 1 .. Len(s) : whole[i] = s[i]

LEMMA ConcatIs ==
    ASSUME NEW S, NEW s \in Seq(S), NEW t \in Seq(S)
    PROVE  /\ s \o t \in Seq(S) /\ Len(s \o t) = Len(s) + Len(t)
           /\ \A i \in 1 .. Len(s) : (s \o t)[i] = s[i]
           /\ \A i \in 1 .. Len(t) : (s \o t)[Len(s) + i] = t[i]
  OBVIOUS

LEMMA SameSeq ==
    ASSUME NEW S, NEW s \in Seq(S), NEW t \in Seq(S), Len(s) = Len(t),
           \A i \in 1 .. Len(s) : s[i] = t[i]
    PROVE  s = t
  OBVIOUS

LEMMA ConcatAssociates ==
    ASSUME NEW S, NEW s \in Seq(S), NEW t \in Seq(S), NEW u \in Seq(S)
    PROVE  (s \o t) \o u = s \o (t \o u)
  OBVIOUS

LEMMA ConcatNothing ==
    ASSUME NEW S, NEW s \in Seq(S)
    PROVE  s \o <<>> = s
  OBVIOUS

LEMMA OneMore ==
    ASSUME NEW S, NEW s \in Seq(S), NEW a \in Nat, NEW n \in Nat, a <= n, n + 1 <= Len(s)
    PROVE  /\ SubSeq(s, a + 1, n) \in Seq(S) /\ SubSeq(s, a + 1, n + 1) \in Seq(S)
           /\ SubSeq(s, a + 1, n) \o <<s[n + 1]>> = SubSeq(s, a + 1, n + 1)
  <1>1. SubSeq(s, a + 1, n) \in Seq(S) /\ SubSeq(s, a + 1, n + 1) \in Seq(S)
    BY SubstrOfSeq
  <1>2. QED BY <1>1

LEMMA LineGrows ==
    ASSUME NEW f \in Seq(Character), NEW t \in [Directives -> Seq(Character)],
           NEW n \in 0 .. Len(f)
    PROVE  Begins(LineUpTo(f, t)[n], LineUpTo(f, t)[Len(f)])
  <1>1. PICK u : u = LineUpTo(f, t)
    OBVIOUS
  <1>2. \A i \in 0 .. Len(f) : u[i] \in Seq(Character)
    BY <1>1, LineUpToIs
  <1> DEFINE Good == {k \in Nat : n + k <= Len(f) => Begins(u[n], u[n + k])}
  <1>3. 0 \in Good
    BY <1>2 DEF Begins
  <1>4. ASSUME NEW k \in Nat, k \in Good PROVE k + 1 \in Good
    <2> SUFFICES ASSUME n + (k + 1) <= Len(f) PROVE Begins(u[n], u[n + (k + 1)])
      OBVIOUS
    <2>1. PICK j \in 1 .. Len(f) : j = n + (k + 1) /\ j - 1 = n + k
      OBVIOUS
    <2>2. PICK here \in Seq(Character) : here = u[n]
      BY <1>2
    <2>3. PICK before \in Seq(Character) : before = u[j - 1]
      BY <1>2, <2>1
    <2>4. PICK new \in Seq(Character) : new = Stands(f, j, t)
      BY StandsIsSeq
    <2>5. u[j] = before \o new
      BY <1>1, <2>3, <2>4, LineUpToIs
    <2>6. Begins(here, before)
      BY <1>4, <2>1, <2>2, <2>3
    <2>7. Begins(here, before \o new)
      BY <2>6, ConcatIs DEF Begins
    <2>8. QED BY <2>1, <2>2, <2>5, <2>7
  <1>5. Len(f) - n \in Good
    <2> HIDE DEF Good
    <2>1. Nat \subseteq Good /\ Len(f) - n \in Nat
      BY <1>3, <1>4, Induction
    <2>2. QED BY <2>1
  <1>6. QED BY <1>1, <1>5

(* Characters without a directive stand for themselves. *)
Spelled(u, f, a, n) == u[n] = u[a] \o SubSeq(f, a + 1, n)

LEMMA TextRun ==
    ASSUME NEW f \in Seq(Character), NEW t \in [Directives -> Seq(Character)],
           NEW a \in 0 .. Len(f), NEW b \in a .. Len(f),
           ~IsDirective(f, a), \A i \in a + 1 .. b : ~IsDirective(f, i)
    PROVE  LineUpTo(f, t)[b] = LineUpTo(f, t)[a] \o SubSeq(f, a + 1, b)
  <1>1. PICK u : u = LineUpTo(f, t)
    OBVIOUS
  <1>2. \A i \in 0 .. Len(f) : u[i] \in Seq(Character)
    BY <1>1, LineUpToIs
  <1> DEFINE Good == {k \in Nat : a + k <= b => Spelled(u, f, a, a + k)}
  <1>3. 0 \in Good
    <2>1. SubSeq(f, a + 1, a) = <<>>
      OBVIOUS
    <2>2. u[a] = u[a] \o <<>>
      BY <1>2, ConcatNothing
    <2>3. Spelled(u, f, a, a)
      BY <2>1, <2>2 DEF Spelled
    <2>4. a + 0 = a
      OBVIOUS
    <2>5. QED BY <2>3, <2>4
  <1>4. ASSUME NEW k \in Nat, k \in Good PROVE k + 1 \in Good
    <2> SUFFICES ASSUME a + (k + 1) <= b PROVE Spelled(u, f, a, a + (k + 1))
      OBVIOUS
    <2>0. a \in Nat /\ b \in Nat /\ Len(f) \in Nat /\ b <= Len(f)
      OBVIOUS
    <2>1. PICK n \in Nat : n = a + k /\ n + 1 = a + (k + 1) /\ a <= n /\ n + 1 <= b
      BY <2>0
    <2>2. n + 1 \in 1 .. Len(f) /\ ~IsDirective(f, n + 1)
      BY <2>1
    <2>3. ~IsDirective(f, (n + 1) - 1)
      <3>1. n = a \/ n \in a + 1 .. b
        BY <2>1
      <3>2. ~IsDirective(f, n)
        BY <3>1
      <3>3. QED BY <3>2
    <2>4. Stands(f, n + 1, t) = <<f[n + 1]>>
      BY <2>2, <2>3 DEF Stands
    <2>5. u[n + 1] = u[n] \o <<f[n + 1]>>
      <3>1. u[n + 1] = u[(n + 1) - 1] \o Stands(f, n + 1, t)
        BY <1>1, <2>2, LineUpToIs
      <3>2. (n + 1) - 1 = n
        OBVIOUS
      <3>3. QED BY <2>4, <3>1, <3>2
    <2>6. PICK s \in Seq(Character) : s = u[a]
      BY <1>2
    <2>7. PICK p \in Seq(Character) : p = SubSeq(f, a + 1, n)
      <3>1. n + 1 <= Len(f)
        BY <2>0, <2>1
      <3>2. QED BY <2>0, <2>1, <3>1, OneMore
    <2>8. PICK c \in Seq(Character) : c = <<f[n + 1]>>
      <3>1. f[n + 1] \in Character
        BY <2>2
      <3>2. QED BY <3>1, ShortSeqs
    <2>9. u[n] = s \o p
      <3>1. a + k <= b
        BY <2>0, <2>1
      <3>2. Spelled(u, f, a, n)
        BY <1>4, <2>1, <3>1
      <3>3. QED BY <2>6, <2>7, <3>2 DEF Spelled
    <2>10. p \o c = SubSeq(f, a + 1, n + 1)
      <3>1. n + 1 <= Len(f)
        BY <2>0, <2>1
      <3>2. QED BY <2>0, <2>1, <2>7, <2>8, <3>1, OneMore
    <2>11. (s \o p) \o c = s \o (p \o c)
      BY ConcatAssociates, SMTT(30)
    <2>12. u[n + 1] = s \o (p \o c)
      BY <2>5, <2>8, <2>9, <2>11
    <2>13. QED BY <2>1, <2>6, <2>10, <2>12 DEF Spelled
  <1>5. b - a \in Good
    <2> HIDE DEF Good
    <2>1. Nat \subseteq Good /\ b - a \in Nat
      BY <1>3, <1>4, Induction
    <2>2. QED BY <2>1
  <1>6. a + (b - a) = b /\ b \in Nat
    OBVIOUS
  <1>7. Spelled(u, f, a, b)
    <2>1. a + (b - a) <= b => Spelled(u, f, a, a + (b - a))
      BY <1>5
    <2>2. QED BY <1>6, <2>1
  <1>8. QED BY <1>1, <1>7 DEF Spelled

(* A percent sign and its letter stand for the value of the directive. *)
LEMMA DirectiveRun ==
    ASSUME NEW f \in Seq(Character), NEW t \in [Directives -> Seq(Character)],
           NEW b \in Nat, IsDirective(f, b + 1)
    PROVE  LineUpTo(f, t)[b + 2] = LineUpTo(f, t)[b] \o t[f[b + 2]]
  <1>1. PICK u : u = LineUpTo(f, t)
    OBVIOUS
  <1>2. b + 1 \in 1 .. Len(f) /\ b + 2 \in 1 .. Len(f) /\ f[b + 2] \in Directives
    BY DEF IsDirective
  <1>3. u[b] \in Seq(Character)
    BY <1>1, <1>2, LineUpToIs
  <1>4. Stands(f, b + 1, t) = <<>>
    BY DEF Stands
  <1>5. ~IsDirective(f, b + 2)
    BY <1>2, DirectivesAssumption DEF IsDirective
  <1>6. Stands(f, b + 2, t) = t[f[b + 2]]
    <2>1. (b + 2) - 1 = b + 1
      OBVIOUS
    <2>2. QED BY <1>5, <2>1 DEF Stands
  <1>7. u[b + 1] = u[b] \o <<>>
    <2>1. u[b + 1] = u[(b + 1) - 1] \o Stands(f, b + 1, t)
      BY <1>1, <1>2, LineUpToIs
    <2>2. (b + 1) - 1 = b
      OBVIOUS
    <2>3. QED BY <1>4, <2>1, <2>2
  <1>8. u[b + 2] = u[b + 1] \o t[f[b + 2]]
    <2>1. u[b + 2] = u[(b + 2) - 1] \o Stands(f, b + 2, t)
      BY <1>1, <1>2, LineUpToIs
    <2>2. (b + 2) - 1 = b + 1
      OBVIOUS
    <2>3. QED BY <1>6, <2>1, <2>2
  <1>9. u[b + 1] = u[b]
    BY <1>3, <1>7, ConcatNothing
  <1>10. QED BY <1>1, <1>8, <1>9

LEMMA OneRun ==
    ASSUME NEW f \in Seq(Character), NEW t \in [Directives -> Seq(Character)],
           NEW b \in Nat, NEW n \in 1 .. Len(f), n = b + 1, ~IsDirective(f, b), ~IsDirective(f, n)
    PROVE  LineUpTo(f, t)[n] = LineUpTo(f, t)[b] \o <<f[n]>>
  <1>1. n - 1 = b
    OBVIOUS
  <1>2. Stands(f, n, t) = <<f[n]>>
    BY <1>1 DEF Stands
  <1>3. LineUpTo(f, t)[n] = LineUpTo(f, t)[n - 1] \o Stands(f, n, t)
    BY LineUpToIs
  <1>4. QED BY <1>1, <1>2, <1>3

LEMMA ShortConcat ==
    ASSUME NEW S, NEW x \in S, NEW y \in S
    PROVE  <<x>> \o <<y>> = <<x, y>>
  <1>1. <<x>> \in Seq(S) /\ <<y>> \in Seq(S) /\ <<x, y>> \in Seq(S)
    BY ShortSeqs
  <1>2. Len(<<x>>) = 1 /\ <<x>>[1] = x /\ Len(<<y>>) = 1 /\ <<y>>[1] = y
    OBVIOUS
  <1>3. Len(<<x, y>>) = 2 /\ <<x, y>>[1] = x /\ <<x, y>>[2] = y
    OBVIOUS
  <1>4. PICK v \in Seq(S) : v = <<x>> \o <<y>>
    BY <1>1, ConcatOfSeq
  <1>5. Len(v) = 2 /\ v[1] = x /\ v[1 + 1] = y
    BY <1>1, <1>2, <1>4, ConcatIs
  <1>6. PICK u \in Seq(S) : u = <<x, y>>
    BY <1>1
  <1>7. Len(v) = Len(u) /\ \A i \in 1 .. Len(v) : v[i] = u[i]
    <2>1. \A i \in 1 .. 2 : i = 1 \/ i = 2
      OBVIOUS
    <2>2. QED BY <1>3, <1>5, <1>6, <2>1
  <1>8. v = u
    BY <1>7, SameSeq
  <1>9. QED BY <1>4, <1>6, <1>8

LEMMA TwoRun ==
    ASSUME NEW f \in Seq(Character), NEW t \in [Directives -> Seq(Character)],
           NEW b \in Nat, NEW m \in Nat, NEW n \in 1 .. Len(f), m = b + 1, n = b + 2,
           ~IsDirective(f, b), ~IsDirective(f, m), ~IsDirective(f, n)
    PROVE  LineUpTo(f, t)[n] = LineUpTo(f, t)[b] \o <<f[m], f[n]>>
  <1>1. PICK u : u = LineUpTo(f, t)
    OBVIOUS
  <1>2. m \in 1 .. Len(f) /\ b \in 0 .. Len(f) /\ n = m + 1
    OBVIOUS
  <1>3. u[m] = u[b] \o <<f[m]>> /\ u[n] = u[m] \o <<f[n]>>
    BY <1>1, <1>2, OneRun
  <1>4. PICK s \in Seq(Character) : s = u[b]
    BY <1>1, <1>2, LineUpToIs
  <1>5. PICK x \in Character : x = f[m]
    BY <1>2
  <1>6. PICK y \in Character : y = f[n]
    OBVIOUS
  <1>7. (s \o <<x>>) \o <<y>> = s \o <<x, y>>
    <2>1. <<x>> \o <<y>> = <<x, y>>
      BY ShortConcat
    <2>2. <<x>> \in Seq(Character) /\ <<y>> \in Seq(Character)
      BY ShortSeqs
    <2>3. (s \o <<x>>) \o <<y>> = s \o (<<x>> \o <<y>>)
      BY <2>2, ConcatAssociates
    <2>4. QED BY <2>1, <2>3
  <1>8. QED BY <1>1, <1>3, <1>4, <1>5, <1>6, <1>7

(* A directive, and one with a character or two behind it.  The places that follow
   each other have names. *)
Run2(b, k, n) == b \in Nat /\ k = b + 1 /\ n = b + 2
Run3(b, k, m, n) == b \in Nat /\ k = b + 1 /\ m = b + 2 /\ n = b + 3
Run4(b, k, m, l, n) == b \in Nat /\ k = b + 1 /\ m = b + 2 /\ l = b + 3 /\ n = b + 4

Adds(f, t, b, n) == LineUpTo(f, t)[n] = LineUpTo(f, t)[b] \o t[f[n]]
AddsOne(f, t, b, m, n) == LineUpTo(f, t)[n] = LineUpTo(f, t)[b] \o t[f[m]] \o <<f[n]>>
AddsTwo(f, t, b, m, l, n) ==
    LineUpTo(f, t)[n] = LineUpTo(f, t)[b] \o t[f[m]] \o <<f[l], f[n]>>

LEMMA DirectiveAt ==
    ASSUME NEW f \in Seq(Character), NEW t \in [Directives -> Seq(Character)],
           NEW b, NEW k, NEW n \in 1 .. Len(f), Run2(b, k, n),
           f[k] = "%", f[n] \in Directives
    PROVE  Adds(f, t, b, n)
  <1>1. b \in Nat /\ k = b + 1 /\ n = b + 2
    BY DEF Run2
  <1>2. IsDirective(f, b + 1)
    BY <1>1 DEF IsDirective, Percent
  <1>3. QED BY <1>1, <1>2, DirectiveRun DEF Adds

LEMMA WithOne ==
    ASSUME NEW f \in Seq(Character), NEW t \in [Directives -> Seq(Character)],
           NEW b, NEW k, NEW m, NEW n \in 1 .. Len(f), Run3(b, k, m, n),
           f[k] = "%", f[m] \in Directives, f[n] # "%"
    PROVE  AddsOne(f, t, b, m, n)
  <1>1. Run2(b, k, m) /\ m \in 1 .. Len(f) /\ m \in Nat /\ n = m + 1
    BY DEF Run2, Run3
  <1>2. ~IsDirective(f, m) /\ ~IsDirective(f, n)
    BY <1>1, DirectivesAssumption DEF IsDirective, Percent
  <1>3. LineUpTo(f, t)[m] = LineUpTo(f, t)[b] \o t[f[m]]
    BY <1>1, DirectiveAt, Zenon DEF Adds
  <1>4. LineUpTo(f, t)[n] = LineUpTo(f, t)[m] \o <<f[n]>>
    BY <1>1, <1>2, OneRun, Zenon
  <1>5. QED BY <1>3, <1>4, Zenon DEF AddsOne

LEMMA WithTwo ==
    ASSUME NEW f \in Seq(Character), NEW t \in [Directives -> Seq(Character)],
           NEW b, NEW k, NEW m, NEW l, NEW n \in 1 .. Len(f), Run4(b, k, m, l, n),
           f[k] = "%", f[m] \in Directives, f[l] # "%", f[n] # "%"
    PROVE  AddsTwo(f, t, b, m, l, n)
  <1>1. /\ Run2(b, k, m) /\ m \in 1 .. Len(f) /\ l \in 1 .. Len(f)
        /\ m \in Nat /\ l \in Nat /\ l = m + 1 /\ n = m + 2
    BY DEF Run2, Run4
  <1>2. ~IsDirective(f, m) /\ ~IsDirective(f, l) /\ ~IsDirective(f, n)
    BY <1>1, DirectivesAssumption DEF IsDirective, Percent
  <1>3. LineUpTo(f, t)[m] = LineUpTo(f, t)[b] \o t[f[m]]
    BY <1>1, DirectiveAt, Zenon DEF Adds
  <1>4. LineUpTo(f, t)[n] = LineUpTo(f, t)[m] \o <<f[l], f[n]>>
    BY <1>1, <1>2, TwoRun, Zenon
  <1>5. QED BY <1>3, <1>4, Zenon DEF AddsTwo

(* A format begins with a directive. *)
LEMMA FirstRun ==
    ASSUME NEW f \in Seq(Character), NEW t \in [Directives -> Seq(Character)],
           3 <= Len(f), f[1] = "%", f[2] \in Directives, f[3] # "%"
    PROVE  LineUpTo(f, t)[3] = t[f[2]] \o <<f[3]>>
  <1>1. Run3(0, 1, 2, 3) /\ 3 \in 1 .. Len(f)
    BY DEF Run3
  <1>2. LineUpTo(f, t)[3] = LineUpTo(f, t)[0] \o t[f[2]] \o <<f[3]>>
    <2>1. AddsOne(f, t, 0, 2, 3)
      BY <1>1, WithOne, Zenon
    <2>2. QED BY <2>1 DEF AddsOne
  <1>3. PICK s \in Seq(Character) : s = t[f[2]]
    OBVIOUS
  <1>4. <<>> \o s = s
    OBVIOUS
  <1>5. LineUpTo(f, t)[0] = <<>>
    BY LineUpToIs
  <1>6. QED BY <1>2, <1>3, <1>4, <1>5, Zenon

--------------------------------------------------------------------------------
(* A special format describes its header with the message behind it.           *)
LEMMA VerboseIsDescribed ==
    ASSUME VerboseFormat \in Seq(Character), NEW t \in [Directives -> Seq(Character)]
    PROVE  Described(VerboseFormat, t) = verbose_format(t) \o t[Message]
  <1> DEFINE f == VerboseFormat
  <1>1. f \in Seq(Character) /\ Len(f) = 27
    BY DEF VerboseFormat
  <1>2. PICK u : u = LineUpTo(f, t)
    OBVIOUS
  <1>3. u[3] = t["L"] \o <<" ">>
    <2>1. f[1] = "%" /\ f[2] = "L" /\ f[3] = " "
      BY DEF VerboseFormat
    <2>2. 3 <= Len(f)
      BY <1>1
    <2>3. "L" \in Directives /\ " " # "%"
      BY LettersAssumption
    <2> HIDE DEF f
    <2>4. QED BY <1>1, <1>2, <2>1, <2>2, <2>3, FirstRun, Zenon
  <1>4. u[6] = u[3] \o t["N"] \o <<" ">>
    <2>1. f[4] = "%" /\ f[5] = "N" /\ f[6] = " "
      BY DEF VerboseFormat
    <2>2. 6 \in 1 .. Len(f) /\ Run3(3, 4, 5, 6)
      BY <1>1 DEF Run3
    <2>3. "N" \in Directives /\ " " # "%"
      BY LettersAssumption
    <2> HIDE DEF f
    <2>4. AddsOne(f, t, 3, 5, 6)
      BY <1>1, <2>1, <2>2, <2>3, WithOne, Zenon
    <2>5. QED BY <1>2, <2>1, <2>4, Zenon DEF AddsOne
  <1>5. u[9] = u[6] \o t["T"] \o <<" ">>
    <2>1. f[7] = "%" /\ f[8] = "T" /\ f[9] = " "
      BY DEF VerboseFormat
    <2>2. 9 \in 1 .. Len(f) /\ Run3(6, 7, 8, 9)
      BY <1>1 DEF Run3
    <2>3. "T" \in Directives /\ " " # "%"
      BY LettersAssumption
    <2> HIDE DEF f
    <2>4. AddsOne(f, t, 6, 8, 9)
      BY <1>1, <2>1, <2>2, <2>3, WithOne, Zenon
    <2>5. QED BY <1>2, <2>1, <2>4, Zenon DEF AddsOne
  <1>6. u[12] = u[9] \o t["P"] \o <<":">>
    <2>1. f[10] = "%" /\ f[11] = "P" /\ f[12] = ":"
      BY DEF VerboseFormat
    <2>2. 12 \in 1 .. Len(f) /\ Run3(9, 10, 11, 12)
      BY <1>1 DEF Run3
    <2>3. "P" \in Directives /\ ":" # "%"
      BY LettersAssumption
    <2> HIDE DEF f
    <2>4. AddsOne(f, t, 9, 11, 12)
      BY <1>1, <2>1, <2>2, <2>3, WithOne, Zenon
    <2>5. QED BY <1>2, <2>1, <2>4, Zenon DEF AddsOne
  <1>7. u[15] = u[12] \o t["t"] \o <<" ">>
    <2>1. f[13] = "%" /\ f[14] = "t" /\ f[15] = " "
      BY DEF VerboseFormat
    <2>2. 15 \in 1 .. Len(f) /\ Run3(12, 13, 14, 15)
      BY <1>1 DEF Run3
    <2>3. "t" \in Directives /\ " " # "%"
      BY LettersAssumption
    <2> HIDE DEF f
    <2>4. AddsOne(f, t, 12, 14, 15)
      BY <1>1, <2>1, <2>2, <2>3, WithOne, Zenon
    <2>5. QED BY <1>2, <2>1, <2>4, Zenon DEF AddsOne
  <1>8. u[18] = u[15] \o t["f"] \o <<"(">>
    <2>1. f[16] = "%" /\ f[17] = "f" /\ f[18] = "("
      BY DEF VerboseFormat
    <2>2. 18 \in 1 .. Len(f) /\ Run3(15, 16, 17, 18)
      BY <1>1 DEF Run3
    <2>3. "f" \in Directives /\ "(" # "%"
      BY LettersAssumption
    <2> HIDE DEF f
    <2>4. AddsOne(f, t, 15, 17, 18)
      BY <1>1, <2>1, <2>2, <2>3, WithOne, Zenon
    <2>5. QED BY <1>2, <2>1, <2>4, Zenon DEF AddsOne
  <1>9. u[21] = u[18] \o t["F"] \o <<":">>
    <2>1. f[19] = "%" /\ f[20] = "F" /\ f[21] = ":"
      BY DEF VerboseFormat
    <2>2. 21 \in 1 .. Len(f) /\ Run3(18, 19, 20, 21)
      BY <1>1 DEF Run3
    <2>3. "F" \in Directives /\ ":" # "%"
      BY LettersAssumption
    <2> HIDE DEF f
    <2>4. AddsOne(f, t, 18, 20, 21)
      BY <1>1, <2>1, <2>2, <2>3, WithOne, Zenon
    <2>5. QED BY <1>2, <2>1, <2>4, Zenon DEF AddsOne
  <1>10. u[25] = u[21] \o t["l"] \o <<")", " ">>
    <2>1. f[22] = "%" /\ f[23] = "l" /\ f[24] = ")" /\ f[25] = " "
      BY DEF VerboseFormat
    <2>2. 25 \in 1 .. Len(f) /\ Run4(21, 22, 23, 24, 25)
      BY <1>1 DEF Run4
    <2>3. "l" \in Directives /\ ")" # "%" /\ " " # "%"
      BY LettersAssumption
    <2> HIDE DEF f
    <2>4. AddsTwo(f, t, 21, 23, 24, 25)
      BY <1>1, <2>1, <2>2, <2>3, WithTwo, Zenon
    <2>5. QED BY <1>2, <2>1, <2>4, Zenon DEF AddsTwo
  <1>11. u[27] = u[25] \o t["M"]
    <2>1. f[26] = "%" /\ f[27] = "M"
      BY DEF VerboseFormat
    <2>2. 27 \in 1 .. Len(f) /\ Run2(25, 26, 27)
      BY <1>1 DEF Run2
    <2>3. "M" \in Directives
      BY LettersAssumption
    <2> HIDE DEF f
    <2>4. Adds(f, t, 25, 27)
      BY <1>1, <2>1, <2>2, <2>3, DirectiveAt, Zenon
    <2>5. QED BY <1>2, <2>1, <2>4, Zenon DEF Adds
  <1>12. u[25] = verbose_format(t)
    BY <1>3, <1>4, <1>5, <1>6, <1>7, <1>8, <1>9, <1>10, Zenon DEF verbose_format
  <1>13. Described(f, t) = u[27]
    BY <1>1, <1>2, DescribedIsLast
  <1>14. QED BY <1>11, <1>12, <1>13 DEF Message

LEMMA MiddleIsDescribed ==
    ASSUME MiddleFormat \in Seq(Character), NEW t \in [Directives -> Seq(Character)]
    PROVE  Described(MiddleFormat, t) = middle_format(t) \o t[Message]
  <1> DEFINE f == MiddleFormat
  <1>1. f \in Seq(Character) /\ Len(f) = 21
    BY DEF MiddleFormat
  <1>2. PICK u : u = LineUpTo(f, t)
    OBVIOUS
  <1>3. u[3] = t["L"] \o <<" ">>
    <2>1. f[1] = "%" /\ f[2] = "L" /\ f[3] = " "
      BY DEF MiddleFormat
    <2>2. 3 <= Len(f)
      BY <1>1
    <2>3. "L" \in Directives /\ " " # "%"
      BY LettersAssumption
    <2> HIDE DEF f
    <2>4. QED BY <1>1, <1>2, <2>1, <2>2, <2>3, FirstRun, Zenon
  <1>4. u[6] = u[3] \o t["T"] \o <<" ">>
    <2>1. f[4] = "%" /\ f[5] = "T" /\ f[6] = " "
      BY DEF MiddleFormat
    <2>2. 6 \in 1 .. Len(f) /\ Run3(3, 4, 5, 6)
      BY <1>1 DEF Run3
    <2>3. "T" \in Directives /\ " " # "%"
      BY LettersAssumption
    <2> HIDE DEF f
    <2>4. AddsOne(f, t, 3, 5, 6)
      BY <1>1, <2>1, <2>2, <2>3, WithOne, Zenon
    <2>5. QED BY <1>2, <2>1, <2>4, Zenon DEF AddsOne
  <1>5. u[9] = u[6] \o t["P"] \o <<" ">>
    <2>1. f[7] = "%" /\ f[8] = "P" /\ f[9] = " "
      BY DEF MiddleFormat
    <2>2. 9 \in 1 .. Len(f) /\ Run3(6, 7, 8, 9)
      BY <1>1 DEF Run3
    <2>3. "P" \in Directives /\ " " # "%"
      BY LettersAssumption
    <2> HIDE DEF f
    <2>4. AddsOne(f, t, 6, 8, 9)
      BY <1>1, <2>1, <2>2, <2>3, WithOne, Zenon
    <2>5. QED BY <1>2, <2>1, <2>4, Zenon DEF AddsOne
  <1>6. u[12] = u[9] \o t["f"] \o <<"(">>
    <2>1. f[10] = "%" /\ f[11] = "f" /\ f[12] = "("
      BY DEF MiddleFormat
    <2>2. 12 \in 1 .. Len(f) /\ Run3(9, 10, 11, 12)
      BY <1>1 DEF Run3
    <2>3. "f" \in Directives /\ "(" # "%"
      BY LettersAssumption
    <2> HIDE DEF f
    <2>4. AddsOne(f, t, 9, 11, 12)
      BY <1>1, <2>1, <2>2, <2>3, WithOne, Zenon
    <2>5. QED BY <1>2, <2>1, <2>4, Zenon DEF AddsOne
  <1>7. u[15] = u[12] \o t["F"] \o <<":">>
    <2>1. f[13] = "%" /\ f[14] = "F" /\ f[15] = ":"
      BY DEF MiddleFormat
    <2>2. 15 \in 1 .. Len(f) /\ Run3(12, 13, 14, 15)
      BY <1>1 DEF Run3
    <2>3. "F" \in Directives /\ ":" # "%"
      BY LettersAssumption
    <2> HIDE DEF f
    <2>4. AddsOne(f, t, 12, 14, 15)
      BY <1>1, <2>1, <2>2, <2>3, WithOne, Zenon
    <2>5. QED BY <1>2, <2>1, <2>4, Zenon DEF AddsOne
  <1>8. u[19] = u[15] \o t["l"] \o <<")", " ">>
    <2>1. f[16] = "%" /\ f[17] = "l" /\ f[18] = ")" /\ f[19] = " "
      BY DEF MiddleFormat
    <2>2. 19 \in 1 .. Len(f) /\ Run4(15, 16, 17, 18, 19)
      BY <1>1 DEF Run4
    <2>3. "l" \in Directives /\ ")" # "%" /\ " " # "%"
      BY LettersAssumption
    <2> HIDE DEF f
    <2>4. AddsTwo(f, t, 15, 17, 18, 19)
      BY <1>1, <2>1, <2>2, <2>3, WithTwo, Zenon
    <2>5. QED BY <1>2, <2>1, <2>4, Zenon DEF AddsTwo
  <1>9. u[21] = u[19] \o t["M"]
    <2>1. f[20] = "%" /\ f[21] = "M"
      BY DEF MiddleFormat
    <2>2. 21 \in 1 .. Len(f) /\ Run2(19, 20, 21)
      BY <1>1 DEF Run2
    <2>3. "M" \in Directives
      BY LettersAssumption
    <2> HIDE DEF f
    <2>4. Adds(f, t, 19, 21)
      BY <1>1, <2>1, <2>2, <2>3, DirectiveAt, Zenon
    <2>5. QED BY <1>2, <2>1, <2>4, Zenon DEF Adds
  <1>10. u[19] = middle_format(t)
    BY <1>3, <1>4, <1>5, <1>6, <1>7, <1>8, Zenon DEF middle_format
  <1>11. Described(f, t) = u[21]
    BY <1>1, <1>2, DescribedIsLast
  <1>12. QED BY <1>9, <1>10, <1>11 DEF Message

LEMMA SimpleIsDescribed ==
    ASSUME SimpleFormat \in Seq(Character), NEW t \in [Directives -> Seq(Character)]
    PROVE  Described(SimpleFormat, t) = simple_format(t) \o t[Message]
  <1> DEFINE f == SimpleFormat
  <1>1. f \in Seq(Character) /\ Len(f) = 17
    BY DEF SimpleFormat
  <1>2. PICK u : u = LineUpTo(f, t)
    OBVIOUS
  <1>3. u[3] = t["L"] \o <<" ">>
    <2>1. f[1] = "%" /\ f[2] = "L" /\ f[3] = " "
      BY DEF SimpleFormat
    <2>2. 3 <= Len(f)
      BY <1>1
    <2>3. "L" \in Directives /\ " " # "%"
      BY LettersAssumption
    <2> HIDE DEF f
    <2>4. QED BY <1>1, <1>2, <2>1, <2>2, <2>3, FirstRun, Zenon
  <1>4. u[6] = u[3] \o t["T"] \o <<" ">>
    <2>1. f[4] = "%" /\ f[5] = "T" /\ f[6] = " "
      BY DEF SimpleFormat
    <2>2. 6 \in 1 .. Len(f) /\ Run3(3, 4, 5, 6)
      BY <1>1 DEF Run3
    <2>3. "T" \in Directives /\ " " # "%"
      BY LettersAssumption
    <2> HIDE DEF f
    <2>4. AddsOne(f, t, 3, 5, 6)
      BY <1>1, <2>1, <2>2, <2>3, WithOne, Zenon
    <2>5. QED BY <1>2, <2>1, <2>4, Zenon DEF AddsOne
  <1>5. u[9] = u[6] \o t["P"] \o <<" ">>
    <2>1. f[7] = "%" /\ f[8] = "P" /\ f[9] = " "
      BY DEF SimpleFormat
    <2>2. 9 \in 1 .. Len(f) /\ Run3(6, 7, 8, 9)
      BY <1>1 DEF Run3
    <2>3. "P" \in Directives /\ " " # "%"
      BY LettersAssumption
    <2> HIDE DEF f
    <2>4. AddsOne(f, t, 6, 8, 9)
      BY <1>1, <2>1, <2>2, <2>3, WithOne, Zenon
    <2>5. QED BY <1>2, <2>1, <2>4, Zenon DEF AddsOne
  <1>6. u[12] = u[9] \o t["F"] \o <<":">>
    <2>1. f[10] = "%" /\ f[11] = "F" /\ f[12] = ":"
      BY DEF SimpleFormat
    <2>2. 12 \in 1 .. Len(f) /\ Run3(9, 10, 11, 12)
      BY <1>1 DEF Run3
    <2>3. "F" \in Directives /\ ":" # "%"
      BY LettersAssumption
    <2> HIDE DEF f
    <2>4. AddsOne(f, t, 9, 11, 12)
      BY <1>1, <2>1, <2>2, <2>3, WithOne, Zenon
    <2>5. QED BY <1>2, <2>1, <2>4, Zenon DEF AddsOne
  <1>7. u[15] = u[12] \o t["l"] \o <<" ">>
    <2>1. f[13] = "%" /\ f[14] = "l" /\ f[15] = " "
      BY DEF SimpleFormat
    <2>2. 15 \in 1 .. Len(f) /\ Run3(12, 13, 14, 15)
      BY <1>1 DEF Run3
    <2>3. "l" \in Directives /\ " " # "%"
      BY LettersAssumption
    <2> HIDE DEF f
    <2>4. AddsOne(f, t, 12, 14, 15)
      BY <1>1, <2>1, <2>2, <2>3, WithOne, Zenon
    <2>5. QED BY <1>2, <2>1, <2>4, Zenon DEF AddsOne
  <1>8. u[17] = u[15] \o t["M"]
    <2>1. f[16] = "%" /\ f[17] = "M"
      BY DEF SimpleFormat
    <2>2. 17 \in 1 .. Len(f) /\ Run2(15, 16, 17)
      BY <1>1 DEF Run2
    <2>3. "M" \in Directives
      BY LettersAssumption
    <2> HIDE DEF f
    <2>4. Adds(f, t, 15, 17)
      BY <1>1, <2>1, <2>2, <2>3, DirectiveAt, Zenon
    <2>5. QED BY <1>2, <2>1, <2>4, Zenon DEF Adds
  <1>9. u[15] = simple_format(t)
    BY <1>3, <1>4, <1>5, <1>6, <1>7, Zenon DEF simple_format
  <1>10. Described(f, t) = u[17]
    BY <1>1, <1>2, DescribedIsLast
  <1>11. QED BY <1>8, <1>9, <1>10 DEF Message

--------------------------------------------------------------------------------
(* The pieces are the format, divided behind its directives.                   *)

(* Where the text of a piece ends that ends itself at c.                       *)
TextEnd(p, c) == IF p.type = Raw THEN c ELSE c - 2

PieceIs(p, a, c) ==
    /\ a <= TextEnd(p, c) /\ p.str = SubSeq(format, a + 1, TextEnd(p, c))
    /\ \A i \in a + 1 .. TextEnd(p, c) : ~IsDirective(format, i)
    /\ p.type # Raw => IsDirective(format, c - 1) /\ format[c] = p.type

CutBy(c) ==
    /\ c \in [0 .. Len(formats) -> 0 .. Len(format)] /\ c[0] = 0
    /\ \A k \in 0 .. Len(formats) : ~IsDirective(format, c[k])
    /\ \A k \in 1 .. Len(formats) : PieceIs(formats[k], c[k - 1], c[k])

(* While the loop runs: up to pos, and there is no directive in front of use.  *)
PartlyCutBy(c) ==
    /\ CutBy(c) /\ c[Len(formats)] = pos /\ (use # NPos => format[use + 1] = Percent)
    /\ \A k \in 1 .. Len(formats) : formats[k].type # Raw
    /\ \A i \in pos + 1 .. (IF use = NPos THEN Len(format) ELSE use) : ~IsDirective(format, i)

WhollyCutBy(c) ==
    /\ CutBy(c) /\ formats # <<>> /\ c[Len(formats)] = Len(format)
    /\ \A k \in 1 .. Len(formats) : formats[k].type = Raw <=> k = Len(formats)

(* find() passes no percent sign. *)
LEMMA FindIsFirst ==
    ASSUME NEW f \in Seq(STRING), NEW from \in Nat
    PROVE  \/ Find(f, from) = NPos /\ \A i \in from + 1 .. Len(f) : f[i] # Percent
           \/ /\ Find(f, from) \in from .. Len(f) - 1 /\ f[Find(f, from) + 1] = Percent
              /\ \A i \in from + 1 .. Find(f, from) : f[i] # Percent
  <1> DEFINE found == {i \in from .. Len(f) - 1 : f[i + 1] = Percent}
  <1>1. ASSUME NEW i \in from + 1 .. Len(f), f[i] = Percent PROVE i - 1 \in found
    <2>1. i - 1 \in from .. Len(f) - 1 /\ (i - 1) + 1 = i
      OBVIOUS
    <2>2. QED BY <1>1, <2>1
  <1>2. CASE found = {}
    BY <1>1, <1>2 DEF Find
  <1>3. CASE found # {}
    <2>1. found \subseteq Nat
      OBVIOUS
    <2>2. \E i \in found : \A j \in found : i <= j
      BY <1>3, <2>1, LeastOf
    <2>3. Find(f, from) = CHOOSE i \in found : \A j \in found : i <= j
      BY <1>3 DEF Find
    <2>4. Find(f, from) \in found /\ \A j \in found : Find(f, from) <= j
      <3> HIDE DEF found
      <3>1. QED BY <2>2, <2>3
    <2>5. ASSUME NEW i \in from + 1 .. Find(f, from) PROVE f[i] # Percent
      <3>1. Find(f, from) \in from .. Len(f) - 1
        BY <2>4
      <3>2. i \in from + 1 .. Len(f) /\ ~(Find(f, from) <= i - 1)
        BY <3>1
      <3>3. QED BY <1>1, <2>4, <3>2
    <2>6. QED BY <2>4, <2>5
  <1>4. QED BY <1>2, <1>3

(* One more piece. *)
LEMMA CutFurther ==
    ASSUME ParserInv, NEW c, CutBy(c), NEW e \in 0 .. Len(format), NEW p,
           PieceIs(p, c[Len(formats)], e), ~IsDirective(format, e),
           format' = format, formats' = Append(formats, p)
    PROVE  \E d : /\ CutBy(d)' /\ d[Len(formats) + 1] = e
  <1>1. PICK n \in Nat : n = Len(formats)
    BY DEF ParserInv
  <1>2. /\ Len(formats') = n + 1 /\ formats'[n + 1] = p
        /\ \A k \in 1 .. n : formats'[k] = formats[k]
    BY <1>1 DEF ParserInv
  <1>3. PICK d : d = [k \in 0 .. n + 1 |-> IF k <= n THEN c[k] ELSE e]
    OBVIOUS
  <1>4. d[n + 1] = e /\ \A k \in 0 .. n : d[k] = c[k]
    BY <1>3
  <1>5. c \in [0 .. n -> 0 .. Len(format)] /\ c[0] = 0
    BY <1>1 DEF CutBy
  <1>6. d \in [0 .. n + 1 -> 0 .. Len(format)] /\ d[0] = 0
    BY <1>3, <1>5
  <1>7. ASSUME NEW k \in 0 .. n + 1 PROVE ~IsDirective(format, d[k])
    <2>1. k = n + 1 \/ k \in 0 .. n
      OBVIOUS
    <2>2. QED BY <1>1, <1>4, <2>1 DEF CutBy
  <1>8. ASSUME NEW k \in 1 .. n + 1 PROVE PieceIs(formats'[k], d[k - 1], d[k])
    <2>1. CASE k = n + 1
      <3>1. d[k - 1] = c[n]
        BY <1>4, <2>1
      <3>2. QED BY <1>1, <1>2, <1>4, <2>1, <3>1
    <2>2. CASE k \in 1 .. n
      <3>1. d[k - 1] = c[k - 1] /\ d[k] = c[k]
        BY <1>4, <2>2
      <3>2. PieceIs(formats[k], c[k - 1], c[k])
        BY <1>1, <2>2 DEF CutBy
      <3>3. QED BY <1>2, <2>2, <3>1, <3>2
    <2>3. k = n + 1 \/ k \in 1 .. n
      OBVIOUS
    <2>4. QED BY <2>1, <2>2, <2>3
  <1>9. \A q, a, b : PieceIs(q, a, b)' <=> PieceIs(q, a, b)
    BY DEF PieceIs
  <1>10. CutBy(d)'
    BY <1>2, <1>6, <1>7, <1>8, <1>9 DEF CutBy
  <1>11. QED BY <1>1, <1>4, <1>10

LEMMA StartCuts ==
    ASSUME ParserInv, NEW f \in Formats, StartParse(f), formats = <<>>
    PROVE  \E c : PartlyCutBy(c)'
  <1>1. PICK c : c = [k \in 0 .. 0 |-> 0]
    OBVIOUS
  <1>2. f \in Seq(STRING) /\ format' = f /\ pos' = 0 /\ use' = Find(f, 0) /\ formats' = <<>>
    BY TextsAssumption, CharactersAreStrings DEF StartParse
  <1>3. CutBy(c)'
    <2>1. c \in [0 .. 0 -> 0 .. Len(f)] /\ c[0] = 0 /\ \A k \in 0 .. 0 : c[k] = 0
      BY <1>1, <1>2
    <2>2. ~IsDirective(f, 0)
      BY <1>2 DEF IsDirective
    <2>3. Len(formats') = 0
      BY <1>2
    <2>4. QED BY <1>2, <2>1, <2>2, <2>3 DEF CutBy
  <1>4. \A i \in 0 + 1 .. (IF use' = NPos THEN Len(f) ELSE use') : f[i] # Percent
    BY <1>2, FindIsFirst DEF NPos
  <1>5. \A i \in pos' + 1 .. (IF use' = NPos THEN Len(format') ELSE use') : ~IsDirective(format', i)
    BY <1>2, <1>4 DEF IsDirective
  <1>6. use' # NPos => format'[use' + 1] = Percent
    BY <1>2, FindIsFirst
  <1>7. QED BY <1>1, <1>2, <1>3, <1>5, <1>6 DEF PartlyCutBy

LEMMA ParseCuts ==
    ASSUME ParserInv, ParseStep, NEW c, PartlyCutBy(c)
    PROVE  \E d : IF parsing' THEN PartlyCutBy(d)' ELSE WhollyCutBy(d)'
  <1>1. /\ format \in Seq(STRING) /\ Len(format) \in Nat /\ pos \in Nat
        /\ Len(formats) \in Nat /\ parsing
    BY CharactersAreStrings DEF ParserInv, ParseStep, ParseDirective, SkipPercent, ParseRest
  <1>2. /\ CutBy(c) /\ c[Len(formats)] = pos /\ (use # NPos => format[use + 1] = Percent)
        /\ \A k \in 1 .. Len(formats) : formats[k].type # Raw
        /\ \A i \in pos + 1 .. (IF use = NPos THEN Len(format) ELSE use) : ~IsDirective(format, i)
    BY DEF PartlyCutBy
  <1>3. ~IsDirective(format, pos)
    BY <1>1, <1>2 DEF CutBy
  <1>4. CASE ParseDirective
    <2>1. /\ use \in Nat /\ pos <= use /\ use + 2 <= Len(format)
          /\ format[use + 2] = CharAt(use + 1) /\ CharAt(use + 1) \in Directives
      BY <1>1, <1>4, DirectivesAssumption DEF ParserInv, PositionsInOrder, ParseDirective, CharAt, NPos
    <2>2. PICK p : p = [str |-> Substr(pos, use - pos), type |-> CharAt(use + 1)]
      OBVIOUS
    <2>3. IsDirective(format, use + 1)
      <3>1. format[use + 1] = Percent
        BY <1>2, <1>4 DEF ParseDirective
      <3>2. QED BY <1>1, <2>1, <3>1 DEF IsDirective
    <2>4. p.type # Raw /\ TextEnd(p, use + 2) = use
      BY <2>1, <2>2, DirectivesAssumption DEF TextEnd
    <2>5. p.str = SubSeq(format, pos + 1, use)
      BY <1>1, <2>1, <2>2 DEF Substr
    <2>6. PieceIs(p, pos, use + 2)
      <3>1. \A i \in pos + 1 .. use : ~IsDirective(format, i)
        BY <1>2, <2>1 DEF NPos
      <3>2. (use + 2) - 1 = use + 1
        BY <2>1
      <3>3. QED BY <2>1, <2>2, <2>3, <2>4, <2>5, <3>1, <3>2 DEF PieceIs
    <2>7. ~IsDirective(format, use + 2)
      BY <2>1, DirectivesAssumption DEF IsDirective
    <2>8. /\ format' = format /\ formats' = Append(formats, p) /\ pos' = use + 2 /\ parsing' = parsing
          /\ use' = Find(format, use + 2)
      BY <1>4, <2>2 DEF ParseDirective
    <2>9. PICK d : CutBy(d)' /\ d[Len(formats) + 1] = use + 2
      BY <1>1, <1>2, <2>1, <2>6, <2>7, <2>8, CutFurther
    <2>10. /\ Len(formats') = Len(formats) + 1
           /\ \A k \in 1 .. Len(formats') : formats'[k].type # Raw
      <3>1. Len(formats') = Len(formats) + 1 /\ formats'[Len(formats) + 1] = p
            /\ \A k \in 1 .. Len(formats) : formats'[k] = formats[k]
        BY <2>8 DEF ParserInv
      <3>2. \A k \in 1 .. Len(formats) + 1 : k = Len(formats) + 1 \/ k \in 1 .. Len(formats)
        BY <1>1
      <3>3. QED BY <1>2, <2>4, <3>1, <3>2
    <2>11. \A i \in pos' + 1 .. (IF use' = NPos THEN Len(format') ELSE use') : ~IsDirective(format', i)
      <3>1. \A i \in (use + 2) + 1 .. (IF use' = NPos THEN Len(format) ELSE use') : format[i] # Percent
        BY <1>1, <2>1, <2>8, FindIsFirst DEF NPos
      <3>2. QED BY <2>8, <3>1 DEF IsDirective
    <2>12. PartlyCutBy(d)'
      <3>1. use' # NPos => format'[use' + 1] = Percent
        BY <1>1, <2>1, <2>8, FindIsFirst
      <3>2. QED BY <2>8, <2>9, <2>10, <2>11, <3>1 DEF PartlyCutBy
    <2>13. QED BY <1>1, <2>8, <2>12
  <1>5. CASE SkipPercent
    <2>1. /\ use \in Nat /\ use < Len(format) /\ pos <= use /\ CharAt(use + 1) \notin Directives
          /\ UNCHANGED <<format, pos, formats, parsing>> /\ use' = Find(format, use + 1)
      BY <1>1, <1>5 DEF ParserInv, PositionsInOrder, SkipPercent, NPos
    <2>2. ~IsDirective(format, use + 1)
      BY <1>1, <2>1 DEF IsDirective, CharAt
    <2>3. \A i \in (use + 1) + 1 .. (IF use' = NPos THEN Len(format) ELSE use') : format[i] # Percent
      BY <1>1, <2>1, FindIsFirst DEF NPos
    <2>4. \A i \in pos + 1 .. (IF use' = NPos THEN Len(format) ELSE use') : ~IsDirective(format, i)
      <3>1. \A i \in pos + 1 .. use : ~IsDirective(format, i)
        BY <1>2, <2>1 DEF NPos
      <3>2. use' = NPos \/ use' \in Nat
        BY <1>1, <2>1, FindIsRight
      <3>3. ASSUME NEW i \in pos + 1 .. (IF use' = NPos THEN Len(format) ELSE use')
            PROVE  i \in pos + 1 .. use \/ i = use + 1
                   \/ i \in (use + 1) + 1 .. (IF use' = NPos THEN Len(format) ELSE use')
        BY <1>1, <2>1, <3>2
      <3>4. QED BY <2>2, <2>3, <3>1, <3>3 DEF IsDirective
    <2>5. CutBy(c)'
      BY <1>2, <2>1 DEF CutBy, PieceIs
    <2>6. PartlyCutBy(c)'
      <3>1. use' # NPos => format'[use' + 1] = Percent
        BY <1>1, <2>1, FindIsFirst
      <3>2. QED BY <1>2, <2>1, <2>4, <2>5, <3>1 DEF PartlyCutBy
    <2>7. QED BY <1>1, <2>1, <2>6
  <1>6. CASE ParseRest
    <2>1. PICK p : p = [str |-> Substr(pos, Len(format) - pos), type |-> Raw]
      OBVIOUS
    <2>2. /\ use = NPos /\ pos <= Len(format) /\ format' = format /\ ~parsing'
          /\ formats' = Append(formats, p)
      BY <1>6, <2>1 DEF ParserInv, PositionsInOrder, ParseRest
    <2>3. p.type = Raw /\ TextEnd(p, Len(format)) = Len(format)
      BY <2>1 DEF TextEnd
    <2>4. p.str = SubSeq(format, pos + 1, Len(format))
      BY <1>1, <2>1, <2>2 DEF Substr
    <2>5. PieceIs(p, pos, Len(format))
      BY <1>2, <2>2, <2>3, <2>4 DEF PieceIs
    <2>6. ~IsDirective(format, Len(format))
      BY <1>1 DEF IsDirective
    <2>7. PICK d : CutBy(d)' /\ d[Len(formats) + 1] = Len(format)
      BY <1>1, <1>2, <2>2, <2>5, <2>6, CutFurther
    <2>8. /\ Len(formats') = Len(formats) + 1 /\ formats' # <<>>
          /\ \A k \in 1 .. Len(formats') : formats'[k].type = Raw <=> k = Len(formats')
      <3>1. Len(formats') = Len(formats) + 1 /\ formats'[Len(formats) + 1] = p
            /\ \A k \in 1 .. Len(formats) : formats'[k] = formats[k]
        BY <2>2 DEF ParserInv
      <3>2. \A k \in 1 .. Len(formats) + 1 : k = Len(formats) + 1 \/ (k \in 1 .. Len(formats) /\ k # Len(formats) + 1)
        BY <1>1
      <3>3. QED BY <1>1, <1>2, <2>3, <3>1, <3>2
    <2>9. WhollyCutBy(d)'
      BY <2>2, <2>7, <2>8 DEF WhollyCutBy
    <2>10. QED BY <2>2, <2>9
  <1>7. QED BY <1>4, <1>5, <1>6 DEF ParseStep

--------------------------------------------------------------------------------
(* The buffer holds s, or as much of it as it has room for.                    *)
Holds(s) == ret = Len(s) /\ \A i \in 1 .. ret : buf[i] = s[i]
HoldsCut(s) ==
    /\ ret = AtMost(Len(s), size)
    /\ \A i \in 1 .. AtMost(ret, size - 1) : buf[i] = s[i]

LEMMA StoreAppends ==
    ASSUME BufferInv, size' = size, ret < size,
           NEW s \in Seq(Character), NEW t \in Seq(Character), Holds(s),
           NEW bytes, bytes \in {Copied(t), Printf(t)}, Store(bytes, AtMost(Len(t), Room))
    PROVE  HoldsCut(s \o t)' /\ (ret' < size => Holds(s \o t)')
  <1>1. /\ size \in Nat \ {0} /\ ret \in Nat /\ ret = Len(s) /\ Room = size - ret
        /\ buf \in [1 .. size -> STRING] /\ \A i \in 1 .. ret : buf[i] = s[i]
    BY DEF BufferInv, Holds, Room
  <1>2. PICK n \in Nat : n = AtMost(Len(t), Room) /\ n <= Len(t) /\ ret + n <= size
                         /\ (n = Len(t) \/ (ret + n = size /\ n < Len(t)))
    BY <1>1, SMTT(30) DEF AtMost
  <1>3. /\ bytes \in Seq(STRING)
        /\ \A i \in 1 .. n : ret + i < size => i \in 1 .. Len(bytes) /\ bytes[i] = t[i]
    <2>1. CASE bytes = Copied(t)
      BY <1>2, <2>1, CharactersAreStrings DEF Copied
    <2>2. CASE bytes = Printf(t)
      <3>1. PICK m \in 0 .. Len(t) : m = AtMost(Len(t), Room - 1)
        <4>1. Len(t) \in Nat /\ Room - 1 \in Nat
          BY <1>1
        <4>2. AtMost(Len(t), Room - 1) \in 0 .. Len(t)
          BY <4>1 DEF AtMost
        <4>3. QED BY <4>2
      <3>2. PICK p \in Seq(STRING) : p = SubSeq(t, 1, m) /\ Len(p) = m /\ \A i \in 1 .. m : p[i] = t[i]
        <4>1. SubSeq(t, 1, m) \in Seq(STRING)
          BY CharactersAreStrings, SubstrOfSeq
        <4>2. Len(SubSeq(t, 1, m)) = m /\ \A i \in 1 .. m : SubSeq(t, 1, m)[i] = t[i]
          OBVIOUS
        <4>3. QED BY <4>1, <4>2
      <3>3. bytes = Append(p, EndOfString)
        BY <2>2, <3>1, <3>2 DEF Printf
      <3>4. bytes \in Seq(STRING) /\ Len(bytes) = m + 1 /\ \A i \in 1 .. m : bytes[i] = p[i]
        <4>1. PICK nul \in STRING : nul = EndOfString
          BY CharactersAssumption
        <4>2. Append(p, nul) \in Seq(STRING)
          BY AppendOfSeq
        <4>3. Len(Append(p, nul)) = Len(p) + 1
          OBVIOUS
        <4>4. \A i \in 1 .. Len(p) : Append(p, nul)[i] = p[i]
          OBVIOUS
        <4>5. QED BY <3>2, <3>3, <4>1, <4>2, <4>3, <4>4
      <3>5. \A i \in 1 .. n : ret + i < size => i \in 1 .. m
        BY <1>1, <1>2, <3>1 DEF AtMost
      <3>6. QED BY <3>2, <3>4, <3>5
    <2>3. QED BY <2>1, <2>2
  <1>4. /\ ret' = ret + n
        /\ buf' = [i \in 1 .. size |-> IF i - ret \in DOMAIN bytes THEN bytes[i - ret] ELSE buf[i]]
    BY <1>1, <1>2 DEF Store, Put
  <1>5. PICK u \in Seq(Character) :
          /\ u = s \o t /\ Len(u) = Len(s) + Len(t)
          /\ \A i \in 1 .. Len(s) : u[i] = s[i]
          /\ \A i \in 1 .. Len(t) : u[Len(s) + i] = t[i]
    <2>1. /\ s \o t \in Seq(Character) /\ Len(s \o t) = Len(s) + Len(t)
          /\ \A i \in 1 .. Len(s) : (s \o t)[i] = s[i]
          /\ \A i \in 1 .. Len(t) : (s \o t)[Len(s) + i] = t[i]
      BY ConcatIs
    <2>2. QED BY <2>1, Zenon
  <1>6. ASSUME NEW i \in 1 .. ret + n, i < size PROVE buf'[i] = u[i]
    <2>1. CASE i <= ret
      <3>1. i - ret \notin DOMAIN bytes
        BY <1>1, <1>3, <2>1
      <3>2. buf'[i] = buf[i]
        <4>1. i \in 1 .. size
          BY <1>1, <1>2, <1>6
        <4>2. QED BY <1>4, <3>1, <4>1
      <3>3. QED BY <1>1, <1>5, <2>1, <3>2
    <2>2. CASE ret < i
      <3>1. PICK j \in 1 .. n : j = i - ret /\ i = ret + j
        <4>1. i - ret \in 1 .. n /\ i = ret + (i - ret)
          BY <1>1, <1>2, <2>2
        <4>2. QED BY <4>1
      <3>2. j \in 1 .. Len(bytes) /\ bytes[j] = t[j]
        BY <1>3, <1>6, <3>1
      <3>3. buf'[i] = bytes[j]
        <4>1. i \in 1 .. size /\ i - ret \in DOMAIN bytes
          BY <1>1, <1>2, <1>3, <1>6, <3>1, <3>2
        <4>2. QED BY <1>4, <3>1, <4>1
      <3>4. u[i] = t[j]
        BY <1>1, <1>2, <1>5, <3>1
      <3>5. QED BY <3>2, <3>3, <3>4
    <2>3. QED BY <1>1, <2>1, <2>2
  <1>7. ret' = AtMost(Len(u), size)
    BY <1>1, <1>2, <1>4, <1>5 DEF AtMost
  <1>8. HoldsCut(u)'
    <2>1. \A i \in 1 .. AtMost(ret', size - 1) : i \in 1 .. ret + n /\ i < size
      BY <1>1, <1>2, <1>4 DEF AtMost
    <2>2. QED BY <1>6, <1>7, <2>1 DEF HoldsCut
  <1>9. ret' < size => Holds(u)'
    <2>1. ret' < size => ret' = Len(u)
      BY <1>1, <1>5, <1>7 DEF AtMost
    <2>2. ASSUME ret' < size PROVE \A i \in 1 .. ret' : buf'[i] = u[i]
      <3>1. \A i \in 1 .. ret' : i \in 1 .. ret + n /\ i < size
        BY <1>1, <1>4, <2>2
      <3>2. QED BY <1>6, <3>1
    <2>3. QED BY <2>1, <2>2 DEF Holds
  <1>10. QED BY <1>5, <1>8, <1>9

(* A full buffer holds what the line begins with. *)
LEMMA CutIsCut ==
    ASSUME BufferInv', NEW s \in Seq(Character), NEW whole \in Seq(Character),
           HoldsCut(s)', Begins(s, whole), ret' >= size'
    PROVE  HoldsCut(whole)'
  <1>1. /\ size' \in Nat \ {0} /\ ret' = AtMost(Len(s), size') /\ Len(s) <= Len(whole)
        /\ \A i \in 1 .. Len(s) : whole[i] = s[i]
        /\ \A i \in 1 .. AtMost(ret', size' - 1) : buf'[i] = s[i]
    BY DEF HoldsCut, Begins, BufferInv
  <1>2. ret' = AtMost(Len(whole), size') /\ ret' = size' /\ Len(s) >= size'
    BY <1>1 DEF AtMost
  <1>3. AtMost(ret', size' - 1) \in Nat /\ AtMost(ret', size' - 1) <= Len(s) /\ Len(s) \in Nat
    <2>1. Len(s) \in Nat
      OBVIOUS
    <2>2. PICK n \in Nat \ {0}, l \in Nat : n = size' /\ l = Len(s)
      BY <1>1, <2>1
    <2>3. ret' = n /\ l >= n
      BY <1>2, <2>2
    <2>4. AtMost(n, n - 1) = n - 1
      BY DEF AtMost
    <2>5. AtMost(ret', size' - 1) = n - 1
      BY <2>2, <2>3, <2>4
    <2>6. QED BY <2>2, <2>3, <2>5
  <1>4. QED BY <1>1, <1>2, <1>3 DEF HoldsCut

(* The line that a format describes, piece by piece. *)
LEMMA PieceDescribes ==
    ASSUME ParserInv, text \in Texts, NEW c, WhollyCutBy(c), NEW k \in 1 .. Len(formats)
    PROVE  LET u == LineUpTo(format, text)
               p == formats[k]
               end == TextEnd(p, c[k])
           IN  /\ c[k - 1] \in 0 .. Len(format) /\ end \in 0 .. Len(format) /\ c[k - 1] <= end
               /\ u[end] = u[c[k - 1]] \o p.str
               /\ p.type = Raw => k = Len(formats) /\ end = Len(format)
               /\ p.type # Raw => /\ k < Len(formats) /\ end + 2 = c[k]
                                  /\ IsDirective(format, end + 1) /\ format[end + 2] = p.type
                                  /\ u[c[k]] = u[end] \o text[p.type]
  <1>1. /\ format \in Seq(Character) /\ text \in [Directives -> Seq(Character)]
        /\ Len(format) \in Nat /\ Len(formats) \in Nat
    BY TextsAssumption DEF ParserInv
  <1>2. PICK p : p = formats[k]
    OBVIOUS
  <1>3. PICK a \in 0 .. Len(format) : a = c[k - 1]
    <2>1. k - 1 \in 0 .. Len(formats)
      BY <1>1
    <2>2. QED BY <2>1 DEF WhollyCutBy, CutBy
  <1>4. PICK b \in 0 .. Len(format) : b = c[k]
    <2>1. k \in 0 .. Len(formats)
      BY <1>1
    <2>2. QED BY <2>1 DEF WhollyCutBy, CutBy
  <1>5. PieceIs(p, a, b) /\ ~IsDirective(format, a)
    BY <1>1, <1>2, <1>3, <1>4 DEF WhollyCutBy, CutBy
  <1>6. PICK end : end = TextEnd(p, b)
    OBVIOUS
  <1>7. end \in a .. Len(format)
    BY <1>1, <1>5, <1>6 DEF TextEnd, PieceIs
  <1>8. LineUpTo(format, text)[end] = LineUpTo(format, text)[a] \o p.str
    <2>1. p.str = SubSeq(format, a + 1, end) /\ \A i \in a + 1 .. end : ~IsDirective(format, i)
      BY <1>5, <1>6 DEF PieceIs
    <2>2. QED BY <1>1, <1>5, <1>7, <2>1, TextRun
  <1>9. p.type = Raw => k = Len(formats) /\ end = Len(format)
    BY <1>1, <1>2, <1>4, <1>6 DEF WhollyCutBy, TextEnd
  <1>10. ASSUME p.type # Raw
         PROVE  /\ k < Len(formats) /\ end + 2 = b
                /\ IsDirective(format, end + 1) /\ format[end + 2] = p.type
                /\ LineUpTo(format, text)[b] = LineUpTo(format, text)[end] \o text[p.type]
    <2>1. end = b - 2
      BY <1>6, <1>10 DEF TextEnd
    <2>2. end + 2 = b /\ end + 1 = b - 1 /\ end \in Nat
      BY <1>7, <2>1
    <2>3. IsDirective(format, end + 1) /\ format[end + 2] = p.type
      BY <1>5, <1>10, <2>2 DEF PieceIs
    <2>4. k < Len(formats)
      <3>1. k # Len(formats)
        BY <1>1, <1>2, <1>10 DEF WhollyCutBy
      <3>2. QED BY <1>1, <3>1
    <2>5. LineUpTo(format, text)[end + 2] = LineUpTo(format, text)[end] \o text[format[end + 2]]
      BY <1>1, <2>2, <2>3, DirectiveRun
    <2>6. QED BY <2>2, <2>3, <2>4, <2>5
  <1>11. end \in 0 .. Len(format) /\ a <= end
    BY <1>1, <1>7
  <1>12. QED BY <1>2, <1>3, <1>4, <1>6, <1>8, <1>9, <1>10, <1>11, Zenon

LEMMA SpecialDescribes ==
    ASSUME ParserInv, text \in Texts, special = SpecialOf(format), special # "none"
    PROVE  Meant = HeaderOf(special, text) \o text[Message]
  <1>0. Len(VerboseFormat) = 27 /\ Len(MiddleFormat) = 21 /\ Len(SimpleFormat) = 17
    <2>1. Len(VerboseFormat) = 27
      BY DEF VerboseFormat
    <2>2. Len(MiddleFormat) = 21
      BY DEF MiddleFormat
    <2>3. Len(SimpleFormat) = 17
      BY DEF SimpleFormat
    <2>4. QED BY <2>1, <2>2, <2>3
  <1>1. format \in Seq(Character) /\ text \in [Directives -> Seq(Character)]
    BY TextsAssumption DEF ParserInv
  <1>2. CASE format = VerboseFormat
    <2>1. special = "verbose"
      BY <1>0, <1>2 DEF SpecialOf
    <2>2. QED BY <1>1, <1>2, <2>1, VerboseIsDescribed DEF HeaderOf, Meant
  <1>3. CASE format = MiddleFormat /\ format # VerboseFormat
    <2>1. special = "middle"
      BY <1>0, <1>3 DEF SpecialOf
    <2>2. QED BY <1>1, <1>3, <2>1, MiddleIsDescribed DEF HeaderOf, Meant
  <1>4. CASE format = SimpleFormat /\ format # VerboseFormat /\ format # MiddleFormat
    <2>1. special = "simple"
      BY <1>0, <1>4 DEF SpecialOf
    <2>2. QED BY <1>1, <1>4, <2>1, SimpleIsDescribed DEF HeaderOf, Meant
  <1>5. QED BY <1>2, <1>3, <1>4 DEF SpecialOf

--------------------------------------------------------------------------------
(* How far the line in the buffer has come, while no snprintf has failed.      *)
Progress(c) ==
    /\ step = "raw" => Holds(LineUpTo(format, text)[c[it - 1]])
    /\ step = "handler" => Holds(LineUpTo(format, text)[TextEnd(formats[it], c[it])])
    /\ step \in {"raw", "handler"} /\ argsRead => \E i \in 1 .. c[it - 1] : MessageAt(i)
    /\ step = "header" => ret = 0
    /\ step = "message" => Holds(HeaderOf(special, text))
    /\ step = "newline" => HoldsCut(Meant)

LineInv ==
    /\ step \in {"new", "parse"} => lines = 0
    /\ step = "new" => formats = <<>>
    /\ step = "parse" => \E c : PartlyCutBy(c)
    /\ step \notin {"new", "parse"} =>
         /\ special = SpecialOf(format)
         /\ \E c : WhollyCutBy(c) /\ (~failed /\ OneMessage => Progress(c))
    /\ step \in {"header", "message"} => special # "none"
    /\ LineIsMeant

LEMMA SameCut ==
    ASSUME UNCHANGED parserVars, NEW c, WhollyCutBy(c)
    PROVE  WhollyCutBy(c)'
  BY DEF WhollyCutBy, CutBy, PieceIs, parserVars

LEMMA ConstructorKeepsLineInv ==
    ASSUME IInv, LineInv, Construct \/ parseFormat
    PROVE  LineInv'
  <1>1. ParserInv /\ lines' = lines
    BY DEF IInv, Construct, parseFormat, lineVars
  <1>2. CASE Construct
    <2>1. step = "new" /\ step' = "parse" /\ formats = <<>> /\ lines = 0
      BY <1>2 DEF Construct, LineInv
    <2>2. \E c : PartlyCutBy(c)'
      BY <1>1, <1>2, <2>1, StartCuts DEF Construct
    <2>3. QED BY <1>1, <2>1, <2>2 DEF LineInv, LineIsMeant
  <1>3. CASE parseFormat
    <2>1. step = "parse" /\ ParseStep /\ lines = 0 /\ \E c : PartlyCutBy(c)
      BY <1>3 DEF parseFormat, LineInv
    <2>2. PICK d : IF parsing' THEN PartlyCutBy(d)' ELSE WhollyCutBy(d)'
      BY <1>1, <2>1, ParseCuts
    <2>3. CASE parsing'
      <3>1. step' = "parse"
        BY <1>3, <2>1, <2>3 DEF parseFormat
      <3>2. QED BY <1>1, <2>1, <2>2, <2>3, <3>1 DEF LineInv, LineIsMeant
    <2>4. CASE ~parsing'
      <3>1. step' = "idle" /\ special' = SpecialOf(format) /\ WhollyCutBy(d)'
        BY <1>3, <2>2, <2>4 DEF parseFormat
      <3>2. format' = format
        BY <2>1 DEF ParseStep, ParseDirective, SkipPercent, ParseRest
      <3>3. Progress(d)'
        BY <3>1 DEF Progress
      <3>4. LineIsMeant'
        BY <1>1, <2>1 DEF LineIsMeant
      <3>5. QED BY <3>1, <3>2, <3>3, <3>4 DEF LineInv
    <2>5. QED BY <2>3, <2>4
  <1>4. QED BY <1>2, <1>3

(* What the steps that make a line have in common. *)
LEMMA Making ==
    ASSUME LineInv, step \notin {"new", "parse"}, UNCHANGED <<parserVars, special>>,
           step' \notin {"new", "parse", "idle"},
           step' \in {"header", "message"} => special # "none",
           NEW c, WhollyCutBy(c), (~failed /\ OneMessage => Progress(c))'
    PROVE  LineInv'
  <1>1. WhollyCutBy(c)'
    BY SameCut
  <1>2. special' = SpecialOf(format)'
    BY DEF LineInv, parserVars
  <1>3. LineIsMeant'
    BY DEF LineIsMeant
  <1>4. QED BY <1>1, <1>2, <1>3 DEF LineInv

LEMMA SameMessages ==
    ASSUME UNCHANGED parserVars
    PROVE  /\ OneMessage' <=> OneMessage
           /\ \A i : MessageAt(i)' <=> MessageAt(i)
  BY DEF OneMessage, MessageAt, parserVars

LEMMA StartLineKeepsLineInv ==
    ASSUME IInv, LineInv, StartLine
    PROVE  LineInv'
  <1>1. PICK c : WhollyCutBy(c)
    BY DEF LineInv, StartLine
  <1>2. /\ UNCHANGED <<parserVars, special>> /\ ret' = 0 /\ it' = 1 /\ argsRead' = FALSE
        /\ step' = IF special = "none" THEN "raw" ELSE "header"
        /\ step = "idle" /\ text' \in Texts
    BY DEF StartLine
  <1>3. Holds(LineUpTo(format, text)[c[0]])'
    <2>1. c[0] = 0
      BY <1>1 DEF WhollyCutBy, CutBy
    <2>2. format \in Seq(Character) /\ text' \in [Directives -> Seq(Character)]
      BY <1>2, TextsAssumption DEF IInv, ParserInv
    <2>3. format' = format
      BY <1>2 DEF parserVars
    <2>4. PICK t : t = text'
      OBVIOUS
    <2>5. LineUpTo(format, t)[0] = <<>>
      BY <2>2, <2>4, LineUpToIs
    <2>6. LineUpTo(format', text')[c[0]] = <<>>
      BY <2>1, <2>3, <2>4, <2>5
    <2>7. QED BY <1>2, <2>6 DEF Holds
  <1>4. Progress(c)'
    <2>1. it' - 1 = 0
      BY <1>2
    <2>2. QED BY <1>2, <1>3, <2>1 DEF Progress
  <1>5. QED BY <1>1, <1>2, <1>4, Making

LEMMA AddRawKeepsLineInv ==
    ASSUME IInv, LineInv, AddRaw
    PROVE  LineInv'
  <1>1. /\ UNCHANGED <<parserVars, special, size, text, it, argsRead, failed>>
        /\ step = "raw" /\ step' = IF ret' >= size THEN "newline" ELSE "handler"
        /\ Store(Copied(formats[it].str), AtMost(Len(formats[it].str), Room))
    BY DEF AddRaw
  <1>2. PICK c : WhollyCutBy(c) /\ (~failed /\ OneMessage => Progress(c))
    BY <1>1 DEF LineInv
  <1>3. ASSUME ~failed', OneMessage' PROVE Progress(c)'
    <2>1. Progress(c)
      BY <1>1, <1>2, <1>3, SameMessages
    <2>2. /\ it \in 1 .. Len(formats) /\ ParserInv /\ BufferInv /\ text \in Texts /\ ret < size
          /\ formats[it].str \in Seq(Character)
      BY <1>1, PieceIsClean DEF IInv, ParserInv, CleanPiece
    <2>3. PICK str \in Seq(Character) : str = formats[it].str
      BY <2>2
    <2>4. PICK end : end = TextEnd(formats[it], c[it])
      OBVIOUS
    <2>5. PICK u : u = LineUpTo(format, text)
      OBVIOUS
    <2>6. /\ c[it - 1] \in 0 .. Len(format) /\ end \in 0 .. Len(format)
          /\ u[end] = u[c[it - 1]] \o str
      BY <1>2, <2>2, <2>3, <2>4, <2>5, PieceDescribes
    <2>7. /\ format \in Seq(Character) /\ text \in [Directives -> Seq(Character)]
          /\ Len(format) \in Nat
      BY <2>2, TextsAssumption DEF ParserInv
    <2>8. PICK s \in Seq(Character) : s = u[c[it - 1]]
      BY <2>5, <2>6, <2>7, LineUpToIs
    <2>9. PICK new \in Seq(Character) : new = s \o str
      BY ConcatOfSeq
    <2>10. Holds(s)
      BY <1>1, <2>1, <2>5, <2>8 DEF Progress
    <2>11. PICK bytes : bytes = Copied(str)
      OBVIOUS
    <2>12. HoldsCut(new)' /\ (ret' < size => Holds(new)')
      BY <1>1, <2>2, <2>3, <2>9, <2>10, <2>11, StoreAppends
    <2>13. PICK whole \in Seq(Character) : whole = Meant /\ whole = u[Len(format)]
      BY <2>5, <2>7, LineUpToIs, DescribedIsLast DEF Meant
    <2>14. Begins(new, whole)
      BY <2>5, <2>6, <2>7, <2>8, <2>9, <2>13, LineGrows
    <2>15. UNCHANGED <<format, formats, text, size, it>> /\ Meant' = Meant
      BY <1>1 DEF parserVars, Meant
    <2>0. BufferInv'
      BY AddRawKeepsIInv DEF IInv
    <2>16. CASE ret' >= size
      <3>1. HoldsCut(whole)'
        BY <2>0, <2>12, <2>14, <2>15, <2>16, CutIsCut
      <3>2. QED BY <1>1, <2>13, <2>15, <2>16, <3>1 DEF Progress
    <2>17. CASE ~(ret' >= size)
      <3>1. ret' < size
        BY <2>0, <2>15, <2>17 DEF BufferInv
      <3>2. Holds(LineUpTo(format, text)[TextEnd(formats[it], c[it])])'
        <4>1. TextEnd(formats[it], c[it])' = end
          BY <2>4, <2>15 DEF TextEnd
        <4>2. LineUpTo(format', text') = u
          BY <2>5, <2>15
        <4>3. QED BY <2>6, <2>8, <2>9, <2>12, <3>1, <4>1, <4>2 DEF Holds
      <3>3. argsRead' => \E i \in 1 .. c[it' - 1] : MessageAt(i)'
        BY <1>1, <2>1, <2>15, SameMessages DEF Progress
      <3>4. QED BY <1>1, <2>17, <3>2, <3>3 DEF Progress
    <2>18. QED BY <2>16, <2>17
  <1>4. QED BY <1>1, <1>2, <1>3, Making

LEMMA AddDirectiveKeepsLineInv ==
    ASSUME IInv, LineInv, AddDirective
    PROVE  LineInv'
  <1> DEFINE type == formats[it].type
             value == IF type = Raw THEN <<>>
                      ELSE IF type = Message /\ argsRead THEN <<Garbage>> ELSE text[type]
  <1>1. /\ UNCHANGED <<parserVars, special, size, text, failed>> /\ step = "handler"
        /\ IF ret' >= size THEN LeaveLoop ELSE NextPiece
        /\ argsRead' = (argsRead \/ type = Message)
    BY DEF AddDirective
  <1>2. PICK bytes : /\ bytes = IF type \in Printed THEN Printf(value) ELSE Copied(value)
                     /\ Store(bytes, AtMost(Len(value), Room))
    BY DEF AddDirective
  <1> HIDE DEF type, value
  <1>3. PICK c : WhollyCutBy(c) /\ (~failed /\ OneMessage => Progress(c))
    BY <1>1 DEF LineInv
  <1>4. ASSUME ~failed', OneMessage' PROVE Progress(c)'
    <2>1. Progress(c) /\ OneMessage
      BY <1>1, <1>3, <1>4, SameMessages
    <2>2. /\ it \in 1 .. Len(formats) /\ ParserInv /\ BufferInv /\ text \in Texts /\ ret < size
          /\ Len(formats) \in Nat /\ type \in Directives \cup {Raw}
      BY <1>1, PieceIsClean DEF IInv, ParserInv, CleanPiece, type
    <2>3. PICK end : end = TextEnd(formats[it], c[it])
      OBVIOUS
    <2>4. PICK u : u = LineUpTo(format, text)
      OBVIOUS
    <2>5. /\ c[it - 1] \in 0 .. Len(format) /\ end \in 0 .. Len(format) /\ c[it - 1] <= end
          /\ type = Raw => it = Len(formats) /\ end = Len(format)
          /\ type # Raw => /\ it < Len(formats) /\ end + 2 = c[it]
                           /\ IsDirective(format, end + 1) /\ format[end + 2] = type
                           /\ u[c[it]] = u[end] \o text[type]
      BY <1>3, <2>2, <2>3, <2>4, PieceDescribes DEF type
    <2>6. /\ format \in Seq(Character) /\ text \in [Directives -> Seq(Character)]
          /\ Len(format) \in Nat
      BY <2>2, TextsAssumption DEF ParserInv
    <2>7. type = Message => MessageAt(end + 1) /\ end + 1 \in DOMAIN format
      <3>1. (end + 1) + 1 = end + 2
        BY <2>5
      <3>2. Message # Raw
        BY DEF Message, Raw
      <3>3. QED BY <2>5, <3>1, <3>2 DEF MessageAt, IsDirective
    <2>8. type = Message => ~argsRead
      <3>1. SUFFICES ASSUME type = Message, argsRead PROVE FALSE
        OBVIOUS
      <3>2. PICK i \in 1 .. c[it - 1] : MessageAt(i)
        BY <1>1, <2>1, <3>1 DEF Progress
      <3>3. i \in DOMAIN format /\ i # end + 1
        BY <2>5, <2>6, <3>2
      <3>4. QED BY <2>1, <2>7, <3>1, <3>2, <3>3 DEF OneMessage
    <2>9. value = IF type = Raw THEN <<>> ELSE text[type]
      BY <2>8 DEF value
    <2>10. PICK t \in Seq(Character) : t = value
      <3>1. <<>> \in Seq(Character)
        BY ShortSeqs, CharactersAssumption
      <3>2. type # Raw => text[type] \in Seq(Character)
        BY <2>2, <2>6
      <3>3. QED BY <2>9, <3>1, <3>2
    <2>11. PICK s \in Seq(Character) : s = u[end]
      BY <2>4, <2>5, <2>6, LineUpToIs
    <2>12. PICK reached : reached = IF type = Raw THEN Len(format) ELSE c[it]
      OBVIOUS
    <2>13. reached \in 0 .. Len(format)
      <3>1. type # Raw => end + 2 \in 0 .. Len(format)
        BY <2>5, <2>6 DEF IsDirective
      <3>2. QED BY <2>5, <2>6, <2>12, <3>1
    <2>14. PICK new \in Seq(Character) : new = s \o t /\ new = u[reached]
      <3>1. s \o <<>> = s
        BY ConcatNothing
      <3>2. s \o t = u[reached]
        BY <2>5, <2>9, <2>10, <2>11, <2>12, <3>1
      <3>3. s \o t \in Seq(Character)
        BY ConcatOfSeq
      <3>4. QED BY <3>2, <3>3
    <2>15. Holds(s)
      BY <1>1, <2>1, <2>3, <2>4, <2>11 DEF Progress
    <2>16. HoldsCut(new)' /\ (ret' < size => Holds(new)')
      <3>1. bytes \in {Copied(t), Printf(t)} /\ Store(bytes, AtMost(Len(t), Room))
        BY <1>2, <2>10
      <3>2. QED BY <1>1, <2>2, <2>14, <2>15, <3>1, StoreAppends
    <2>17. PICK whole \in Seq(Character) : whole = Meant /\ whole = u[Len(format)]
      BY <2>4, <2>6, LineUpToIs, DescribedIsLast DEF Meant
    <2>18. Begins(new, whole)
      BY <2>4, <2>6, <2>13, <2>14, <2>17, LineGrows
    <2>19. UNCHANGED <<format, formats, text, size>> /\ Meant' = Meant
      BY <1>1 DEF parserVars, Meant
    <2>20. BufferInv'
      BY AddDirectiveKeepsIInv DEF IInv
    <2>21. CASE ret' >= size
      <3>1. HoldsCut(whole)'
        BY <2>16, <2>18, <2>19, <2>20, <2>21, CutIsCut
      <3>2. step' = "newline"
        BY <1>1, <2>21 DEF LeaveLoop
      <3>3. QED BY <2>17, <2>19, <3>1, <3>2 DEF Progress
    <2>22. CASE ~(ret' >= size)
      <3>1. ret' < size
        BY <2>19, <2>20, <2>22 DEF BufferInv
      <3>2. it' = it + 1 /\ step' = IF it = Len(formats) THEN "newline" ELSE "raw"
        BY <1>1, <2>22 DEF NextPiece
      <3>3. CASE it = Len(formats)
        <4>1. new = whole
          <5>1. Len(formats) \in Nat
            BY <2>2 DEF ParserInv
          <5>2. type = Raw
            <6>1. PICK n \in Nat : n = Len(formats)
              BY <5>1
            <6>2. ~(it < n)
              BY <3>3, <6>1
            <6>3. type # Raw => it < n
              BY <2>5, <6>1
            <6>4. QED BY <6>2, <6>3
          <5>3. reached = Len(format)
            BY <2>12, <5>2
          <5>4. QED BY <2>14, <2>17, <5>3
        <4>2. step' = "newline"
          BY <3>2, <3>3
        <4>3. QED BY <2>16, <2>17, <2>19, <4>1, <4>2 DEF Progress
      <3>4. CASE it # Len(formats)
        <4>1. type # Raw /\ step' = "raw" /\ it' - 1 = it /\ reached = c[it]
          BY <2>2, <2>5, <2>12, <3>2, <3>4
        <4>2. Holds(LineUpTo(format, text)[c[it - 1]])'
          <5>1. LineUpTo(format', text')[c[it' - 1]] = new
            BY <2>4, <2>14, <2>19, <4>1
          <5>2. QED BY <2>16, <3>1, <5>1 DEF Holds
        <4>3. ASSUME argsRead' PROVE \E i \in 1 .. c[it' - 1] : MessageAt(i)'
          <5>1. CASE type = Message
            <6>1. end + 1 \in 1 .. c[it] /\ MessageAt(end + 1)'
              BY <1>1, <2>5, <2>7, <4>1, <5>1, SameMessages
            <6>2. QED BY <4>1, <6>1
          <5>2. CASE type # Message
            <6>1. argsRead
              BY <1>1, <4>3, <5>2
            <6>2. PICK i \in 1 .. c[it - 1] : MessageAt(i)
              BY <1>1, <2>1, <6>1 DEF Progress
            <6>3. i \in 1 .. c[it] /\ MessageAt(i)'
              BY <1>1, <2>5, <4>1, <6>2, SameMessages
            <6>4. QED BY <4>1, <6>3
          <5>3. QED BY <5>1, <5>2
        <4>4. QED BY <4>1, <4>2, <4>3 DEF Progress
      <3>5. QED BY <3>3, <3>4
    <2>23. QED BY <2>21, <2>22
  <1>5. step' \in {"newline", "raw"}
    BY <1>1 DEF LeaveLoop, NextPiece
  <1>6. QED BY <1>1, <1>3, <1>4, <1>5, Making

LEMMA AddHeaderKeepsLineInv ==
    ASSUME IInv, LineInv, AddHeader
    PROVE  LineInv'
  <1>1. /\ UNCHANGED <<parserVars, special, size, text, failed>> /\ step = "header"
        /\ step' = IF ret' >= size THEN "newline" ELSE "message"
        /\ Store(Printf(HeaderOf(special, text)), AtMost(Len(HeaderOf(special, text)), Room))
    BY DEF AddHeader
  <1>2. PICK c : WhollyCutBy(c) /\ (~failed /\ OneMessage => Progress(c))
    BY <1>1 DEF LineInv
  <1>3. special # "none" /\ special = SpecialOf(format)
    BY <1>1 DEF LineInv
  <1>4. ASSUME ~failed', OneMessage' PROVE Progress(c)'
    <2>1. ret = 0
      BY <1>1, <1>2, <1>4, SameMessages DEF Progress
    <2>2. ParserInv /\ BufferInv /\ text \in Texts /\ ret < size
      BY <1>1 DEF IInv
    <2>3. PICK header \in Seq(Character) : header = HeaderOf(special, text)
      BY <2>2, HeaderIsSeq
    <2>4. PICK s \in Seq(Character) : s = <<>> /\ s \o header = header
      <3>1. <<>> \in Seq(Character)
        BY CharactersAssumption, ShortSeqs
      <3>2. <<>> \o header = header
        OBVIOUS
      <3>3. QED BY <3>1, <3>2
    <2>5. Holds(s)
      BY <2>1, <2>4 DEF Holds
    <2>6. PICK bytes : bytes = Printf(header)
      OBVIOUS
    <2>7. HoldsCut(header)' /\ (ret' < size => Holds(header)')
      BY <1>1, <2>2, <2>3, <2>4, <2>5, <2>6, StoreAppends
    <2>8. PICK message \in Seq(Character) : message = text[Message]
      BY <2>2, TextsAssumption, LettersAssumption DEF Message
    <2>9. PICK whole \in Seq(Character) : whole = Meant /\ whole = header \o message
      BY <1>3, <2>2, <2>3, <2>8, SpecialDescribes, ConcatOfSeq
    <2>10. Begins(header, whole)
      BY <2>9, ConcatIs DEF Begins
    <2>11. /\ UNCHANGED <<format, text, size, special>> /\ Meant' = Meant
           /\ HeaderOf(special', text') = header
      BY <1>1, <2>3 DEF parserVars, Meant
    <2>12. BufferInv'
      BY SpecialKeepsIInv DEF IInv
    <2>13. CASE ret' >= size
      <3>1. HoldsCut(whole)'
        BY <2>7, <2>10, <2>11, <2>12, <2>13, CutIsCut
      <3>2. QED BY <1>1, <2>9, <2>11, <2>13, <3>1 DEF Progress
    <2>14. CASE ~(ret' >= size)
      <3>1. ret' < size
        BY <2>11, <2>12, <2>14 DEF BufferInv
      <3>2. QED BY <1>1, <2>7, <2>11, <2>14, <3>1 DEF Progress
    <2>15. QED BY <2>13, <2>14
  <1>5. QED BY <1>1, <1>2, <1>3, <1>4, Making

LEMMA AddMessageKeepsLineInv ==
    ASSUME IInv, LineInv, AddMessage
    PROVE  LineInv'
  <1>1. /\ UNCHANGED <<parserVars, special, size, text, failed>> /\ step = "message"
        /\ step' = "newline"
        /\ Store(Printf(text[Message]), AtMost(Len(text[Message]), Room))
    BY DEF AddMessage
  <1>2. PICK c : WhollyCutBy(c) /\ (~failed /\ OneMessage => Progress(c))
    BY <1>1 DEF LineInv
  <1>3. special # "none" /\ special = SpecialOf(format)
    BY <1>1 DEF LineInv
  <1>4. ASSUME ~failed', OneMessage' PROVE Progress(c)'
    <2>1. Holds(HeaderOf(special, text))
      BY <1>1, <1>2, <1>4, SameMessages DEF Progress
    <2>2. ParserInv /\ BufferInv /\ text \in Texts /\ ret < size
      BY <1>1 DEF IInv
    <2>3. PICK header \in Seq(Character) : header = HeaderOf(special, text)
      BY <2>2, HeaderIsSeq
    <2>4. PICK message \in Seq(Character) : message = text[Message]
      BY <2>2, TextsAssumption, LettersAssumption DEF Message
    <2>5. Holds(header)
      BY <2>1, <2>3
    <2>6. PICK bytes : bytes = Printf(message)
      OBVIOUS
    <2>7. PICK whole \in Seq(Character) : whole = Meant /\ whole = header \o message
      BY <1>3, <2>2, <2>3, <2>4, SpecialDescribes, ConcatOfSeq
    <2>8. HoldsCut(whole)'
      BY <1>1, <2>2, <2>4, <2>5, <2>6, <2>7, StoreAppends
    <2>9. Meant' = Meant
      BY <1>1 DEF parserVars, Meant
    <2>10. QED BY <1>1, <2>7, <2>8, <2>9 DEF Progress
  <1>5. QED BY <1>1, <1>2, <1>3, <1>4, Making

LEMMA EndLineKeepsLineInv ==
    ASSUME IInv, LineInv, EndLine
    PROVE  LineInv'
  <1>1. PICK msg_len : /\ msg_len = IF ret >= size THEN size - 1 ELSE ret
                       /\ line' = Append(SubSeq(buf, 1, msg_len), Newline)
    BY DEF EndLine
  <1>2. /\ UNCHANGED <<parserVars, special, size, text, failed>> /\ step = "newline" /\ step' = "idle"
    BY DEF EndLine
  <1>3. PICK c : WhollyCutBy(c) /\ (~failed /\ OneMessage => Progress(c))
    BY <1>2 DEF LineInv
  <1>4. WhollyCutBy(c)' /\ Progress(c)' /\ special' = SpecialOf(format')
    BY <1>2, <1>3, SameCut DEF Progress, LineInv, parserVars
  <1>5. ASSUME ~failed', OneMessage'
        PROVE  line' = Append(SubSeq(Meant, 1, AtMost(Len(Meant), size - 1)), Newline)'
    <2>1. HoldsCut(Meant)
      BY <1>2, <1>3, <1>5, SameMessages DEF Progress
    <2>2. /\ format \in Seq(Character) /\ text \in [Directives -> Seq(Character)]
          /\ Len(format) \in Nat
      BY TextsAssumption DEF IInv, ParserInv
    <2>3. PICK whole \in Seq(Character) : whole = Meant
      BY <2>2, LineUpToIs, DescribedIsLast DEF Meant
    <2>4. /\ size \in Nat \ {0} /\ ret \in Nat /\ buf \in [1 .. size -> STRING] /\ Len(whole) \in Nat
          /\ ret = AtMost(Len(whole), size)
          /\ \A i \in 1 .. AtMost(ret, size - 1) : buf[i] = whole[i]
      BY <2>1, <2>3 DEF HoldsCut, IInv, BufferInv
    <2>5. /\ msg_len \in Nat /\ msg_len <= Len(whole) /\ msg_len <= size
          /\ msg_len = AtMost(ret, size - 1) /\ msg_len = AtMost(Len(whole), size - 1)
      BY <1>1, <2>4 DEF AtMost
    <2>6. SubSeq(buf, 1, msg_len) = [i \in 1 .. msg_len |-> buf[i]]
      BY <2>4, <2>5
    <2>7. SubSeq(whole, 1, msg_len) = [i \in 1 .. msg_len |-> whole[i]]
      BY <2>5
    <2>8. SubSeq(buf, 1, msg_len) = SubSeq(whole, 1, msg_len)
      BY <2>4, <2>5, <2>6, <2>7
    <2>9. Meant' = whole /\ size' = size
      BY <1>2, <2>3 DEF parserVars, Meant
    <2>10. QED BY <1>1, <2>5, <2>8, <2>9
  <1>6. LineIsMeant'
    BY <1>5 DEF LineIsMeant
  <1>7. QED BY <1>2, <1>4, <1>6 DEF LineInv

LEMMA LineInvStep ==
    ASSUME IInv, LineInv, [Next]_vars
    PROVE  LineInv'
  <1>1. CASE HandlerFails \/ SpecialFails
    <2>1. /\ UNCHANGED <<parserVars, special>> /\ failed' = TRUE
          /\ step \in {"handler", "header", "message"} /\ step' \in {"raw", "newline"}
      BY <1>1 DEF HandlerFails, SpecialFails, NextPiece
    <2>2. PICK c : WhollyCutBy(c)
      BY <2>1 DEF LineInv
    <2>3. (~failed /\ OneMessage => Progress(c))'
      BY <2>1
    <2>4. QED BY <2>1, <2>2, <2>3, Making
  <1>2. CASE Crash
    <2>1. UNCHANGED <<parserVars, special>> /\ step = "handler" /\ step' = "crashed"
      BY <1>2 DEF Crash
    <2>2. PICK c : WhollyCutBy(c)
      BY <2>1 DEF LineInv
    <2>3. Progress(c)'
      BY <2>1 DEF Progress
    <2>4. QED BY <2>1, <2>2, <2>3, Making
  <1>3. CASE UNCHANGED vars
    <2>1. UNCHANGED <<parserVars, special, step, size, text, buf, ret, it, argsRead, failed, line, lines>>
      BY <1>3 DEF vars, lineVars
    <2>2. LineIsMeant'
      BY <2>1, SameMessages DEF LineInv, LineIsMeant, Meant, parserVars
    <2>3. \A c : PartlyCutBy(c)' <=> PartlyCutBy(c)
      BY <2>1 DEF PartlyCutBy, CutBy, PieceIs, parserVars
    <2>4. \A c : WhollyCutBy(c) => WhollyCutBy(c)'
      BY <2>1, SameCut
    <2>5. \A c : Progress(c)' <=> Progress(c)
      BY <2>1, SameMessages DEF Progress, Holds, HoldsCut, TextEnd, Meant, parserVars
    <2>6. QED BY <2>1, <2>2, <2>3, <2>4, <2>5, SameMessages DEF LineInv, parserVars
  <1>4. QED BY <1>1, <1>2, <1>3, ConstructorKeepsLineInv, StartLineKeepsLineInv,
               AddRawKeepsLineInv, AddDirectiveKeepsLineInv, AddHeaderKeepsLineInv,
               AddMessageKeepsLineInv, EndLineKeepsLineInv DEF Next, format_

(* For every format, every value of its directives and every size of the      *)
(* buffer: a line is what the format describes, cut off for the newline where *)
(* the buffer ends, whether the pieces of the parser or the function for a    *)
(* special format made it (Formatter.cc, writeLog() in Log.cc).                *)
THEOREM LinesAreMeant == Spec => []LineIsMeant
  <1>1. Init => IInv /\ LineInv
    <2>1. Init => LineInv
      BY DEF Init, ParserInit, LineInv, LineIsMeant
    <2>2. QED BY <2>1, IInvInit
  <1>2. (IInv /\ LineInv) /\ [Next]_vars => (IInv /\ LineInv)'
    BY IInvStep, LineInvStep
  <1>3. IInv /\ LineInv => LineIsMeant
    BY DEF LineInv
  <1>4. QED BY <1>1, <1>2, <1>3, PTL DEF Spec
===============================================================================
