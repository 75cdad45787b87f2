----------------------------- MODULE MCSplitFormat ------------------------------
(***************************************************************************)
(* The instance of SplitFormat for TLC: every format of up to five         *)
(* characters over a percent sign, an ordinary character and two           *)
(* directives.                                                             *)
(***************************************************************************)
EXTENDS SplitFormat

Characters == {"%", "_", "H", "n"}
SomeFormats == UNION {[1 .. n -> Characters] : n \in 0 .. 5}
=================================================================================
