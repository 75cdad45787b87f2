---------------------------- MODULE MCLogStatement ----------------------------
(* Small instances of LogStatement for TLC. *)
EXTENDS LogStatement

CONSTANTS p1, p2, t1, t2

SomeStmts == {[counts |-> FALSE, format |-> {"time", "pid"}],
              [counts |-> TRUE, format |-> {"tid"}]}
===============================================================================
