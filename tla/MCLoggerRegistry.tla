--------------------------- MODULE MCLoggerRegistry ----------------------------
(* A small instance of LoggerRegistry for TLC. *)
EXTENDS LoggerRegistry, TLC

CONSTANTS n1, wf, f1, f2, t1, t2

Valid(n, f) == [kind |-> "valid", name |-> n, path |-> f]
Wrong == [kind |-> "wrong", name |-> n1, path |-> f1]
Empty == [kind |-> "empty", name |-> n1, path |-> f1]

\* Nothing configured, a shared file, two files, a duplicate, a wrong entry.
SomeConfs ==
    {<<>>,
     <<Empty, Valid(n1, f1)>>,
     <<Valid(n1, f1), Valid(wf, f1)>>,
     <<Valid(wf, f2), Valid(n1, f1)>>,
     <<Valid(n1, f1), Valid(n1, f2)>>,
     <<Valid(n1, f1), Wrong>>}
===============================================================================
