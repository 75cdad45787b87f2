---------------------------- MODULE MCFileAppender ----------------------------
(* Small instances of FileAppender for TLC, and what is checked on them. *)
EXTENDS FileAppender, TLC

CONSTANTS p1, p2, t1, t2, t3

OneProcess == [t \in {t1, t2} |-> p1]
TwoProcesses == (t1 :> p1) @@ (t2 :> p1) @@ (t3 :> p2)

\* t1 and t2 are threads of the same process in every instance.
ThreadSymmetry == Permutations({t1, t2})
===============================================================================
