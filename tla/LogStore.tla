------------------------------- MODULE LogStore -------------------------------
(***************************************************************************)
(* What a rotated log promises: of the files created one at a time one is  *)
(* current; it may be archived and never becomes current again; only the   *)
(* operator takes files out of the store; and no file ever loses a line,   *)
(* wherever it is.  Who writes, and when files are changed, is left open.  *)
(***************************************************************************)
EXTENDS Integers

CONSTANTS
    Files,      \* the files that may be created, numbered from 1
    None        \* no file

VARIABLES
    created,    \* the number of files created
    current,    \* the file that has the log's own name
    archived,   \* the files moved aside
    removed,    \* the files taken by the operator
    lines       \* the number of lines in each file

storeVars == <<created, current, archived, removed, lines>>

Init ==
    /\ created = 0 /\ current = None /\ archived = {} /\ removed = {}
    /\ lines = [i \in Files |-> 0]

Create ==
    /\ current = None /\ created + 1 \in Files
    /\ created' = created + 1 /\ current' = created + 1
    /\ UNCHANGED <<archived, removed, lines>>

Archive ==
    /\ current # None /\ current' = None
    /\ archived' = archived \cup {current}
    /\ UNCHANGED <<created, removed, lines>>

Remove ==
    /\ \/ /\ current # None /\ current' = None
          /\ removed' = removed \cup {current}
          /\ UNCHANGED archived
       \/ \E i \in archived :
            /\ archived' = archived \ {i} /\ removed' = removed \cup {i}
            /\ UNCHANGED current
    /\ UNCHANGED <<created, lines>>

(* A descriptor may still refer to a file that was archived or removed. *)
WriteLine ==
    /\ \E i \in 1 .. created : lines' = [lines EXCEPT ![i] = @ + 1]
    /\ UNCHANGED <<created, current, archived, removed>>

Next == Create \/ Archive \/ Remove \/ WriteLine

Spec == Init /\ [][Next]_storeVars
===============================================================================
