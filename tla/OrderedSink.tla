----------------------------- MODULE OrderedSink ------------------------------
(***************************************************************************)
(* What an asynchronous appender promises to the threads that log: lines   *)
(* are numbered in the order in which they are accepted; the file receives *)
(* each line at most once and in that order; a line that is not delivered  *)
(* is accounted for as lost.  It does not say when lines are delivered.    *)
(***************************************************************************)
EXTENDS Integers, Sequences

CONSTANT MaxMsgs    \* bound on the number of lines

VARIABLES
    accepted,   \* the number of lines accepted
    delivered,  \* the lines in the file, in file order
    lost        \* the lines that will never be in the file

svars == <<accepted, delivered, lost>>

Pending ==
    {m \in 1..accepted : m \notin lost /\ \A k \in DOMAIN delivered : delivered[k] # m}

Init == accepted = 0 /\ delivered = <<>> /\ lost = {}

Accept ==
    /\ accepted < MaxMsgs
    /\ accepted' = accepted + 1
    /\ UNCHANGED <<delivered, lost>>

(* The oldest pending line is appended to the file. *)
Deliver ==
    /\ \E m \in Pending :
         /\ \A k \in Pending : m <= k
         /\ delivered' = Append(delivered, m)
    /\ UNCHANGED <<accepted, lost>>

Lose ==
    /\ \E S \in SUBSET Pending : S # {} /\ lost' = lost \cup S
    /\ UNCHANGED <<accepted, delivered>>

Next == Accept \/ Deliver \/ Lose

Spec == Init /\ [][Next]_svars
===============================================================================
